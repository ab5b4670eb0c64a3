------------------------- MODULE TargetMemoryProofs -------------------------
(***************************************************************************)
(* Theorems about breakpoints, watchpoints (Breakpoints.tla,               *)
(* TargetMemory.tla) and the memory cache (MemoryCache.tla), for every     *)
(* memory map of whole halfwords, every number of comparators, of failures *)
(* (at once or of posted writes, later) and of run tokens, every range     *)
(* read and written and whatever the core does in between.                 *)
(*                                                                         *)
(* The inductive invariant has four parts:                                 *)
(*                                                                         *)
(*   MemoryInv   what the bytes of memory are, in terms of what they would *)
(*               be without breakpoints (shadow) and of what the software  *)
(*               provider and the manager keep;                            *)
(*   FPBInv      how the manager's list, the FPB's records and count and   *)
(*               the comparators match;                                    *)
(*   DWTInv      the same for the watchpoints;                             *)
(*   CacheInv    the intervals of the cache are apart, each within one     *)
(*               region, and there is a map of memory whose bytes all of   *)
(*               them hold; where the cache is valid and the code lets     *)
(*               nothing go stale, that map is shadow.                     *)
(*                                                                         *)
(* The last part rests on what the algorithms of the cache return for any  *)
(* intervals that hold the bytes of one map: what is read and merged are   *)
(* its bytes (CachedReadIs), and what a write leaves holds those of the    *)
(* map rewritten (WriteIs).                                                *)
(***************************************************************************)
EXTENDS TargetMemory, SequenceLemmas, TLAPS, FiniteSetTheorems, WellFoundedInduction

-----------------------------------------------------------------------------
\* A byte under no software breakpoint is what it would be without any.
Clean == \A b \in Addresses \ spoilt : ~HasBkpt(b) => mem[b] = shadow[b]

\* What the provider keeps is what would be there without the breakpoint, and
\* so is what it has read for the breakpoint it is about to set.
Originals ==
  \A a \in DOMAIN sw : \A b \in {a, a + 1} \ spoilt : sw[a][b - a + 1] = shadow[b]

PendingRight ==
  pending # NoPending =>
    /\ pending.addr \notin DOMAIN mgr
    /\ \A b \in {pending.addr, pending.addr + 1} \ spoilt :
         pending.instr[b - pending.addr + 1] = shadow[b]

\* The manager and the provider hold the same object of a breakpoint.
SameInstr ==
  \A a \in DOMAIN mgr \cap DOMAIN sw : mgr[a].type = "sw" => mgr[a].instr = sw[a]

\* Until an access failed the two lists are the same, and BKPT stands where
\* they say.
InPlace ==
  ~failed =>
    /\ Orphans = {}
    /\ \A a \in DOMAIN sw :
         /\ a \in DOMAIN mgr /\ mgr[a].type = "sw"
         /\ \A b \in {a, a + 1} \ spoilt : mem[b] = Bkpt

MemoryInv ==
  /\ BreakpointsTypeOK
  /\ Clean /\ Originals /\ PendingRight /\ SameInstr /\ InPlace

\* Until an access failed, the manager's hardware breakpoints and the FPB's
\* enabled records point at each other, and the comparators and the count
\* follow the records.
Enabled == {i \in Index : comps[i].enabled}

OwnRecords ==
  ~failed =>
    /\ \A a \in DOMAIN mgr : mgr[a].type = "hw" =>
         comps[mgr[a].comp].enabled /\ comps[mgr[a].comp].addr = a
    /\ \A i \in Enabled :
         /\ comps[i].addr \in DOMAIN mgr
         /\ mgr[comps[i].addr].type = "hw" /\ mgr[comps[i].addr].comp = i

Armed ==
  ~failed =>
    /\ \A i \in Index : fpcomp[i] = IF comps[i].enabled THEN comps[i].addr ELSE NoMatch
    /\ fpb.used = Cardinality(Enabled)
    /\ fpb.used > 0 => fpb.enabled

\* A watchpoint the device refused is one whose record is taken.
WatchTypesOK ==
  /\ watch \in [1..Watchpoints -> [addr : WatchAddresses \cup {0}, size : WatchSizes \cup {0},
                                   func : WatchTypes \cup {0}]]
  /\ func \in [1..Watchpoints -> WatchTypes \cup {0}]
  /\ refused \subseteq {i \in 1..Watchpoints : watch[i].func # 0}
  /\ astray \subseteq 1..Watchpoints

FPBInv == OwnRecords /\ Armed
DWTInv == WatchTypesOK /\ WatchpointsAgree

IInv == MemoryInv /\ FPBInv /\ DWTInv

-----------------------------------------------------------------------------
\* A set of indices that is not empty has a least one: the choice of a
\* comparator is never arbitrary.
LEMMA HasLeast ==
  ASSUME NEW n \in Nat, NEW S, S \subseteq 1..n, S # {}
  PROVE  \E i \in S : \A j \in S : i <= j
<1> DEFINE Upto(i) == {j \in S : j <= i}
           T == {Upto(i) : i \in S}
           R == StrictSubsetOrdering(S)
<1>1. IsWellFoundedOn(R, FiniteSubsetsOf(S))
  BY FS_StrictSubsetOrderingWellFounded
<1>2. IsFiniteSet(S)
  <2>1. S \in SUBSET (1..n) /\ IsFiniteSet(1..n)
    BY FS_Interval
  <2> QED BY <2>1, FS_Subset
<1>3. \A i \in S : Upto(i) \in FiniteSubsetsOf(S)
  BY <1>2, FS_Subset DEF FiniteSubsetsOf
<1>4. T \subseteq FiniteSubsetsOf(S) /\ T # {}
  BY <1>3
<1>5. PICK t \in T : \A u \in T : <<u, t>> \notin R
  <2> HIDE DEF R, T
  <2> QED BY <1>1, <1>4, WFMin
<1>6. PICK i \in S : t = Upto(i)
  OBVIOUS
<1>7. \A j \in S : ~(j < i)
  <2> SUFFICES ASSUME NEW j \in S, j < i PROVE FALSE
    OBVIOUS
  <2>1. i \in 1..n /\ j \in 1..n
    OBVIOUS
  <2>2. Upto(j) \in T
    OBVIOUS
  <2>3. i \in Upto(i) /\ i \notin Upto(j)
    BY <2>1
  <2>4. Upto(j) \subseteq Upto(i)
    <3>1. \A x \in S : x \in 1..n
      OBVIOUS
    <3>2. \A x \in 1..n : x <= j => x <= i
      BY <2>1
    <3> QED BY <3>1, <3>2
  <2>5. <<Upto(j), Upto(i)>> \in R
    BY <2>3, <2>4 DEF StrictSubsetOrdering
  <2> QED BY <1>5, <1>6, <2>2, <2>5
<1> QED BY <1>7

\* Addresses of memory are natural numbers, and halfwords lie within it.
LEMMA WholeHalfwords ==
  /\ Addresses \subseteq Nat
  /\ \A a \in Halfwords : a \in Addresses /\ a + 1 \in Addresses
  /\ Halfwords \subseteq Nat
<1>1. Addresses \subseteq Nat
  BY BreakpointsAssumption DEF BreakpointsAssumption, Addresses
<1>2. ASSUME NEW a \in Halfwords PROVE a + 1 \in Addresses
  <2>1. a \in Addresses /\ a % 2 = 0
    BY DEF Halfwords
  <2>2. PICK k \in DOMAIN Map : a \in Map[k].start..Map[k].end
    BY <2>1 DEF Addresses
  <2>3. /\ Map[k].start \in Nat /\ Map[k].end \in Nat
        /\ Map[k].end % 2 = 1
    BY BreakpointsAssumption DEF BreakpointsAssumption
  <2>4. a + 1 \in Map[k].start..Map[k].end
    <3> DEFINE s == Map[k].start
               e == Map[k].end
    <3>1. s \in Nat /\ e \in Nat /\ e % 2 = 1 /\ a \in s..e /\ a % 2 = 0
      BY <2>1, <2>2, <2>3
    <3> HIDE DEF s, e
    <3>2. a + 1 \in s..e
      BY <3>1
    <3> QED BY <3>2 DEF s, e
  <2> QED BY <2>4 DEF Addresses
<1> QED BY <1>1, <1>2 DEF Halfwords

\* A byte is covered by one breakpoint at most.
LEMMA OneCovers ==
  ASSUME NEW a \in Halfwords, NEW c \in Halfwords, NEW b, Covers(a, b), Covers(c, b)
  PROVE  a = c
<1>1. a \in Nat /\ c \in Nat /\ a % 2 = 0 /\ c % 2 = 0
  BY WholeHalfwords DEF Halfwords
<1>2. b \in {a, a + 1} /\ b \in {c, c + 1}
  BY DEF Covers
<1> QED BY <1>1, <1>2

-----------------------------------------------------------------------------
\* The comparators that the code looks for are there.
LEMMA FirstFreeIs ==
  ASSUME NEW addr, NEW type, CanSet(addr, type), ChooseType(addr, type) = "hw"
  PROVE  FirstFree \in Index /\ ~comps[FirstFree].enabled
<1> DEFINE S == {i \in Index : ~comps[i].enabled}
<1>1. S # {}
  BY DEF CanSet
<1>2. Comparators \in Nat /\ S \subseteq 1..Comparators
  BY BreakpointsAssumption DEF BreakpointsAssumption, Index
<1>3. PICK i \in S : \A j \in S : i <= j
  <2> HIDE DEF S
  <2> QED BY <1>1, <1>2, HasLeast
<1>4. \A j \in 1..(i - 1) : comps[j].enabled
  <2> SUFFICES ASSUME NEW j \in 1..(i - 1), ~comps[j].enabled PROVE FALSE
    OBVIOUS
  <2>1. i \in 1..Comparators
    BY DEF Index
  <2>2. j \in Index /\ j < i
    BY <1>2, <2>1 DEF Index
  <2> QED BY <1>3, <2>1, <2>2 DEF Index
<1> QED BY <1>3, <1>4 DEF FirstFree

LEMMA FirstMatchingIs ==
  ASSUME NEW addr, Matching(addr) # {}
  PROVE  FirstMatching(addr) \in Matching(addr)
<1>1. Comparators \in Nat /\ Matching(addr) \subseteq 1..Comparators
  BY BreakpointsAssumption DEF BreakpointsAssumption, Index, Matching
<1>2. \E i \in Matching(addr) : \A j \in Matching(addr) : i <= j
  BY <1>1, HasLeast
<1> QED BY <1>2 DEF FirstMatching

\* An FPB without a free comparator gets no breakpoint: the count stays within
\* its comparators.
LEMMA HardwareIsAvailable ==
  ASSUME NEW addr, NEW type, ChooseType(addr, type) = "hw", BreakpointsTypeOK
  PROVE  fpb.used + 1 <= Comparators
<1>1. Available # 0
  BY DEF ChooseType, Available
<1>2. fpb.used \in Int /\ fpb.used <= Comparators /\ Comparators \in Nat
  BY BreakpointsAssumption DEF BreakpointsTypeOK, BreakpointsAssumption
<1> QED BY <1>1, <1>2 DEF Available

-----------------------------------------------------------------------------
\* Memory after instructions were put back: each byte of them is as it was
\* kept, and the others are untouched.
LEMMA ReinstatedIs ==
  ASSUME BreakpointsTypeOK, NEW addrs, addrs \subseteq DOMAIN mgr,
         \A a \in addrs : mgr[a].type = "sw"
  PROVE  /\ Reinstated(addrs) \in [Addresses -> {0, 1, Bkpt}]
         /\ \A a \in addrs : \A b \in {a, a + 1} :
              b \in Addresses /\ Reinstated(addrs)[b] = mgr[a].instr[b - a + 1]
         /\ \A b \in Addresses \ Bytes(addrs) : Reinstated(addrs)[b] = mem[b]
<1>1. addrs \subseteq Halfwords /\ \A a \in addrs : mgr[a].instr \in [1..2 -> {0, 1, Bkpt}]
  BY DEF BreakpointsTypeOK
<1>2. ASSUME NEW a \in addrs, NEW b \in {a, a + 1}
      PROVE  b \in Addresses /\ Reinstated(addrs)[b] = mgr[a].instr[b - a + 1]
  <2>1. b \in Addresses
    BY <1>1, WholeHalfwords
  <2>2. Covers(a, b) /\ b \in Bytes(addrs)
    BY <2>1 DEF Covers, Bytes
  <2>3. (CHOOSE c \in addrs : Covers(c, b)) = a
    BY <1>1, <2>2, OneCovers
  <2> QED BY <2>1, <2>2, <2>3 DEF Reinstated
<1>3. ASSUME NEW b \in Addresses \ Bytes(addrs)
      PROVE  Reinstated(addrs)[b] = mem[b]
  BY DEF Reinstated
<1>4. ASSUME NEW b \in Addresses PROVE Reinstated(addrs)[b] \in {0, 1, Bkpt}
  <2>1. CASE b \in Bytes(addrs)
    <3>1. PICK a \in addrs : Covers(a, b)
      BY <2>1 DEF Bytes
    <3>2. b \in {a, a + 1} /\ a \in Nat
      BY <1>1, <3>1, WholeHalfwords DEF Covers
    <3>3. b - a + 1 \in 1..2
      BY <3>2
    <3> QED BY <1>1, <1>2, <3>2, <3>3
  <2>2. CASE b \notin Bytes(addrs)
    BY <1>3, <2>2 DEF BreakpointsTypeOK
  <2> QED BY <2>1, <2>2
<1>5. Reinstated(addrs) \in [Addresses -> {0, 1, Bkpt}]
  BY <1>4 DEF Reinstated
<1> QED BY <1>2, <1>3, <1>5

-----------------------------------------------------------------------------
\* Reads hide the breakpoints of the software provider: a byte that is not
\* spoilt is read, by an access of its own size and alignment, as it would be
\* without them.  (SoftwareBreakpointProvider.filter_memory)
LEMMA ReadHides ==
  ASSUME BreakpointsTypeOK, Clean, Originals,
         NEW addr \in Addresses, NEW size \in {1, 2, 4}, addr % size = 0,
         NEW k \in 1..size, addr + k - 1 \in Addresses \ spoilt
  PROVE  ReadMemory(addr, size)[k] = shadow[addr + k - 1]
<1> DEFINE b == addr + k - 1
           data == Raw(addr, size)
           hits == {bp \in DOMAIN sw \cap Seen(addr, Len(data)) : Covers(bp, b)}
<1>1. DOMAIN sw \subseteq Halfwords /\ addr \in Nat
  BY WholeHalfwords DEF BreakpointsTypeOK
<1>2. Len(data) = size /\ DOMAIN data = 1..size /\ data[k] = mem[b]
  BY DEF Raw
<1>3. hits = {bp \in DOMAIN sw : Covers(bp, b)}
  <2> SUFFICES ASSUME NEW bp \in DOMAIN sw, Covers(bp, b) PROVE bp \in Seen(addr, size)
    BY <1>2
  <2>1. bp \in Nat /\ bp % 2 = 0 /\ (bp = addr + k - 1 \/ bp = addr + k - 2)
    BY <1>1, WholeHalfwords DEF Halfwords, Covers
  <2>2. CASE size = 1
    BY <1>1, <2>1, <2>2 DEF Seen
  <2>3. CASE size = 2
    <3>1. k = 1 \/ k = 2
      BY <2>3
    <3>2. bp = addr
      BY <1>1, <2>1, <2>3, <3>1
    <3> QED BY <2>3, <3>2 DEF Seen
  <2>4. CASE size = 4
    <3>1. k = 1 \/ k = 2 \/ k = 3 \/ k = 4
      BY <2>4
    <3>2. bp = addr \/ bp = addr + 2
      BY <1>1, <2>1, <2>4, <3>1
    <3> QED BY <2>4, <3>2 DEF Seen
  <2> QED BY <2>2, <2>3, <2>4
<1>4. ReadMemory(addr, size)[k] =
        IF hits = {} THEN data[k]
        ELSE LET bp == CHOOSE c \in hits : TRUE IN sw[bp][addr + k - bp]
  BY <1>2 DEF ReadMemory, FilterMemory
<1>5. CASE hits = {}
  <2>1. ~HasBkpt(b)
    BY <1>3, <1>5 DEF HasBkpt
  <2> QED BY <1>2, <1>4, <1>5, <2>1 DEF Clean
<1>6. CASE hits # {}
  <2>1. PICK bp \in hits : bp = CHOOSE c \in hits : TRUE
    BY <1>6
  <2>2. bp \in DOMAIN sw /\ b \in {bp, bp + 1} /\ bp \in Nat
    BY <1>1, <2>1, WholeHalfwords DEF Covers
  <2>3. sw[bp][b - bp + 1] = shadow[b]
    BY <2>2 DEF Originals
  <2>4. b - bp + 1 = addr + k - bp
    BY <1>1, <2>2
  <2> QED BY <1>4, <1>6, <2>1, <2>3, <2>4
<1> QED BY <1>5, <1>6

\* What is read has the type of bytes.
LEMMA ReadType ==
  ASSUME BreakpointsTypeOK, NEW addr \in Halfwords
  PROVE  ReadMemory(addr, 2) \in [1..2 -> {0, 1, Bkpt}]
<1> DEFINE data == Raw(addr, 2)
<1>1. DOMAIN data = 1..2 /\ addr \in Nat
  BY WholeHalfwords DEF Raw
<1>2. ASSUME NEW k \in 1..2
      PROVE  ReadMemory(addr, 2)[k] \in {0, 1, Bkpt}
  <2> DEFINE hits == {bp \in DOMAIN sw \cap Seen(addr, Len(data)) : Covers(bp, addr + k - 1)}
  <2>1. ReadMemory(addr, 2)[k] =
          IF hits = {} THEN data[k]
          ELSE LET bp == CHOOSE c \in hits : TRUE IN sw[bp][addr + k - bp]
    BY <1>1 DEF ReadMemory, FilterMemory
  <2>2. CASE hits = {}
    <3>1. addr + k - 1 \in Addresses
      <4>1. k = 1 \/ k = 2
        OBVIOUS
      <4>2. addr + k - 1 = addr \/ addr + k - 1 = addr + 1
        BY <1>1, <4>1
      <4> QED BY <4>2, WholeHalfwords
    <3>2. data[k] = mem[addr + k - 1]
      BY DEF Raw
    <3> QED BY <2>1, <2>2, <3>1, <3>2 DEF BreakpointsTypeOK
  <2>3. CASE hits # {}
    <3>1. PICK bp \in hits : bp = CHOOSE c \in hits : TRUE
      BY <2>3
    <3>2. bp \in DOMAIN sw /\ addr + k - 1 \in {bp, bp + 1} /\ bp \in Nat
      BY <3>1, WholeHalfwords DEF Covers, BreakpointsTypeOK
    <3>3. addr + k - bp \in 1..2
      BY <1>1, <3>2
    <3>4. sw[bp] \in [1..2 -> {0, 1, Bkpt}]
      BY <3>2 DEF BreakpointsTypeOK
    <3> QED BY <2>1, <2>3, <3>1, <3>3, <3>4
  <2> QED BY <2>2, <2>3
<1> QED BY <1>1, <1>2 DEF ReadMemory, FilterMemory

\* Transparency follows: it needs no invariant of the manager.
LEMMA ReadsAreTransparent == MemoryInv => TransparentBreakpoints
<1> SUFFICES ASSUME MemoryInv PROVE TransparentBreakpoints
  OBVIOUS
<1>1. BreakpointsTypeOK /\ Clean /\ Originals
  BY DEF MemoryInv
<1>2. ASSUME NEW a \in Addresses \ spoilt PROVE FilterUnaligned8(a) = shadow[a]
  <2>1. a \in Nat /\ a % 1 = 0 /\ a + 1 - 1 = a
    BY WholeHalfwords
  <2>2. ReadMemory(a, 1)[1] = shadow[a + 1 - 1]
    BY <1>1, <2>1, ReadHides
  <2> QED BY <2>1, <2>2 DEF FilterUnaligned8
<1>3. ASSUME NEW a \in Halfwords, {a, a + 1} \cap spoilt = {}
      PROVE  ReadMemory(a, 2) = <<shadow[a], shadow[a + 1]>>
  <2>1. a \in Nat /\ a \in Addresses /\ a + 1 \in Addresses /\ a % 2 = 0
    BY WholeHalfwords DEF Halfwords
  <2>2. a + 1 - 1 = a /\ a + 2 - 1 = a + 1
    BY <2>1
  <2>3. ReadMemory(a, 2)[1] = shadow[a]
    BY <1>1, <1>3, <2>1, <2>2, ReadHides
  <2>4. ReadMemory(a, 2)[2] = shadow[a + 1]
    BY <1>1, <1>3, <2>1, <2>2, ReadHides
  <2>5. ReadMemory(a, 2) \in [1..2 -> {0, 1, Bkpt}]
    BY <1>1, ReadType
  <2> HIDE DEF ReadMemory
  <2> QED BY <2>3, <2>4, <2>5
<1>4. ASSUME NEW a \in Addresses, a % 4 = 0, (a..(a + 3)) \subseteq Addresses \ spoilt
      PROVE  FilterAligned32(a, 1) = <<[k \in 1..4 |-> shadow[a + k - 1]]>>
  <2>1. a \in Nat
    BY WholeHalfwords
  <2>2. \A k \in 1..4 : a + k - 1 \in a..(a + 3)
    BY <2>1
  <2>3. \A k \in 1..4 : ReadMemory(a, 4)[k] = shadow[a + k - 1]
    BY <1>1, <1>4, <2>2, ReadHides
  <2>4. DOMAIN ReadMemory(a, 4) = 1..4
    BY DEF ReadMemory, FilterMemory, Raw
  <2>5. ReadMemory(a, 4) = [k \in 1..4 |-> ReadMemory(a, 4)[k]]
    BY <2>4 DEF ReadMemory, FilterMemory
  <2>6. ReadMemory(a, 4) = [k \in 1..4 |-> shadow[a + k - 1]]
    <3> HIDE DEF ReadMemory
    <3> QED BY <2>3, <2>5
  <2>7. FilterAligned32(a, 1) = [i \in 1..1 |-> FilterMemory(a + i - 1, Raw(a + 4 * (i - 1), 4))]
    BY DEF FilterAligned32
  <2>8. \A i \in 1..1 : a + i - 1 = a /\ a + 4 * (i - 1) = a
    BY <2>1
  <2>9. FilterAligned32(a, 1) = [i \in 1..1 |-> ReadMemory(a, 4)]
    BY <2>7, <2>8, Zenon DEF ReadMemory
  <2> HIDE DEF ReadMemory
  <2> QED BY <2>6, <2>9
<1> QED BY <1>2, <1>3, <1>4 DEF TransparentBreakpoints

-----------------------------------------------------------------------------
\* Sets of comparators are finite.
LEMMA EnabledIsFinite ==
  /\ Comparators \in Nat
  /\ \A S : S \subseteq Index => IsFiniteSet(S) /\ Cardinality(S) \in Nat
<1>1. Comparators \in Nat
  BY BreakpointsAssumption DEF BreakpointsAssumption
<1>2. IsFiniteSet(Index)
  BY <1>1, FS_Interval DEF Index
<1> QED BY <1>1, <1>2, FS_Subset, FS_CardinalityType

-----------------------------------------------------------------------------
\* An error is owed only after an access failed.
LEMMA TroubleType ==
  ASSUME BreakpointsTypeOK, NEW owing \in BOOLEAN, Trouble(owing)
  PROVE  faults' \in 0..MaxFaults /\ owed' \in BOOLEAN /\ (owed' => faults' > 0)
<1>1. MaxFaults \in Nat /\ faults \in 0..MaxFaults /\ (owed => faults > 0)
  BY BreakpointsAssumption DEF BreakpointsTypeOK, BreakpointsAssumption
<1>2. CASE owed
  BY <1>1, <1>2 DEF Trouble
<1>3. CASE ~owed
  BY <1>1, <1>3 DEF Trouble
<1> QED BY <1>2, <1>3

-----------------------------------------------------------------------------
\* A hardware breakpoint takes a free comparator.
LEMMA SetHardwareStep ==
  ASSUME MemoryInv, FPBInv, NEW addr \in Halfwords, NEW type, SetHardware(addr, type)
  PROVE  MemoryInv' /\ FPBInv'
<1>1. /\ CanSet(addr, type) /\ ChooseType(addr, type) = "hw"
      /\ comps' = [comps EXCEPT ![FirstFree] = [enabled |-> TRUE, addr |-> addr]]
      /\ fpcomp' = [fpcomp EXCEPT ![FirstFree] = addr]
      /\ fpb' = [enabled |-> TRUE, used |-> fpb.used + 1]
      /\ mgr' = Entered(mgr, addr, [type |-> "hw", instr |-> <<0, 0>>, comp |-> FirstFree])
      /\ UNCHANGED <<mem, shadow, sw, pending, spoilt, failed, faults, owed>>
  BY DEF SetHardware, TakeComparator
<1>2. BreakpointsTypeOK
  BY DEF MemoryInv
<1>3. PICK free \in Index : free = FirstFree /\ ~comps[free].enabled
  BY <1>1, FirstFreeIs
<1>4. pending = NoPending /\ addr \notin DOMAIN mgr
  BY <1>1 DEF CanSet
<1>5. /\ DOMAIN mgr' = {addr} \cup DOMAIN mgr
      /\ mgr'[addr].type = "hw" /\ mgr'[addr].comp = free
      /\ \A a \in DOMAIN mgr : mgr'[a] = mgr[a]
  <2> DEFINE record == [type |-> "hw", instr |-> <<0, 0>>, comp |-> free]
  <2>1. mgr' = Entered(mgr, addr, record)
    BY <1>1, <1>3
  <2>2. record.type = "hw" /\ record.comp = free
    OBVIOUS
  <2> HIDE DEF record
  <2>3. /\ DOMAIN mgr' = {addr} \cup DOMAIN mgr
        /\ mgr'[addr] = record
        /\ \A a \in DOMAIN mgr : a # addr => mgr'[a] = mgr[a]
    BY <2>1 DEF Entered
  <2> QED BY <1>4, <2>2, <2>3
<1>6. fpb.used + 1 <= Comparators
  BY <1>1, <1>2, HardwareIsAvailable
<1>7. BreakpointsTypeOK'
  <2>1. fpb' \in [enabled : BOOLEAN, used : Int] /\ fpb'.used <= Comparators
    BY <1>1, <1>2, <1>6 DEF BreakpointsTypeOK
  <2>2. /\ comps' \in [Index -> [enabled : BOOLEAN, addr : Halfwords \cup {0}]]
        /\ fpcomp' \in [Index -> Halfwords \cup {NoMatch}]
    BY <1>1, <1>2, <1>3 DEF BreakpointsTypeOK
  <2>3. /\ DOMAIN mgr' \subseteq Halfwords
        /\ \A a \in DOMAIN mgr' :
             \/ mgr'[a].type = "hw" /\ mgr'[a].comp \in Index
             \/ mgr'[a].type = "sw" /\ mgr'[a].instr \in [1..2 -> {0, 1, Bkpt}]
    BY <1>2, <1>3, <1>5 DEF BreakpointsTypeOK
  <2> QED BY <1>1, <1>2, <1>4, <2>1, <2>2, <2>3 DEF BreakpointsTypeOK
<1>8. (Clean /\ Originals)'
  BY <1>1 DEF MemoryInv, Clean, Originals, HasBkpt
<1>9. PendingRight'
  BY <1>1, <1>4 DEF PendingRight
<1>10. SameInstr'
  BY <1>1, <1>5 DEF MemoryInv, SameInstr
<1>11. InPlace'
  BY <1>1, <1>4, <1>5 DEF MemoryInv, InPlace, Orphans
<1>12. Enabled' = Enabled \cup {free} /\ free \notin Enabled
  BY <1>1, <1>2, <1>3 DEF Enabled, BreakpointsTypeOK
<1>13. /\ comps'[free] = [enabled |-> TRUE, addr |-> addr]
       /\ \A i \in Index \ {free} : comps'[i] = comps[i]
       /\ fpcomp'[free] = addr
       /\ \A i \in Index \ {free} : fpcomp'[i] = fpcomp[i]
  BY <1>1, <1>2, <1>3 DEF BreakpointsTypeOK
<1>14. OwnRecords'
  <2> SUFFICES ASSUME ~failed' PROVE OwnRecords'
    BY DEF OwnRecords
  <2>1. OwnRecords /\ ~failed
    BY <1>1 DEF FPBInv
  <2>2. ASSUME NEW a \in DOMAIN mgr', mgr'[a].type = "hw"
        PROVE  comps'[mgr'[a].comp].enabled /\ comps'[mgr'[a].comp].addr = a
    <3>1. CASE a = addr
      BY <1>5, <1>13, <3>1
    <3>2. CASE a # addr
      <4>1. /\ a \in DOMAIN mgr /\ mgr'[a] = mgr[a] /\ mgr[a].type = "hw"
        BY <1>5, <2>2, <3>2
      <4>2. comps[mgr[a].comp].enabled /\ comps[mgr[a].comp].addr = a /\ mgr[a].comp \in Index
        BY <1>2, <2>1, <4>1 DEF OwnRecords, BreakpointsTypeOK
      <4>3. mgr[a].comp # free
        BY <1>3, <4>2
      <4> QED BY <1>13, <4>1, <4>2, <4>3
    <3> QED BY <3>1, <3>2
  <2>3. ASSUME NEW i \in Enabled'
        PROVE  /\ comps'[i].addr \in DOMAIN mgr'
               /\ mgr'[comps'[i].addr].type = "hw" /\ mgr'[comps'[i].addr].comp = i
    <3>1. CASE i = free
      BY <1>5, <1>13, <3>1
    <3>2. CASE i # free
      <4>1. i \in Enabled /\ i \in Index
        BY <1>12, <2>3, <3>2 DEF Enabled
      <4> QED BY <1>5, <1>13, <2>1, <3>2, <4>1 DEF OwnRecords
    <3> QED BY <3>1, <3>2
  <2> QED BY <2>2, <2>3 DEF OwnRecords
<1>15. Armed'
  <2> SUFFICES ASSUME ~failed' PROVE Armed'
    BY DEF Armed
  <2>1. Armed /\ ~failed
    BY <1>1 DEF FPBInv
  <2>2. Cardinality(Enabled') = Cardinality(Enabled) + 1
    BY <1>12, EnabledIsFinite, FS_AddElement DEF Enabled
  <2>3. fpb'.used = Cardinality(Enabled') /\ fpb'.enabled
    BY <1>1, <2>1, <2>2 DEF Armed
  <2>4. \A i \in Index : fpcomp'[i] = IF comps'[i].enabled THEN comps'[i].addr ELSE NoMatch
    BY <1>13, <2>1 DEF Armed
  <2> QED BY <2>3, <2>4 DEF Armed
<1> QED BY <1>7, <1>8, <1>9, <1>10, <1>11, <1>14, <1>15 DEF MemoryInv, FPBInv

\* When the comparator's write raises, only the types are claimed of the FPB.
LEMMA SetHardwareFailsStep ==
  ASSUME MemoryInv, FPBInv, NEW addr \in Halfwords, NEW type, SetHardwareFails(addr, type)
  PROVE  MemoryInv' /\ FPBInv'
<1>1. /\ CanSet(addr, type) /\ ChooseType(addr, type) = "hw"
      /\ Trouble(FALSE)
      /\ comps' \in {comps, [comps EXCEPT ![FirstFree].enabled = TRUE]}
      /\ fpcomp' \in {fpcomp, [fpcomp EXCEPT ![FirstFree] = addr]}
      /\ fpb' \in {fpb, [fpb EXCEPT !.enabled = TRUE]}
      /\ failed' = TRUE
      /\ UNCHANGED <<mem, shadow, sw, mgr, pending, spoilt>>
  BY DEF SetHardwareFails
<1>2. BreakpointsTypeOK
  BY DEF MemoryInv
<1>3. PICK free \in Index : free = FirstFree
  BY <1>1, FirstFreeIs
<1>4. BreakpointsTypeOK'
  <2>1. faults' \in 0..MaxFaults /\ owed' \in BOOLEAN /\ (owed' => faults' > 0)
    BY <1>1, <1>2, TroubleType
  <2>2. comps' \in [Index -> [enabled : BOOLEAN, addr : Halfwords \cup {0}]]
    <3>1. comps' \in {comps, [comps EXCEPT ![free].enabled = TRUE]}
      BY <1>1, <1>3, Zenon
    <3>2. comps \in [Index -> [enabled : BOOLEAN, addr : Halfwords \cup {0}]]
      BY <1>2 DEF BreakpointsTypeOK
    <3> QED BY <3>1, <3>2
  <2>3. fpcomp' \in [Index -> Halfwords \cup {NoMatch}]
    <3>1. fpcomp' \in {fpcomp, [fpcomp EXCEPT ![free] = addr]}
      BY <1>1, <1>3, Zenon
    <3>2. fpcomp \in [Index -> Halfwords \cup {NoMatch}]
      BY <1>2 DEF BreakpointsTypeOK
    <3> QED BY <3>1, <3>2
  <2>4. fpb' \in [enabled : BOOLEAN, used : Int] /\ fpb'.used <= Comparators
    BY <1>1, <1>2 DEF BreakpointsTypeOK
  <2> QED BY <1>1, <1>2, <2>1, <2>2, <2>3, <2>4 DEF BreakpointsTypeOK
<1>5. (Clean /\ Originals /\ PendingRight /\ SameInstr)'
  BY <1>1 DEF MemoryInv, Clean, Originals, PendingRight, SameInstr, HasBkpt
<1>6. InPlace' /\ FPBInv'
  BY <1>1 DEF InPlace, FPBInv, OwnRecords, Armed
<1> QED BY <1>4, <1>5, <1>6 DEF MemoryInv

\* When one of its writes is lost the breakpoint is recorded all the same.
LEMMA SetHardwareLostStep ==
  ASSUME MemoryInv, FPBInv, NEW addr \in Halfwords, NEW type, SetHardwareLost(addr, type)
  PROVE  MemoryInv' /\ FPBInv'
<1>1. /\ CanSet(addr, type) /\ ChooseType(addr, type) = "hw"
      /\ comps' = [comps EXCEPT ![FirstFree] = [enabled |-> TRUE, addr |-> addr]]
      /\ fpcomp' \in {fpcomp, [fpcomp EXCEPT ![FirstFree] = addr]}
      /\ fpb' = [enabled |-> TRUE, used |-> fpb.used + 1]
      /\ mgr' = Entered(mgr, addr, [type |-> "hw", instr |-> <<0, 0>>, comp |-> FirstFree])
      /\ failed' = TRUE /\ Trouble(TRUE)
      /\ UNCHANGED <<mem, shadow, sw, pending, spoilt>>
  BY DEF SetHardwareLost, TakeComparator
<1>2. BreakpointsTypeOK
  BY DEF MemoryInv
<1>3. PICK free \in Index : free = FirstFree
  BY <1>1, FirstFreeIs
<1>4. pending = NoPending /\ addr \notin DOMAIN mgr
  BY <1>1 DEF CanSet
<1>5. /\ DOMAIN mgr' = {addr} \cup DOMAIN mgr
      /\ mgr'[addr].type = "hw" /\ mgr'[addr].comp = free
      /\ \A a \in DOMAIN mgr : mgr'[a] = mgr[a]
  <2> DEFINE record == [type |-> "hw", instr |-> <<0, 0>>, comp |-> free]
  <2>1. mgr' = Entered(mgr, addr, record)
    BY <1>1, <1>3
  <2>2. record.type = "hw" /\ record.comp = free
    OBVIOUS
  <2> HIDE DEF record
  <2>3. /\ DOMAIN mgr' = {addr} \cup DOMAIN mgr
        /\ mgr'[addr] = record
        /\ \A a \in DOMAIN mgr : a # addr => mgr'[a] = mgr[a]
    BY <2>1 DEF Entered
  <2> QED BY <1>4, <2>2, <2>3
<1>6. BreakpointsTypeOK'
  <2>1. fpb.used + 1 <= Comparators
    BY <1>1, <1>2, HardwareIsAvailable
  <2>2. fpb' \in [enabled : BOOLEAN, used : Int] /\ fpb'.used <= Comparators
    BY <1>1, <1>2, <2>1 DEF BreakpointsTypeOK
  <2>3. comps' \in [Index -> [enabled : BOOLEAN, addr : Halfwords \cup {0}]]
    BY <1>1, <1>2, <1>3 DEF BreakpointsTypeOK
  <2>4. fpcomp' \in [Index -> Halfwords \cup {NoMatch}]
    <3>1. fpcomp' \in {fpcomp, [fpcomp EXCEPT ![free] = addr]}
      BY <1>1, <1>3, Zenon
    <3>2. fpcomp \in [Index -> Halfwords \cup {NoMatch}]
      BY <1>2 DEF BreakpointsTypeOK
    <3> QED BY <3>1, <3>2
  <2>5. /\ DOMAIN mgr' \subseteq Halfwords
        /\ \A a \in DOMAIN mgr' :
             \/ mgr'[a].type = "hw" /\ mgr'[a].comp \in Index
             \/ mgr'[a].type = "sw" /\ mgr'[a].instr \in [1..2 -> {0, 1, Bkpt}]
    BY <1>2, <1>3, <1>5 DEF BreakpointsTypeOK
  <2>6. faults' \in 0..MaxFaults /\ owed' \in BOOLEAN /\ (owed' => faults' > 0)
    BY <1>1, <1>2, TroubleType
  <2> QED BY <1>1, <1>2, <1>4, <2>2, <2>3, <2>4, <2>5, <2>6 DEF BreakpointsTypeOK
<1>7. (Clean /\ Originals)'
  BY <1>1 DEF MemoryInv, Clean, Originals, HasBkpt
<1>8. PendingRight' /\ SameInstr'
  BY <1>1, <1>4, <1>5 DEF MemoryInv, PendingRight, SameInstr
<1>9. InPlace' /\ FPBInv'
  BY <1>1 DEF InPlace, FPBInv, OwnRecords, Armed
<1> QED BY <1>6, <1>7, <1>8, <1>9 DEF MemoryInv

\* What is read for a new software breakpoint is the original instruction, even
\* where a breakpoint whose removal failed is still there.
LEMMA ReadInstructionStep ==
  ASSUME MemoryInv, FPBInv, NEW addr \in Halfwords, NEW type, ReadInstruction(addr, type)
  PROVE  MemoryInv' /\ FPBInv'
<1>1. /\ CanSet(addr, type)
      /\ pending' = [addr |-> addr, instr |-> ReadMemory(addr, 2)]
      /\ UNCHANGED <<mem, shadow, sw, mgr, comps, fpcomp, fpb, spoilt, failed, faults, owed>>
  BY DEF ReadInstruction
<1>2. BreakpointsTypeOK /\ Clean /\ Originals
  BY DEF MemoryInv
<1>3. pending'.addr = addr /\ pending'.instr = ReadMemory(addr, 2) /\ addr \notin DOMAIN mgr
  BY <1>1 DEF CanSet
<1>4. BreakpointsTypeOK'
  <2>1. ReadMemory(addr, 2) \in [1..2 -> {0, 1, Bkpt}]
    BY <1>2, ReadType
  <2> QED BY <1>1, <1>2, <1>3, <2>1 DEF BreakpointsTypeOK
<1>5. ASSUME NEW b \in {addr, addr + 1} \ spoilt
      PROVE  ReadMemory(addr, 2)[b - addr + 1] = shadow[b]
  <2>1. addr \in Nat /\ addr \in Addresses /\ addr + 1 \in Addresses /\ addr % 2 = 0
    BY WholeHalfwords DEF Halfwords
  <2>2. b - addr + 1 \in 1..2 /\ addr + (b - addr + 1) - 1 = b /\ b \in Addresses
    BY <2>1
  <2>3. addr + (b - addr + 1) - 1 \in Addresses \ spoilt
    BY <2>2
  <2> QED BY <1>2, <2>1, <2>2, <2>3, ReadHides
<1>6. PendingRight'
  BY <1>1, <1>3, <1>5 DEF PendingRight
<1>7. (Clean /\ Originals /\ SameInstr /\ InPlace)'
  BY <1>1 DEF MemoryInv, Clean, Originals, SameInstr, InPlace, HasBkpt, Orphans
<1>8. FPBInv'
  BY <1>1 DEF FPBInv, OwnRecords, Armed, Enabled
<1> QED BY <1>4, <1>6, <1>7, <1>8 DEF MemoryInv

\* BKPT goes into memory, the instruction to the lists.
LEMMA SetSoftwareStep ==
  ASSUME MemoryInv, FPBInv, SetSoftware
  PROVE  MemoryInv' /\ FPBInv'
<1> DEFINE addr == pending.addr
<1>1. /\ pending # NoPending
      /\ mem' = InsertBkpt(addr)
      /\ sw' = Entered(sw, addr, pending.instr)
      /\ mgr' = Entered(mgr, addr, [type |-> "sw", instr |-> pending.instr, comp |-> 0])
      /\ pending' = NoPending
      /\ UNCHANGED <<shadow, comps, fpcomp, fpb, spoilt, failed, faults, owed>>
  BY DEF SetSoftware, RecordSoftware
<1>2. BreakpointsTypeOK
  BY DEF MemoryInv
<1>3. /\ addr \in Halfwords /\ pending.instr \in [1..2 -> {0, 1, Bkpt}]
      /\ addr \notin DOMAIN mgr
  BY <1>1, <1>2 DEF BreakpointsTypeOK, MemoryInv, PendingRight
<1>4. addr \in Nat /\ addr \in Addresses /\ addr + 1 \in Addresses
  BY <1>3, WholeHalfwords
<1>5. /\ DOMAIN sw' = {addr} \cup DOMAIN sw /\ sw'[addr] = pending.instr
      /\ \A a \in DOMAIN sw : a # addr => sw'[a] = sw[a]
  BY <1>1 DEF Entered
<1>6. /\ DOMAIN mgr' = {addr} \cup DOMAIN mgr
      /\ mgr'[addr] = [type |-> "sw", instr |-> pending.instr, comp |-> 0]
      /\ \A a \in DOMAIN mgr : mgr'[a] = mgr[a]
  BY <1>1, <1>3 DEF Entered
<1>7. mgr'[addr].type = "sw" /\ mgr'[addr].instr = pending.instr
  BY <1>6
<1>8. /\ mem' \in [Addresses -> {0, 1, Bkpt}]
      /\ \A b \in Addresses : mem'[b] = IF b \in {addr, addr + 1} THEN Bkpt ELSE mem[b]
  BY <1>1, <1>2, <1>4 DEF InsertBkpt, BreakpointsTypeOK
<1> HIDE DEF addr
<1>9. BreakpointsTypeOK'
  BY <1>1, <1>2, <1>3, <1>5, <1>6, <1>7, <1>8 DEF BreakpointsTypeOK
<1>10. Clean'
  <2> SUFFICES ASSUME NEW b \in Addresses \ spoilt, ~HasBkpt(b)' PROVE mem'[b] = shadow[b]
    BY <1>1 DEF Clean
  <2>1. b \notin {addr, addr + 1} /\ ~HasBkpt(b)
    BY <1>5 DEF HasBkpt, Covers
  <2> QED BY <1>8, <2>1 DEF MemoryInv, Clean
<1>11. Originals'
  <2> SUFFICES ASSUME NEW a \in DOMAIN sw', NEW b \in {a, a + 1} \ spoilt
               PROVE  sw'[a][b - a + 1] = shadow[b]
    BY <1>1 DEF Originals
  <2>1. CASE a = addr
    BY <1>1, <1>5, <2>1 DEF MemoryInv, PendingRight, addr
  <2>2. CASE a # addr
    BY <1>5, <2>2 DEF MemoryInv, Originals
  <2> QED BY <2>1, <2>2
<1>12. PendingRight'
  BY <1>1 DEF PendingRight
<1>13. SameInstr'
  BY <1>3, <1>5, <1>6, <1>7 DEF MemoryInv, SameInstr
<1>14. InPlace'
  <2> SUFFICES ASSUME ~failed' PROVE InPlace'
    BY DEF InPlace
  <2>1. InPlace /\ ~failed
    BY <1>1 DEF MemoryInv
  <2>2. Orphans' = {}
    BY <1>5, <1>6, <2>1 DEF Orphans, InPlace
  <2>3. ASSUME NEW a \in DOMAIN sw'
        PROVE  /\ a \in DOMAIN mgr' /\ mgr'[a].type = "sw"
               /\ \A b \in {a, a + 1} \ spoilt' : mem'[b] = Bkpt
    <3>1. CASE a = addr
      BY <1>4, <1>6, <1>7, <1>8, <3>1
    <3>2. CASE a # addr
      <4>1. a \in DOMAIN sw /\ a \in DOMAIN mgr /\ mgr[a].type = "sw"
        BY <1>5, <2>1, <3>2 DEF InPlace
      <4>2. a \in Addresses /\ a + 1 \in Addresses
        BY <1>2, <4>1, WholeHalfwords DEF BreakpointsTypeOK
      <4>3. \A b \in {a, a + 1} \ spoilt : mem[b] = Bkpt
        BY <2>1, <4>1 DEF InPlace
      <4>4. \A b \in {a, a + 1} \ spoilt : mem'[b] = Bkpt
        BY <1>8, <4>2, <4>3
      <4> QED BY <1>1, <1>6, <4>1, <4>4
    <3> QED BY <3>1, <3>2
  <2> QED BY <2>2, <2>3 DEF InPlace
<1>15. OwnRecords'
  <2> SUFFICES ASSUME ~failed' PROVE OwnRecords'
    BY DEF OwnRecords
  <2>1. OwnRecords /\ ~failed
    BY <1>1 DEF FPBInv
  <2>2. Enabled' = Enabled
    BY <1>1 DEF Enabled
  <2>3. \A a \in DOMAIN mgr' : mgr'[a].type = "hw" => a \in DOMAIN mgr /\ mgr'[a] = mgr[a]
    BY <1>6, <1>7
  <2> QED BY <1>1, <1>6, <2>1, <2>2, <2>3 DEF OwnRecords
<1>16. Armed'
  BY <1>1 DEF FPBInv, Armed, Enabled
<1> QED BY <1>9, <1>10, <1>11, <1>12, <1>13, <1>14, <1>15, <1>16 DEF MemoryInv, FPBInv

\* When BKPT is lost, the lists have a breakpoint that memory has not.
LEMMA SetSoftwareLostStep ==
  ASSUME MemoryInv, FPBInv, SetSoftwareLost
  PROVE  MemoryInv' /\ FPBInv'
<1> DEFINE addr == pending.addr
<1>1. /\ pending # NoPending
      /\ sw' = Entered(sw, addr, pending.instr)
      /\ mgr' = Entered(mgr, addr, [type |-> "sw", instr |-> pending.instr, comp |-> 0])
      /\ pending' = NoPending /\ failed' = TRUE /\ Trouble(TRUE)
      /\ UNCHANGED <<mem, shadow, comps, fpcomp, fpb, spoilt>>
  BY DEF SetSoftwareLost, RecordSoftware
<1>2. BreakpointsTypeOK
  BY DEF MemoryInv
<1>3. /\ addr \in Halfwords /\ pending.instr \in [1..2 -> {0, 1, Bkpt}]
      /\ addr \notin DOMAIN mgr
  BY <1>1, <1>2 DEF BreakpointsTypeOK, MemoryInv, PendingRight
<1>4. /\ DOMAIN sw' = {addr} \cup DOMAIN sw /\ sw'[addr] = pending.instr
      /\ \A a \in DOMAIN sw : a # addr => sw'[a] = sw[a]
  BY <1>1 DEF Entered
<1>5. /\ DOMAIN mgr' = {addr} \cup DOMAIN mgr
      /\ mgr'[addr] = [type |-> "sw", instr |-> pending.instr, comp |-> 0]
      /\ \A a \in DOMAIN mgr : mgr'[a] = mgr[a]
  BY <1>1, <1>3 DEF Entered
<1>6. mgr'[addr].type = "sw" /\ mgr'[addr].instr = pending.instr
  BY <1>5
<1> HIDE DEF addr
<1>7. BreakpointsTypeOK'
  <2>1. faults' \in 0..MaxFaults /\ owed' \in BOOLEAN /\ (owed' => faults' > 0)
    BY <1>1, <1>2, TroubleType
  <2> QED BY <1>1, <1>2, <1>3, <1>4, <1>5, <1>6, <2>1 DEF BreakpointsTypeOK
<1>8. Clean'
  BY <1>1, <1>4 DEF MemoryInv, Clean, HasBkpt
<1>9. Originals'
  <2> SUFFICES ASSUME NEW a \in DOMAIN sw', NEW b \in {a, a + 1} \ spoilt
               PROVE  sw'[a][b - a + 1] = shadow[b]
    BY <1>1 DEF Originals
  <2>1. CASE a = addr
    BY <1>1, <1>4, <2>1 DEF MemoryInv, PendingRight, addr
  <2>2. CASE a # addr
    BY <1>4, <2>2 DEF MemoryInv, Originals
  <2> QED BY <2>1, <2>2
<1>10. PendingRight'
  BY <1>1 DEF PendingRight
<1>11. SameInstr'
  BY <1>3, <1>4, <1>5, <1>6 DEF MemoryInv, SameInstr
<1>12. InPlace' /\ FPBInv'
  BY <1>1 DEF InPlace, FPBInv, OwnRecords, Armed
<1> QED BY <1>7, <1>8, <1>9, <1>10, <1>11, <1>12 DEF MemoryInv

\* When the write of BKPT raises, what it covers is spoilt.
LEMMA SetSoftwareFailsStep ==
  ASSUME MemoryInv, FPBInv, SetSoftwareFails
  PROVE  MemoryInv' /\ FPBInv'
<1> DEFINE addr == pending.addr
<1>1. /\ pending # NoPending
      /\ Trouble(FALSE)
      /\ mem' \in {mem, InsertBkpt(addr)}
      /\ spoilt' = spoilt \cup {addr, addr + 1}
      /\ pending' = NoPending
      /\ UNCHANGED <<shadow, sw, mgr, comps, fpcomp, fpb, failed>>
  BY DEF SetSoftwareFails
<1>2. BreakpointsTypeOK
  BY DEF MemoryInv
<1>3. addr \in Halfwords
  BY <1>1, <1>2 DEF BreakpointsTypeOK
<1>4. addr \in Nat /\ addr \in Addresses /\ addr + 1 \in Addresses
  BY <1>3, WholeHalfwords
<1>5. /\ mem' \in [Addresses -> {0, 1, Bkpt}]
      /\ \A b \in Addresses \ spoilt' : mem'[b] = mem[b]
  BY <1>1, <1>2, <1>4 DEF InsertBkpt, BreakpointsTypeOK
<1> HIDE DEF addr
<1>6. BreakpointsTypeOK'
  <2>1. faults' \in 0..MaxFaults /\ owed' \in BOOLEAN /\ (owed' => faults' > 0)
    BY <1>1, <1>2, TroubleType
  <2>2. spoilt' \subseteq Addresses
    BY <1>1, <1>2, <1>4 DEF BreakpointsTypeOK
  <2> QED BY <1>1, <1>2, <1>5, <2>1, <2>2 DEF BreakpointsTypeOK
<1>7. (Clean /\ Originals /\ PendingRight /\ SameInstr)'
  <2>1. Clean'
    BY <1>1, <1>5 DEF MemoryInv, Clean, HasBkpt
  <2>2. Originals'
    BY <1>1 DEF MemoryInv, Originals
  <2>3. PendingRight' /\ SameInstr'
    BY <1>1 DEF MemoryInv, PendingRight, SameInstr
  <2> QED BY <2>1, <2>2, <2>3
<1>8. InPlace'
  <2> SUFFICES ASSUME ~failed' PROVE InPlace'
    BY DEF InPlace
  <2>1. InPlace /\ ~failed
    BY <1>1 DEF MemoryInv
  <2>2. \A a \in DOMAIN sw : a \in Addresses /\ a + 1 \in Addresses
    BY <1>2, WholeHalfwords DEF BreakpointsTypeOK
  <2>3. \A a \in DOMAIN sw : \A b \in {a, a + 1} \ spoilt' : mem'[b] = Bkpt
    BY <1>1, <1>5, <2>1, <2>2 DEF InPlace
  <2> QED BY <1>1, <2>1, <2>3 DEF InPlace, Orphans
<1>9. FPBInv'
  BY <1>1 DEF FPBInv, OwnRecords, Armed, Enabled
<1> QED BY <1>6, <1>7, <1>8, <1>9 DEF MemoryInv

\* A write by the debugger or by the program: what it puts under a breakpoint
\* is spoilt, and everything else it writes is right again.
LEMMA WrittenStep ==
  ASSUME MemoryInv, FPBInv, NEW addrs, addrs \subseteq Addresses,
         NEW value \in [addrs -> {0, 1}], Written(addrs, value),
         faults' \in 0..MaxFaults, owed' \in BOOLEAN, owed' => faults' > 0
  PROVE  MemoryInv' /\ FPBInv'
<1> DEFINE covered == {a \in addrs : HasBkpt(a) \/ (pending # NoPending /\ Covers(pending.addr, a))}
<1>1. /\ mem' = [a \in Addresses |-> IF a \in addrs THEN value[a] ELSE mem[a]]
      /\ shadow' = [a \in Addresses |-> IF a \in addrs THEN value[a] ELSE shadow[a]]
      /\ spoilt' = (spoilt \ addrs) \cup covered
      /\ UNCHANGED <<sw, mgr, comps, fpcomp, fpb, pending, failed>>
  BY DEF Written
<1>2. BreakpointsTypeOK
  BY DEF MemoryInv
<1>3. BreakpointsTypeOK'
  <2>1. mem' \in [Addresses -> {0, 1, Bkpt}] /\ shadow' \in [Addresses -> {0, 1}]
    BY <1>1, <1>2 DEF BreakpointsTypeOK
  <2>2. spoilt' \subseteq Addresses
    BY <1>1, <1>2 DEF BreakpointsTypeOK
  <2> QED BY <1>1, <1>2, <2>1, <2>2 DEF BreakpointsTypeOK
<1>4. Clean'
  <2> SUFFICES ASSUME NEW b \in Addresses \ spoilt', ~HasBkpt(b) PROVE mem'[b] = shadow'[b]
    BY <1>1 DEF Clean, HasBkpt
  <2>1. CASE b \in addrs
    BY <1>1, <2>1
  <2>2. CASE b \notin addrs
    BY <1>1, <2>2 DEF MemoryInv, Clean
  <2> QED BY <2>1, <2>2
<1>5. ASSUME NEW b \in Addresses \ spoilt',
             HasBkpt(b) \/ (pending # NoPending /\ Covers(pending.addr, b))
      PROVE  b \notin spoilt /\ b \notin addrs /\ shadow'[b] = shadow[b] /\ mem'[b] = mem[b]
  <2>1. b \notin covered
    BY <1>1
  <2>2. b \notin addrs
    BY <1>5, <2>1
  <2> QED BY <1>1, <2>2
<1>6. \A a \in DOMAIN sw : \A b \in {a, a + 1} : b \in Addresses /\ HasBkpt(b)
  <2> SUFFICES ASSUME NEW a \in DOMAIN sw, NEW b \in {a, a + 1}
               PROVE  b \in Addresses /\ HasBkpt(b)
    OBVIOUS
  <2>1. a \in Halfwords
    BY <1>2 DEF BreakpointsTypeOK
  <2> QED BY <2>1, WholeHalfwords DEF HasBkpt, Covers
<1>7. Originals'
  <2> SUFFICES ASSUME NEW a \in DOMAIN sw, NEW b \in {a, a + 1} \ spoilt'
               PROVE  sw[a][b - a + 1] = shadow'[b]
    BY <1>1 DEF Originals
  <2>1. b \notin spoilt /\ shadow'[b] = shadow[b]
    BY <1>5, <1>6
  <2> QED BY <2>1 DEF MemoryInv, Originals
<1>8. PendingRight'
  <2> SUFFICES ASSUME pending # NoPending, NEW b \in {pending.addr, pending.addr + 1} \ spoilt'
               PROVE  pending.instr[b - pending.addr + 1] = shadow'[b]
    BY <1>1 DEF MemoryInv, PendingRight
  <2>1. b \in Addresses /\ Covers(pending.addr, b)
    BY <1>2, WholeHalfwords DEF BreakpointsTypeOK, Covers
  <2>2. b \notin spoilt /\ shadow'[b] = shadow[b]
    BY <1>5, <2>1
  <2> QED BY <2>2 DEF MemoryInv, PendingRight
<1>9. SameInstr'
  BY <1>1 DEF MemoryInv, SameInstr
<1>10. InPlace'
  <2> SUFFICES ASSUME ~failed, NEW a \in DOMAIN sw, NEW b \in {a, a + 1} \ spoilt'
               PROVE  mem'[b] = Bkpt
    BY <1>1 DEF MemoryInv, InPlace, Orphans
  <2>1. b \notin spoilt /\ mem'[b] = mem[b]
    BY <1>5, <1>6
  <2> QED BY <2>1 DEF MemoryInv, InPlace
<1>11. FPBInv'
  BY <1>1 DEF FPBInv, OwnRecords, Armed, Enabled
<1> QED BY <1>3, <1>4, <1>7, <1>8, <1>9, <1>10, <1>11 DEF MemoryInv

-----------------------------------------------------------------------------
\* Restoring instructions: those that the provider kept are the original ones,
\* and those of orphans, and those that are lost, are spoilt.
LEMMA RestoringStep ==
  ASSUME MemoryInv, pending = NoPending, NEW addrs, addrs \subseteq DOMAIN mgr,
         NEW restored, restored \subseteq Restored(addrs),
         mem' = Reinstated(restored),
         sw' = Restrict(sw, DOMAIN sw \ Restored(addrs)),
         spoilt' = spoilt \cup Bytes(addrs \cap Orphans) \cup Bytes(Restored(addrs) \ restored),
         DOMAIN mgr' \subseteq DOMAIN mgr, \A a \in DOMAIN mgr' : mgr'[a] = mgr[a],
         UNCHANGED <<shadow, pending>>
  PROVE  /\ mem' \in [Addresses -> {0, 1, Bkpt}]
         /\ DOMAIN sw' = DOMAIN sw \ Restored(addrs)
         /\ \A a \in DOMAIN sw' : sw'[a] = sw[a]
         /\ spoilt' \subseteq Addresses
         /\ \A a \in Addresses \ Bytes(Restored(addrs)) : mem'[a] = mem[a]
         /\ (Clean /\ Originals /\ PendingRight /\ SameInstr)'
<1>1. BreakpointsTypeOK
  BY DEF MemoryInv
<1>2. /\ DOMAIN sw' = DOMAIN sw \ Restored(addrs)
      /\ \A a \in DOMAIN sw' : sw'[a] = sw[a]
  BY DEF Restrict
<1>3. Restored(addrs) \subseteq DOMAIN mgr /\ \A a \in Restored(addrs) : mgr[a].type = "sw"
  BY DEF Restored
<1>4. /\ mem' \in [Addresses -> {0, 1, Bkpt}]
      /\ \A a \in restored : \A b \in {a, a + 1} :
           b \in Addresses /\ mem'[b] = mgr[a].instr[b - a + 1]
      /\ \A b \in Addresses \ Bytes(restored) : mem'[b] = mem[b]
  BY <1>1, <1>3, ReinstatedIs
<1>10. \A b \in Addresses \ Bytes(Restored(addrs)) : mem'[b] = mem[b]
  BY <1>4 DEF Bytes
<1>5. spoilt' \subseteq Addresses
  BY <1>1 DEF BreakpointsTypeOK, Bytes
<1>6. Clean'
  <2> SUFFICES ASSUME NEW b \in Addresses \ spoilt', ~HasBkpt(b)' PROVE mem'[b] = shadow[b]
    BY DEF Clean
  <2>1. /\ b \in Addresses \ spoilt /\ b \notin Bytes(addrs \cap Orphans)
        /\ b \notin Bytes(Restored(addrs) \ restored)
    OBVIOUS
  <2>2. CASE b \in Bytes(restored)
    <3>1. PICK a \in restored : Covers(a, b)
      BY <2>2 DEF Bytes
    <3>2. a \in addrs /\ a \notin Orphans
      BY <2>1, <3>1 DEF Bytes, Restored
    <3>3. a \in DOMAIN mgr /\ a \in DOMAIN sw /\ mgr[a].type = "sw"
      BY <1>3, <3>1, <3>2 DEF Orphans
    <3>4. mgr[a].instr = sw[a]
      BY <3>3 DEF MemoryInv, SameInstr
    <3>5. b \in {a, a + 1} \ spoilt
      BY <2>1, <3>1 DEF Covers
    <3>6. sw[a][b - a + 1] = shadow[b]
      BY <3>3, <3>5 DEF MemoryInv, Originals
    <3> QED BY <1>4, <3>1, <3>4, <3>5, <3>6
  <2>3. CASE b \notin Bytes(restored)
    <3>1. ~HasBkpt(b)
      <4> SUFFICES ASSUME NEW c \in DOMAIN sw, Covers(c, b) PROVE FALSE
        BY DEF HasBkpt
      <4>1. c \in DOMAIN sw'
        BY <1>2, <2>1, <2>3 DEF Bytes
      <4> QED BY <4>1 DEF HasBkpt
    <3> QED BY <1>4, <2>1, <2>3, <3>1 DEF MemoryInv, Clean
  <2> QED BY <2>2, <2>3
<1>7. Originals'
  <2> SUFFICES \A a \in DOMAIN sw' : \A b \in {a, a + 1} \ spoilt' : sw'[a][b - a + 1] = shadow'[b]
    BY DEF Originals
  <2> TAKE a \in DOMAIN sw'
  <2> TAKE b \in {a, a + 1} \ spoilt'
  <2>1. a \in DOMAIN sw /\ sw'[a] = sw[a] /\ b \in {a, a + 1} \ spoilt /\ shadow'[b] = shadow[b]
    BY <1>2
  <2>2. sw[a][b - a + 1] = shadow[b]
    BY <2>1 DEF MemoryInv, Originals
  <2> QED BY <2>1, <2>2
<1>8. PendingRight'
  BY DEF PendingRight
<1>9. SameInstr'
  BY <1>2 DEF MemoryInv, SameInstr
<1> QED BY <1>2, <1>4, <1>5, <1>6, <1>7, <1>8, <1>9, <1>10

\* What freeing does to the types of the FPB's state.
LEMMA FreedIsOfIndex ==
  ASSUME NEW addrs
  PROVE  Freed(addrs) \subseteq Index
<1> SUFFICES ASSUME NEW a \in addrs, Matching(RecordAddr(a)) # {}
             PROVE  FirstMatching(RecordAddr(a)) \in Index
  BY DEF Freed
<1>1. FirstMatching(RecordAddr(a)) \in Matching(RecordAddr(a))
  BY FirstMatchingIs
<1> QED BY <1>1 DEF Matching

LEMMA FreeingTypes ==
  ASSUME BreakpointsTypeOK, NEW freed, freed \subseteq Index
  PROVE  /\ Disabled(freed) \in [Index -> [enabled : BOOLEAN, addr : Halfwords \cup {0}]]
         /\ \A i \in Index :
              /\ Disabled(freed)[i].enabled <=> (comps[i].enabled /\ i \notin freed)
              /\ Disabled(freed)[i].addr = comps[i].addr
         /\ Cleared(freed) \in [Index -> Halfwords \cup {NoMatch}]
         /\ \A i \in Index : Cleared(freed)[i] = IF i \in freed THEN NoMatch ELSE fpcomp[i]
         /\ LET fpbNow == [fpb EXCEPT !.used = @ - Cardinality(freed)]
            IN /\ fpbNow \in [enabled : BOOLEAN, used : Int] /\ fpbNow.used <= fpb.used
               /\ fpbNow.used <= Comparators
               /\ fpbNow.used = fpb.used - Cardinality(freed)
               /\ fpbNow.enabled = fpb.enabled
<1>1. \A i \in Index : comps[i] \in [enabled : BOOLEAN, addr : Halfwords \cup {0}]
  BY DEF BreakpointsTypeOK
<1>2. \A i \in Index : /\ [comps[i] EXCEPT !.enabled = FALSE] \in
                             [enabled : BOOLEAN, addr : Halfwords \cup {0}]
                       /\ ~[comps[i] EXCEPT !.enabled = FALSE].enabled
                       /\ [comps[i] EXCEPT !.enabled = FALSE].addr = comps[i].addr
  BY <1>1
<1>3. Disabled(freed) \in [Index -> [enabled : BOOLEAN, addr : Halfwords \cup {0}]]
  BY <1>1, <1>2 DEF Disabled
<1>4. \A i \in Index :
        /\ Disabled(freed)[i].enabled <=> (comps[i].enabled /\ i \notin freed)
        /\ Disabled(freed)[i].addr = comps[i].addr
  BY <1>1, <1>2 DEF Disabled
<1>5. /\ Cleared(freed) \in [Index -> Halfwords \cup {NoMatch}]
      /\ \A i \in Index : Cleared(freed)[i] = IF i \in freed THEN NoMatch ELSE fpcomp[i]
  BY DEF Cleared, BreakpointsTypeOK
<1>6. Cardinality(freed) \in Nat /\ Comparators \in Nat
  BY EnabledIsFinite
<1>7. fpb \in [enabled : BOOLEAN, used : Int] /\ fpb.used <= Comparators
  BY DEF BreakpointsTypeOK
<1> QED BY <1>3, <1>4, <1>5, <1>6, <1>7

\* Until a failure, what is freed is what the manager's breakpoints hold.
LEMMA FreedIs ==
  ASSUME BreakpointsTypeOK, OwnRecords, ~failed, NEW addrs, addrs \subseteq DOMAIN mgr
  PROVE  Freed(addrs) = {i \in Enabled : comps[i].addr \in addrs}
<1>1. ASSUME NEW a \in addrs, mgr[a].type = "hw"
      PROVE  /\ RecordAddr(a) = a /\ mgr[a].comp \in Enabled /\ comps[mgr[a].comp].addr = a
             /\ Matching(a) = {mgr[a].comp} /\ FirstMatching(a) = mgr[a].comp
  <2>1. /\ mgr[a].comp \in Index
        /\ comps[mgr[a].comp].enabled /\ comps[mgr[a].comp].addr = a
    BY <1>1 DEF BreakpointsTypeOK, OwnRecords
  <2>2. Matching(a) = {mgr[a].comp}
    BY <2>1 DEF Matching, OwnRecords, Enabled
  <2>3. FirstMatching(a) \in Matching(a)
    BY <2>2, FirstMatchingIs
  <2> QED BY <2>1, <2>2, <2>3 DEF RecordAddr, Enabled
<1>2. ASSUME NEW i \in Freed(addrs) PROVE i \in Enabled /\ comps[i].addr \in addrs
  <2>1. PICK a \in addrs : mgr[a].type = "hw" /\ i = FirstMatching(RecordAddr(a))
    BY DEF Freed
  <2> QED BY <1>1, <2>1
<1>3. ASSUME NEW i \in Enabled, comps[i].addr \in addrs PROVE i \in Freed(addrs)
  <2>1. /\ mgr[comps[i].addr].type = "hw" /\ mgr[comps[i].addr].comp = i
    BY DEF OwnRecords
  <2>2. /\ RecordAddr(comps[i].addr) = comps[i].addr
        /\ Matching(comps[i].addr) = {i} /\ FirstMatching(comps[i].addr) = i
    BY <1>1, <1>3, <2>1
  <2> QED BY <1>3, <2>1, <2>2 DEF Freed
<1> QED BY <1>2, <1>3

\* Removing them frees exactly their comparators.
LEMMA FreeingStep ==
  ASSUME BreakpointsTypeOK, FPBInv, ~failed, NEW addrs, addrs \subseteq DOMAIN mgr,
         comps' = Disabled(Freed(addrs)), fpcomp' = Cleared(Freed(addrs)),
         fpb' = [fpb EXCEPT !.used = @ - Cardinality(Freed(addrs))],
         DOMAIN mgr' = DOMAIN mgr \ addrs, \A a \in DOMAIN mgr' : mgr'[a] = mgr[a],
         UNCHANGED failed
  PROVE  FPBInv'
<1> DEFINE freed == Freed(addrs)
<1>1. freed = {i \in Enabled : comps[i].addr \in addrs} /\ freed \subseteq Index
  BY FreedIs, FreedIsOfIndex DEF FPBInv
<1>2. /\ \A i \in Index : /\ comps'[i].enabled <=> (comps[i].enabled /\ i \notin freed)
                          /\ comps'[i].addr = comps[i].addr
                          /\ fpcomp'[i] = IF i \in freed THEN NoMatch ELSE fpcomp[i]
      /\ fpb'.used <= fpb.used /\ fpb'.used = fpb.used - Cardinality(freed)
      /\ fpb'.enabled = fpb.enabled
      /\ fpb'.used \in Int /\ fpb.used \in Int
  <2>1. fpb.used \in Int
    BY DEF BreakpointsTypeOK
  <2>2. \A i \in Index :
          /\ comps'[i].enabled <=> (comps[i].enabled /\ i \notin freed)
          /\ comps'[i].addr = comps[i].addr
    BY <1>1, FreeingTypes
  <2>3. \A i \in Index : fpcomp'[i] = IF i \in freed THEN NoMatch ELSE fpcomp[i]
    BY <1>1, FreeingTypes
  <2>4. /\ fpb' \in [enabled : BOOLEAN, used : Int] /\ fpb'.used <= fpb.used
        /\ fpb'.used = fpb.used - Cardinality(freed)
        /\ fpb'.enabled = fpb.enabled
    BY <1>1, FreeingTypes
  <2> QED BY <2>1, <2>2, <2>3, <2>4
<1> HIDE DEF freed
<1>3. Enabled' = Enabled \ freed
  BY <1>2 DEF Enabled
<1>4. OwnRecords'
  <2>1. ASSUME NEW a \in DOMAIN mgr', mgr'[a].type = "hw"
        PROVE  comps'[mgr'[a].comp].enabled /\ comps'[mgr'[a].comp].addr = a
    <3>1. a \in DOMAIN mgr /\ a \notin addrs /\ mgr[a].type = "hw" /\ mgr'[a] = mgr[a]
      BY <2>1
    <3>2. PICK i \in Index : i = mgr[a].comp /\ comps[i].enabled /\ comps[i].addr = a
      BY <3>1 DEF FPBInv, OwnRecords, BreakpointsTypeOK
    <3>3. i \notin freed
      BY <1>1, <3>1, <3>2
    <3>4. comps'[i].enabled /\ comps'[i].addr = a
      BY <1>2, <3>2, <3>3
    <3> QED BY <3>1, <3>2, <3>4
  <2>2. ASSUME NEW i \in Enabled'
        PROVE  /\ comps'[i].addr \in DOMAIN mgr'
               /\ mgr'[comps'[i].addr].type = "hw" /\ mgr'[comps'[i].addr].comp = i
    <3>1. i \in Enabled /\ i \notin freed /\ comps'[i].addr = comps[i].addr
      BY <1>2, <1>3, <2>2 DEF Enabled
    <3>2. comps[i].addr \notin addrs
      BY <1>1, <3>1
    <3> QED BY <3>1, <3>2 DEF FPBInv, OwnRecords
  <2> QED BY <2>1, <2>2 DEF OwnRecords
<1>5. Armed'
  <2>1. /\ IsFiniteSet(Enabled) /\ Cardinality(Enabled) \in Nat
        /\ Cardinality(freed) \in Nat /\ Enabled \cap freed = freed
    <3>1. Enabled \subseteq Index
      BY DEF Enabled
    <3>2. Enabled \cap freed = freed
      BY <1>1
    <3> QED BY <1>1, <3>1, <3>2, EnabledIsFinite
  <2>2. Cardinality(Enabled') = Cardinality(Enabled) - Cardinality(freed)
    <3>1. Cardinality(Enabled \ freed) = Cardinality(Enabled) - Cardinality(Enabled \cap freed)
      BY <2>1, FS_Difference, Zenon
    <3> QED BY <1>3, <2>1, <3>1
  <2>3. fpb'.used = Cardinality(Enabled')
    BY <1>2, <2>2 DEF FPBInv, Armed
  <2>4. \A i \in Index : fpcomp'[i] = IF comps'[i].enabled THEN comps'[i].addr ELSE NoMatch
    BY <1>1, <1>2 DEF FPBInv, Armed, Enabled
  <2>5. fpb'.used > 0 => fpb'.enabled
    BY <1>2 DEF FPBInv, Armed
  <2> QED BY <2>3, <2>4, <2>5 DEF Armed
<1> QED BY <1>4, <1>5 DEF FPBInv

\* Removing breakpoints, whatever the manager forgets of them and whichever
\* writes are lost.
LEMMA RemovedKeeps ==
  ASSUME MemoryInv, pending = NoPending, NEW addrs, addrs \subseteq DOMAIN mgr,
         NEW cleared, cleared \subseteq Freed(addrs),
         NEW restored, restored \subseteq Restored(addrs),
         RemovedButFor(addrs, cleared, restored),
         DOMAIN mgr' \subseteq DOMAIN mgr, \A a \in DOMAIN mgr' : mgr'[a] = mgr[a],
         UNCHANGED <<shadow, pending>>, failed' \in BOOLEAN,
         faults' \in 0..MaxFaults, owed' \in BOOLEAN, owed' => faults' > 0
  PROVE  /\ BreakpointsTypeOK'
         /\ (Clean /\ Originals /\ PendingRight /\ SameInstr)'
         /\ DOMAIN sw' = DOMAIN sw \ Restored(addrs)
         /\ \A a \in Addresses \ Bytes(Restored(addrs)) : mem'[a] = mem[a]
         /\ spoilt \subseteq spoilt'
<1>1. /\ comps' = Disabled(Freed(addrs)) /\ fpcomp' = Cleared(cleared)
      /\ fpb' = [fpb EXCEPT !.used = @ - Cardinality(Freed(addrs))]
      /\ mem' = Reinstated(restored)
      /\ sw' = Restrict(sw, DOMAIN sw \ Restored(addrs))
      /\ spoilt' = spoilt \cup Bytes(addrs \cap Orphans) \cup Bytes(Restored(addrs) \ restored)
  BY DEF RemovedButFor
<1>2. BreakpointsTypeOK
  BY DEF MemoryInv
<1>3. /\ mem' \in [Addresses -> {0, 1, Bkpt}]
      /\ DOMAIN sw' = DOMAIN sw \ Restored(addrs)
      /\ \A a \in DOMAIN sw' : sw'[a] = sw[a]
      /\ spoilt' \subseteq Addresses
      /\ \A a \in Addresses \ Bytes(Restored(addrs)) : mem'[a] = mem[a]
      /\ (Clean /\ Originals /\ PendingRight /\ SameInstr)'
  BY <1>1, RestoringStep
<1>4. /\ comps' \in [Index -> [enabled : BOOLEAN, addr : Halfwords \cup {0}]]
      /\ fpcomp' \in [Index -> Halfwords \cup {NoMatch}]
      /\ fpb' \in [enabled : BOOLEAN, used : Int] /\ fpb'.used <= Comparators
  <2>1. Freed(addrs) \subseteq Index
    BY FreedIsOfIndex
  <2>2. fpb' \in [enabled : BOOLEAN, used : Int] /\ fpb'.used <= Comparators
    BY <1>1, <1>2, <2>1, FreeingTypes
  <2>3. Cleared(cleared) \in [Index -> Halfwords \cup {NoMatch}]
    BY <1>2, <2>1, FreeingTypes
  <2> QED BY <1>1, <1>2, <2>1, <2>2, <2>3, FreeingTypes
<1>5. BreakpointsTypeOK'
  BY <1>2, <1>3, <1>4 DEF BreakpointsTypeOK
<1> QED BY <1>1, <1>3, <1>5

\* Nothing is lost: what is removed is gone.
LEMMA RemovedIs ==
  ASSUME NEW addrs, Removed(addrs)
  PROVE  /\ RemovedButFor(addrs, Freed(addrs), Restored(addrs))
         /\ comps' = Disabled(Freed(addrs)) /\ fpcomp' = Cleared(Freed(addrs))
         /\ fpb' = [fpb EXCEPT !.used = @ - Cardinality(Freed(addrs))]
  BY DEF Removed, RemovedButFor

LEMMA RemovedStep ==
  ASSUME MemoryInv, FPBInv, pending = NoPending, NEW addrs, addrs \subseteq DOMAIN mgr,
         Removed(addrs),
         DOMAIN mgr' = DOMAIN mgr \ addrs, \A a \in DOMAIN mgr' : mgr'[a] = mgr[a],
         UNCHANGED <<shadow, pending, failed, faults, owed>>
  PROVE  MemoryInv' /\ FPBInv'
<1>1. /\ BreakpointsTypeOK'
      /\ (Clean /\ Originals /\ PendingRight /\ SameInstr)'
      /\ DOMAIN sw' = DOMAIN sw \ Restored(addrs)
      /\ \A a \in Addresses \ Bytes(Restored(addrs)) : mem'[a] = mem[a]
      /\ spoilt \subseteq spoilt'
  <2>1. /\ faults' \in 0..MaxFaults /\ owed' \in BOOLEAN /\ (owed' => faults' > 0)
        /\ failed' \in BOOLEAN
    BY DEF MemoryInv, BreakpointsTypeOK
  <2> QED BY <2>1, RemovedIs, RemovedKeeps
<1>2. BreakpointsTypeOK
  BY DEF MemoryInv
<1>3. CASE failed
  BY <1>1, <1>3 DEF MemoryInv, FPBInv, InPlace, OwnRecords, Armed
<1>4. CASE ~failed
  <2>1. FPBInv'
    BY <1>2, <1>4, RemovedIs, FreeingStep
  <2>2. /\ Orphans = {}
        /\ \A a \in DOMAIN sw :
             /\ a \in DOMAIN mgr /\ mgr[a].type = "sw"
             /\ \A b \in {a, a + 1} \ spoilt : mem[b] = Bkpt
    BY <1>4 DEF MemoryInv, InPlace
  <2>3. Orphans' = {}
    BY <1>1, <2>2 DEF Orphans, Restored
  <2>4. ASSUME NEW a \in DOMAIN sw'
        PROVE  /\ a \in DOMAIN mgr' /\ mgr'[a].type = "sw"
               /\ \A b \in {a, a + 1} \ spoilt' : mem'[b] = Bkpt
    <3>1. a \in DOMAIN sw /\ a \notin Restored(addrs)
      BY <1>1
    <3>2. a \in DOMAIN mgr' /\ mgr'[a].type = "sw"
      BY <2>2, <3>1 DEF Restored
    <3>3. ASSUME NEW b \in {a, a + 1}, b \notin spoilt' PROVE mem'[b] = Bkpt
      <4>1. a \in Halfwords /\ Covers(a, b)
        BY <1>2, <3>1 DEF BreakpointsTypeOK, Covers
      <4>2. b \in Addresses
        BY <4>1, WholeHalfwords
      <4>3. b \notin Bytes(Restored(addrs))
        <5> SUFFICES ASSUME NEW c \in Restored(addrs), Covers(c, b) PROVE FALSE
          BY DEF Bytes
        <5>1. c \in Halfwords
          BY <1>2 DEF Restored, BreakpointsTypeOK
        <5> QED BY <3>1, <4>1, <5>1, OneCovers
      <4>4. mem[b] = Bkpt
        BY <1>1, <2>2, <3>1, <3>3
      <4> QED BY <1>1, <4>2, <4>3, <4>4
    <3> QED BY <3>2, <3>3
  <2> QED BY <1>1, <2>1, <2>3, <2>4 DEF MemoryInv, InPlace
<1> QED BY <1>3, <1>4

LEMMA RemoveBreakpointStep ==
  ASSUME MemoryInv, FPBInv, NEW addr, RemoveBreakpoint(addr)
  PROVE  MemoryInv' /\ FPBInv'
<1>1. /\ pending = NoPending /\ {addr} \subseteq DOMAIN mgr
      /\ Removed({addr})
      /\ mgr' = Restrict(mgr, DOMAIN mgr \ {addr})
      /\ UNCHANGED <<shadow, pending, failed, faults, owed>>
  BY DEF RemoveBreakpoint
<1>2. DOMAIN mgr' = DOMAIN mgr \ {addr} /\ \A a \in DOMAIN mgr' : mgr'[a] = mgr[a]
  BY <1>1 DEF Restrict
<1> QED BY <1>1, <1>2, RemovedStep

LEMMA RemoveAllBreakpointsStep ==
  ASSUME MemoryInv, FPBInv, RemoveAllBreakpoints
  PROVE  MemoryInv' /\ FPBInv'
<1>1. /\ pending = NoPending
      /\ Removed(DOMAIN mgr)
      /\ mgr' = << >>
      /\ UNCHANGED <<shadow, pending, failed, faults, owed>>
  BY DEF RemoveAllBreakpoints
<1>2. DOMAIN mgr' = {}
  BY <1>1
<1>3. DOMAIN mgr' = DOMAIN mgr \ DOMAIN mgr /\ \A a \in DOMAIN mgr' : mgr'[a] = mgr[a]
  BY <1>2
<1> QED BY <1>1, <1>3, RemovedStep

\* A KeyError out of the loop is a sign of an earlier failure.
LEMMA RemoveAllBreakpointsOrphanedStep ==
  ASSUME MemoryInv, FPBInv, NEW addr, NEW done, RemoveAllBreakpointsOrphaned(addr, done)
  PROVE  MemoryInv' /\ FPBInv'
<1>1. /\ pending = NoPending /\ addr \in Orphans
      /\ done \cup {addr} \subseteq DOMAIN mgr
      /\ UNCHANGED <<shadow, mgr, pending, failed>>
  BY DEF RemoveAllBreakpointsOrphaned, Orphans
<1>2. failed /\ BreakpointsTypeOK /\ failed' \in BOOLEAN
  BY <1>1 DEF MemoryInv, InPlace, BreakpointsTypeOK
<1>3. BreakpointsTypeOK' /\ (Clean /\ Originals /\ PendingRight /\ SameInstr)'
  <2>1. CASE Removed(done \cup {addr}) /\ UNCHANGED <<faults, owed>>
    <3>1. faults' \in 0..MaxFaults /\ owed' \in BOOLEAN /\ (owed' => faults' > 0)
      BY <1>2, <2>1 DEF BreakpointsTypeOK
    <3>2. RemovedButFor(done \cup {addr}, Freed(done \cup {addr}), Restored(done \cup {addr}))
      BY <2>1, RemovedIs
    <3> QED BY <1>1, <1>2, <3>1, <3>2, RemovedKeeps
  <2>2. ASSUME NEW cleared \in SUBSET Freed(done), NEW restored \in SUBSET Restored(done \cup {addr}),
               RemovedButFor(done \cup {addr}, cleared, restored), Trouble(TRUE)
        PROVE  BreakpointsTypeOK' /\ (Clean /\ Originals /\ PendingRight /\ SameInstr)'
    <3>1. faults' \in 0..MaxFaults /\ owed' \in BOOLEAN /\ (owed' => faults' > 0)
      BY <1>2, <2>2, TroubleType
    <3>2. cleared \subseteq Freed(done \cup {addr})
      BY DEF Freed
    <3> QED BY <1>1, <1>2, <2>2, <3>1, <3>2, RemovedKeeps
  <2> QED BY <2>1, <2>2 DEF RemoveAllBreakpointsOrphaned
<1> QED BY <1>1, <1>2, <1>3 DEF MemoryInv, FPBInv, InPlace, OwnRecords, Armed

\* A failure within the loop: the provider's and the FPB's lists are shorter
\* than the manager's from then on.
LEMMA RemoveAllBreakpointsFailStep ==
  ASSUME MemoryInv, FPBInv, NEW addr, NEW done, RemoveAllBreakpointsFail(addr, done)
  PROVE  MemoryInv' /\ FPBInv'
<1> DEFINE i == FirstMatching(RecordAddr(addr))
           freed == Freed(done)
<1>1. /\ pending = NoPending /\ done \subseteq DOMAIN mgr /\ done \cap Orphans = {}
      /\ Matching(RecordAddr(addr)) # {}
      /\ Trouble(FALSE)
      /\ comps' = Disabled(freed \cup {i})
      /\ \E cleared \in SUBSET (freed \cup {i}) : fpcomp' = Cleared(cleared)
      /\ fpb' = [fpb EXCEPT !.used = @ - Cardinality(freed)]
      /\ \E restored \in SUBSET Restored(done) :
           /\ mem' = Reinstated(restored)
           /\ spoilt' = spoilt \cup Bytes(Restored(done) \ restored)
      /\ sw' = Restrict(sw, DOMAIN sw \ Restored(done))
      /\ failed' = TRUE
      /\ UNCHANGED <<shadow, mgr, pending>>
  BY DEF RemoveAllBreakpointsFail
<1>2. BreakpointsTypeOK
  BY DEF MemoryInv
<1>3. PICK restored \in SUBSET Restored(done) :
        /\ mem' = Reinstated(restored)
        /\ spoilt' = spoilt \cup Bytes(done \cap Orphans) \cup Bytes(Restored(done) \ restored)
  BY <1>1 DEF Bytes
<1>4. /\ mem' \in [Addresses -> {0, 1, Bkpt}]
      /\ DOMAIN sw' = DOMAIN sw \ Restored(done)
      /\ \A a \in DOMAIN sw' : sw'[a] = sw[a]
      /\ spoilt' \subseteq Addresses
      /\ (Clean /\ Originals /\ PendingRight /\ SameInstr)'
  BY <1>1, <1>3, RestoringStep
<1>5. freed \subseteq Index /\ freed \cup {i} \subseteq Index
  <2>1. i \in Matching(RecordAddr(addr))
    BY <1>1, FirstMatchingIs
  <2> QED BY <2>1, FreedIsOfIndex DEF Matching
<1>6. /\ comps' \in [Index -> [enabled : BOOLEAN, addr : Halfwords \cup {0}]]
      /\ fpcomp' \in [Index -> Halfwords \cup {NoMatch}]
  <2>1. fpcomp' \in [Index -> Halfwords \cup {NoMatch}]
    <3>1. PICK cleared \in SUBSET (freed \cup {i}) : fpcomp' = Cleared(cleared)
      BY <1>1
    <3>2. cleared \subseteq Index
      BY <1>5
    <3>3. Cleared(cleared) \in [Index -> Halfwords \cup {NoMatch}]
      BY <1>2, <3>2, FreeingTypes
    <3> QED BY <3>1, <3>3
  <2>2. Disabled(freed \cup {i}) \in [Index -> [enabled : BOOLEAN, addr : Halfwords \cup {0}]]
    BY <1>2, <1>5, FreeingTypes
  <2> QED BY <1>1, <2>1, <2>2
<1>7. fpb' \in [enabled : BOOLEAN, used : Int] /\ fpb'.used <= Comparators
  BY <1>1, <1>2, <1>5, FreeingTypes
<1>8. faults' \in 0..MaxFaults /\ owed' \in BOOLEAN /\ (owed' => faults' > 0)
  BY <1>1, <1>2, TroubleType
<1>9. BreakpointsTypeOK'
  BY <1>1, <1>2, <1>4, <1>6, <1>7, <1>8 DEF BreakpointsTypeOK
<1>10. InPlace' /\ FPBInv'
  BY <1>1 DEF InPlace, FPBInv, OwnRecords, Armed
<1> QED BY <1>4, <1>9, <1>10 DEF MemoryInv

\* A removal that fails leaves the provider filtering with the right
\* instruction, whether it was put back or not.
LEMMA RemoveBreakpointFailsStep ==
  ASSUME MemoryInv, FPBInv, NEW addr, RemoveBreakpointFails(addr)
  PROVE  MemoryInv' /\ FPBInv'
<1> DEFINE freed == Freed({addr})
<1>1. /\ pending = NoPending /\ addr \in DOMAIN mgr
      /\ Trouble(FALSE)
      /\ mgr' = Restrict(mgr, DOMAIN mgr \ {addr})
      /\ comps' = Disabled(freed)
      /\ fpcomp' \in {fpcomp, Cleared(freed)}
      /\ mem' \in {mem, Reinstated(Restored({addr}))}
      /\ spoilt' = spoilt \cup Bytes({addr} \cap Orphans)
      /\ failed' = TRUE
      /\ UNCHANGED <<shadow, sw, fpb, pending>>
  BY DEF RemoveBreakpointFails
<1>2. BreakpointsTypeOK
  BY DEF MemoryInv
<1>3. DOMAIN mgr' = DOMAIN mgr \ {addr} /\ \A a \in DOMAIN mgr' : mgr'[a] = mgr[a]
  BY <1>1 DEF Restrict
<1>4. /\ mem' \in [Addresses -> {0, 1, Bkpt}]
      /\ \A b \in Addresses \ Bytes(Restored({addr})) : mem'[b] = mem[b]
  <2>1. Restored({addr}) \subseteq DOMAIN mgr /\ \A a \in Restored({addr}) : mgr[a].type = "sw"
    BY <1>1 DEF Restored
  <2>2. /\ Reinstated(Restored({addr})) \in [Addresses -> {0, 1, Bkpt}]
        /\ \A b \in Addresses \ Bytes(Restored({addr})) :
             Reinstated(Restored({addr}))[b] = mem[b]
    BY <1>2, <2>1, ReinstatedIs
  <2> QED BY <1>1, <1>2, <2>2 DEF BreakpointsTypeOK
<1>5. freed \subseteq Index
  BY FreedIsOfIndex
<1>6. /\ comps' \in [Index -> [enabled : BOOLEAN, addr : Halfwords \cup {0}]]
      /\ fpcomp' \in [Index -> Halfwords \cup {NoMatch}]
  <2>1. Cleared(freed) \in [Index -> Halfwords \cup {NoMatch}]
    BY <1>2, <1>5, FreeingTypes
  <2>2. Disabled(freed) \in [Index -> [enabled : BOOLEAN, addr : Halfwords \cup {0}]]
    BY <1>2, <1>5, FreeingTypes
  <2>3. fpcomp \in [Index -> Halfwords \cup {NoMatch}]
    BY <1>2 DEF BreakpointsTypeOK
  <2> QED BY <1>1, <2>1, <2>2, <2>3, Zenon
<1>7. BreakpointsTypeOK'
  <2>1. faults' \in 0..MaxFaults /\ owed' \in BOOLEAN /\ (owed' => faults' > 0)
    BY <1>1, <1>2, TroubleType
  <2>2. spoilt' \subseteq Addresses
    BY <1>1, <1>2 DEF BreakpointsTypeOK, Bytes
  <2> QED BY <1>1, <1>2, <1>3, <1>4, <1>6, <2>1, <2>2 DEF BreakpointsTypeOK
<1>8. Clean'
  <2> SUFFICES ASSUME NEW b \in Addresses \ spoilt', ~HasBkpt(b) PROVE mem'[b] = shadow[b]
    BY <1>1 DEF Clean, HasBkpt
  <2>1. b \notin Bytes(Restored({addr}))
    <3> SUFFICES ASSUME addr \in Restored({addr}), Covers(addr, b) PROVE FALSE
      BY DEF Bytes, Restored
    <3>1. addr \notin DOMAIN sw
      BY DEF HasBkpt
    <3>2. addr \in Orphans
      BY <1>1, <3>1 DEF Orphans, Restored
    <3>3. b \in Bytes({addr} \cap Orphans)
      BY <3>2 DEF Bytes
    <3> QED BY <1>1, <3>3
  <2>2. b \notin spoilt
    BY <1>1
  <2> QED BY <1>4, <2>1, <2>2 DEF MemoryInv, Clean
<1>9. Originals' /\ PendingRight' /\ SameInstr'
  <2>1. Originals'
    <3> SUFFICES ASSUME NEW a \in DOMAIN sw, NEW b \in {a, a + 1}, b \notin spoilt'
                 PROVE  sw[a][b - a + 1] = shadow[b]
      BY <1>1 DEF Originals
    <3>1. b \notin spoilt
      BY <1>1
    <3> QED BY <3>1 DEF MemoryInv, Originals
  <2>2. PendingRight'
    BY <1>1 DEF PendingRight
  <2>3. SameInstr'
    BY <1>1, <1>3 DEF MemoryInv, SameInstr
  <2> QED BY <2>1, <2>2, <2>3
<1>10. InPlace' /\ FPBInv'
  BY <1>1 DEF InPlace, FPBInv, OwnRecords, Armed
<1> QED BY <1>7, <1>8, <1>9, <1>10 DEF MemoryInv

\* A removal that is lost: the provider filters no more, and what is left is
\* spoilt.
LEMMA RemoveBreakpointLostStep ==
  ASSUME MemoryInv, FPBInv, NEW addr, RemoveBreakpointLost(addr)
  PROVE  MemoryInv' /\ FPBInv'
<1>1. /\ pending = NoPending /\ {addr} \subseteq DOMAIN mgr
      /\ Trouble(TRUE)
      /\ RemovedButFor({addr}, {}, {})
      /\ mgr' = Restrict(mgr, DOMAIN mgr \ {addr})
      /\ failed' = TRUE
      /\ UNCHANGED <<shadow, pending>>
  BY DEF RemoveBreakpointLost
<1>2. DOMAIN mgr' = DOMAIN mgr \ {addr} /\ \A a \in DOMAIN mgr' : mgr'[a] = mgr[a]
  BY <1>1 DEF Restrict
<1>3. faults' \in 0..MaxFaults /\ owed' \in BOOLEAN /\ (owed' => faults' > 0)
  BY <1>1, TroubleType DEF MemoryInv
<1>4. BreakpointsTypeOK' /\ (Clean /\ Originals /\ PendingRight /\ SameInstr)'
  BY <1>1, <1>2, <1>3, RemovedKeeps
<1> QED BY <1>1, <1>4 DEF MemoryInv, FPBInv, InPlace, OwnRecords, Armed

-----------------------------------------------------------------------------
\* A tick of the core, of the cache or of the watchpoints leaves the
\* breakpoints alone.
LEMMA BreakpointsUnchanged ==
  ASSUME MemoryInv, FPBInv,
         UNCHANGED <<mem, shadow, sw, mgr, comps, fpcomp, fpb, pending, spoilt, failed>>,
         faults' \in 0..MaxFaults, owed' \in BOOLEAN, owed' => faults' > 0
  PROVE  MemoryInv' /\ FPBInv'
<1>1. UNCHANGED <<mem, shadow, sw, mgr, comps, fpcomp, fpb, pending, spoilt, failed>>
  OBVIOUS
<1>2. BreakpointsTypeOK'
  BY <1>1 DEF MemoryInv, BreakpointsTypeOK
<1>3. (Clean /\ Originals /\ PendingRight /\ SameInstr /\ InPlace)'
  BY <1>1 DEF MemoryInv, Clean, Originals, PendingRight, SameInstr, InPlace, HasBkpt, Orphans
<1>4. FPBInv'
  BY <1>1 DEF FPBInv, OwnRecords, Armed, Enabled
<1> QED BY <1>2, <1>3, <1>4 DEF MemoryInv

\* Every step of set_breakpoint, remove_breakpoint and remove_all_breakpoints.
LEMMA BreakpointStepInv ==
  ASSUME MemoryInv, FPBInv, BreakpointStep
  PROVE  MemoryInv' /\ FPBInv'
<1>1. BreakAddresses \subseteq Halfwords
  BY TargetMemoryAssumption DEF TargetMemoryAssumption
<1>2. ASSUME NEW a \in BreakAddresses, NEW type,
             \/ SetHardware(a, type) \/ SetHardwareFails(a, type) \/ SetHardwareLost(a, type)
             \/ ReadInstruction(a, type)
      PROVE  MemoryInv' /\ FPBInv'
  BY <1>1, <1>2, SetHardwareStep, SetHardwareFailsStep, SetHardwareLostStep,
     ReadInstructionStep
<1>3. CASE SetSoftware
  BY <1>3, SetSoftwareStep
<1>4. CASE SetSoftwareFails \/ SetSoftwareLost
  BY <1>4, SetSoftwareFailsStep, SetSoftwareLostStep
<1>5. ASSUME NEW a \in BreakAddresses,
             RemoveBreakpoint(a) \/ RemoveBreakpointFails(a) \/ RemoveBreakpointLost(a)
      PROVE  MemoryInv' /\ FPBInv'
  BY <1>5, RemoveBreakpointStep, RemoveBreakpointFailsStep, RemoveBreakpointLostStep
<1>6. CASE RemoveAllBreakpoints
  BY <1>6, RemoveAllBreakpointsStep
<1>7. ASSUME NEW a \in BreakAddresses, NEW done \in SUBSET BreakAddresses,
             RemoveAllBreakpointsFail(a, done) \/ RemoveAllBreakpointsOrphaned(a, done)
      PROVE  MemoryInv' /\ FPBInv'
  BY <1>7, RemoveAllBreakpointsFailStep, RemoveAllBreakpointsOrphanedStep
<1> QED BY <1>2, <1>3, <1>4, <1>5, <1>6, <1>7 DEF BreakpointStep

\* Reads through the cache change no memory, writes through it are writes.
LEMMA CacheStepInv ==
  ASSUME MemoryInv, FPBInv, CacheStep
  PROVE  MemoryInv' /\ FPBInv'
<1>1. \A r \in CacheRanges : r[1]..(r[2] - 1) \subseteq Addresses
  BY TargetMemoryAssumption DEF TargetMemoryAssumption
<1>2. BreakpointsTypeOK /\ faults \in 0..MaxFaults /\ owed \in BOOLEAN /\ (owed => faults > 0)
  BY DEF MemoryInv, BreakpointsTypeOK
<1>3. CASE UNCHANGED <<breakpoints, owed>>
  BY <1>2, <1>3, BreakpointsUnchanged DEF breakpoints
<1>4. ASSUME NEW r \in CacheRanges, WriteCached(r[1], r[2]), UNCHANGED <<faults, owed>>
      PROVE  MemoryInv' /\ FPBInv'
  <2> DEFINE addrs == r[1]..(r[2] - 1)
             value == [a \in addrs |-> 1]
  <2>1. Written(addrs, value)
    BY <1>4 DEF WriteCached
  <2>2. addrs \subseteq Addresses /\ value \in [addrs -> {0, 1}]
    BY <1>1
  <2>3. faults' \in 0..MaxFaults /\ owed' \in BOOLEAN /\ (owed' => faults' > 0)
    BY <1>2, <1>4
  <2> HIDE DEF addrs, value
  <2> QED BY <2>1, <2>2, <2>3, WrittenStep
<1>5. ASSUME NEW r \in CacheRanges, WriteCachedFails(r[1], r[2])
      PROVE  MemoryInv' /\ FPBInv'
  <2>1. PICK middle \in r[1]..r[2] :
          Written(r[1]..(middle - 1), [a \in r[1]..(middle - 1) |-> 1])
    BY <1>5 DEF WriteCachedFails
  <2> DEFINE addrs == r[1]..(middle - 1)
             value == [a \in addrs |-> 1]
  <2>2. faults' \in 0..MaxFaults /\ owed' \in BOOLEAN /\ (owed' => faults' > 0)
    BY <1>2, <1>5, TroubleType DEF WriteCachedFails
  <2>3. addrs \subseteq Addresses /\ value \in [addrs -> {0, 1}]
    <3>1. r[1] \in Nat /\ r[2] \in Nat
      BY TargetMemoryAssumption DEF TargetMemoryAssumption
    <3>2. \A b, e \in Nat : \A m \in b..e : b..(m - 1) \subseteq b..(e - 1)
      OBVIOUS
    <3>3. addrs \subseteq r[1]..(r[2] - 1)
      BY <2>1, <3>1, <3>2, Zenon
    <3> QED BY <1>1, <3>3
  <2>4. Written(addrs, value)
    BY <2>1
  <2> HIDE DEF addrs, value
  <2> QED BY <2>2, <2>3, <2>4, WrittenStep
<1>6. ASSUME NEW r \in CacheRanges, WriteCachedLost(r[1], r[2])
      PROVE  MemoryInv' /\ FPBInv'
  <2>1. PICK done \in SUBSET (r[1]..(r[2] - 1)) : Written(done, [a \in done |-> 1])
    BY <1>6 DEF WriteCachedLost
  <2> DEFINE value == [a \in done |-> 1]
  <2>2. faults' \in 0..MaxFaults /\ owed' \in BOOLEAN /\ (owed' => faults' > 0)
    BY <1>2, <1>6, TroubleType DEF WriteCachedLost
  <2>3. done \subseteq Addresses /\ value \in [done -> {0, 1}]
    BY <1>1
  <2>4. Written(done, value)
    BY <2>1
  <2> HIDE DEF value
  <2> QED BY <2>2, <2>3, <2>4, WrittenStep
<1> QED BY <1>3, <1>4, <1>5, <1>6 DEF CacheStep

-----------------------------------------------------------------------------
\* The DWT: the record that set_watchpoint fills in was free.
LEMMA FirstOfIs ==
  ASSUME NEW S, S \subseteq 1..Watchpoints, S # {}
  PROVE  FirstOf(S) \in S
<1>1. Watchpoints \in Nat
  BY TargetMemoryAssumption DEF TargetMemoryAssumption
<1> QED BY <1>1, HasLeast DEF FirstOf

\* No two records are of one watchpoint.
WatchRecords == [1..Watchpoints -> [addr : WatchAddresses \cup {0}, size : WatchSizes \cup {0},
                                    func : WatchTypes \cup {0}]]
OneEach == \A j, k \in 1..Watchpoints : watch[j] = watch[k] /\ watch[j].func # 0 => j = k

\* What an operation does with one watchpoint concerns no other one.
LEMMA OneWatchpoint ==
  ASSUME DWTInv, NEW i \in 1..Watchpoints,
         watch' \in WatchRecords, OneEach',
         \A j \in (1..Watchpoints) \ {i} : watch'[j] = watch[j] /\ func'[j] = func[j],
         func' \in [1..Watchpoints -> WatchTypes \cup {0}],
         refused' \ {i} = refused \ {i}, i \in refused' => watch'[i].func # 0,
         astray' \ {i} = astray \ {i},
         i \notin astray' => func'[i] = IF i \in refused' THEN 0 ELSE watch'[i].func
  PROVE  DWTInv'
<1>1. WatchTypesOK'
  <2>1. astray' \subseteq 1..Watchpoints
    BY DEF DWTInv, WatchTypesOK
  <2>2. refused' \subseteq {j \in 1..Watchpoints : watch'[j].func # 0}
    <3> SUFFICES ASSUME NEW j \in refused' PROVE j \in 1..Watchpoints /\ watch'[j].func # 0
      OBVIOUS
    <3>1. CASE j = i
      BY <3>1
    <3>2. CASE j # i
      <4>1. j \in refused
        BY <3>2
      <4>2. j \in 1..Watchpoints /\ watch[j].func # 0
        BY <4>1 DEF DWTInv, WatchTypesOK
      <4> QED BY <3>2, <4>2
    <3> QED BY <3>1, <3>2
  <2> QED BY <2>1, <2>2 DEF WatchTypesOK, WatchRecords
<1>2. ASSUME NEW j \in (1..Watchpoints) \ astray'
      PROVE  func'[j] = IF j \in refused' THEN 0 ELSE watch'[j].func
  <2>1. CASE j = i
    BY <2>1
  <2>2. CASE j # i
    <3>1. watch'[j] = watch[j] /\ func'[j] = func[j] /\ (j \in refused' <=> j \in refused)
      BY <2>2
    <3>2. j \notin astray
      BY <2>2
    <3>3. func[j] = IF j \in refused THEN 0 ELSE watch[j].func
      BY <3>2 DEF DWTInv, WatchpointsAgree
    <3> QED BY <3>1, <3>3, Zenon
  <2> QED BY <2>1, <2>2
<1> QED BY <1>1, <1>2 DEF DWTInv, WatchpointsAgree, OneEach

\* The record filled in was free, and no other is of the same watchpoint.
LEMMA RecordedIs ==
  ASSUME DWTInv, NEW i, NEW addr \in WatchAddresses, NEW size \in WatchSizes,
         NEW f \in WatchTypes, Recorded(i, addr, size, f)
  PROVE  /\ i \in 1..Watchpoints /\ watch[i].func = 0 /\ i \notin refused
         /\ watch' \in WatchRecords /\ OneEach'
         /\ watch'[i].func = f /\ f # 0
         /\ \A j \in (1..Watchpoints) \ {i} : watch'[j] = watch[j]
<1>1. i \in FreeWatch
  BY FirstOfIs DEF Recorded, FreeWatch
<1>2. i \in 1..Watchpoints /\ watch[i].func = 0 /\ i \notin refused
  BY <1>1 DEF FreeWatch, DWTInv, WatchTypesOK
<1> DEFINE record == [addr |-> addr, size |-> size, func |-> f]
<1>3. /\ watch' = [watch EXCEPT ![i] = record]
      /\ \A j \in 1..Watchpoints : watch[j] # record
  BY <1>1 DEF Recorded, FindWatchpoint
<1>4. f # 0 /\ record.func = f
  BY DEF WatchTypes
<1>5. /\ watch'[i] = record
      /\ \A j \in (1..Watchpoints) \ {i} : watch'[j] = watch[j]
  BY <1>2, <1>3 DEF DWTInv, WatchTypesOK
<1>6. record \in [addr : WatchAddresses \cup {0}, size : WatchSizes \cup {0},
                  func : WatchTypes \cup {0}]
  OBVIOUS
<1> HIDE DEF record
<1>7. watch' \in WatchRecords
  BY <1>2, <1>3, <1>6 DEF DWTInv, WatchTypesOK, WatchRecords
<1>8. OneEach'
  BY <1>3, <1>5 DEF DWTInv, WatchpointsAgree, OneEach
<1> QED BY <1>2, <1>4, <1>5, <1>7, <1>8

LEMMA SetWatchpointStep ==
  ASSUME DWTInv, NEW i, NEW addr \in WatchAddresses, NEW size \in WatchSizes,
         NEW f \in WatchTypes,
         \/ SetWatchpoint(i, addr, size, f) \/ SetWatchpointFails(i, addr, size, f)
         \/ SetWatchpointLost(i, addr, size, f)
  PROVE  DWTInv'
<1>1. Recorded(i, addr, size, f)
  BY DEF SetWatchpoint, SetWatchpointFails, SetWatchpointLost
<1>2. /\ i \in 1..Watchpoints /\ watch[i].func = 0 /\ i \notin refused
      /\ watch' \in WatchRecords /\ OneEach'
      /\ watch'[i].func = f /\ f # 0
      /\ \A j \in (1..Watchpoints) \ {i} : watch'[j] = watch[j]
  BY <1>1, RecordedIs
<1>3. func \in [1..Watchpoints -> WatchTypes \cup {0}]
  BY DEF DWTInv, WatchTypesOK
<1>4. \/ func' = [func EXCEPT ![i] = f] /\ refused' = refused /\ astray' = astray \ {i}
      \/ func' = func /\ refused' = refused \cup {i} /\ astray' = astray
      \/ /\ func' \in {func, [func EXCEPT ![i] = f]} /\ refused' = refused
         /\ astray' = astray \cup {i}
  BY DEF SetWatchpoint, SetWatchpointFails, SetWatchpointLost
<1>5. /\ func' \in [1..Watchpoints -> WatchTypes \cup {0}]
      /\ \A j \in (1..Watchpoints) \ {i} : func'[j] = func[j]
  <2>1. func' \in {func, [func EXCEPT ![i] = f]}
    BY <1>4, Zenon
  <2> QED BY <1>2, <1>3, <2>1
<1>6. ASSUME i \notin astray' PROVE func'[i] = IF i \in refused' THEN 0 ELSE watch'[i].func
  <2>1. CASE func' = [func EXCEPT ![i] = f] /\ refused' = refused
    BY <1>2, <1>3, <2>1
  <2>2. CASE func' = func /\ refused' = refused \cup {i} /\ astray' = astray
    <3>1. func[i] = 0
      BY <1>2, <1>6, <2>2 DEF DWTInv, WatchpointsAgree
    <3> QED BY <2>2, <3>1
  <2> QED BY <1>4, <1>6, <2>1, <2>2
<1>7. /\ refused' \ {i} = refused \ {i} /\ astray' \ {i} = astray \ {i}
      /\ i \in refused' => watch'[i].func # 0
  BY <1>2, <1>4
<1> QED BY <1>2, <1>5, <1>6, <1>7, OneWatchpoint

LEMMA RemoveWatchpointStep ==
  ASSUME DWTInv, NEW i, NEW addr, NEW size, NEW f,
         \/ RemoveWatchpoint(i, addr, size, f) \/ RemoveWatchpointFails(i, addr, size, f)
         \/ RemoveWatchpointLost(i, addr, size, f)
  PROVE  DWTInv'
<1>1. Freeing(i, addr, size, f)
  BY DEF RemoveWatchpoint, RemoveWatchpointFails, RemoveWatchpointLost
<1>2. i \in 1..Watchpoints /\ watch' = [watch EXCEPT ![i].func = 0] /\ refused' = refused \ {i}
  <2>1. i \in FindWatchpoint(addr, size, f)
    BY <1>1, FirstOfIs DEF Freeing, FindWatchpoint
  <2> QED BY <1>1, <2>1 DEF Freeing, FindWatchpoint
<1>3. /\ watch \in WatchRecords /\ func \in [1..Watchpoints -> WatchTypes \cup {0}]
      /\ OneEach
  BY DEF DWTInv, WatchTypesOK, WatchRecords, WatchpointsAgree, OneEach
<1>4. /\ watch' \in WatchRecords /\ watch'[i].func = 0
      /\ \A j \in (1..Watchpoints) \ {i} : watch'[j] = watch[j]
  BY <1>2, <1>3 DEF WatchRecords
<1>5. OneEach'
  <2> SUFFICES ASSUME NEW j \in 1..Watchpoints, NEW k \in 1..Watchpoints,
                      watch'[j] = watch'[k], watch'[j].func # 0
               PROVE  j = k
    BY DEF OneEach
  <2>1. j # i /\ k # i
    BY <1>4
  <2>2. watch'[j] = watch[j] /\ watch'[k] = watch[k]
    BY <1>4, <2>1
  <2> QED BY <1>3, <2>2 DEF OneEach
<1>6. \/ func' = [func EXCEPT ![i] = 0] /\ astray' = astray \ {i}
      \/ func' \in {func, [func EXCEPT ![i] = 0]} /\ astray' = astray \cup {i}
  BY DEF RemoveWatchpoint, RemoveWatchpointFails, RemoveWatchpointLost
<1>7. /\ func' \in [1..Watchpoints -> WatchTypes \cup {0}]
      /\ \A j \in (1..Watchpoints) \ {i} : func'[j] = func[j]
      /\ i \notin astray' => func'[i] = 0
  BY <1>2, <1>3, <1>6
<1>8. astray' \ {i} = astray \ {i} /\ refused' \ {i} = refused \ {i} /\ i \notin refused'
  BY <1>2, <1>6
<1> QED BY <1>2, <1>4, <1>5, <1>7, <1>8, OneWatchpoint

LEMMA RemoveAllWatchpointsStep ==
  ASSUME DWTInv, RemoveAllWatchpoints
  PROVE  DWTInv'
<1> DEFINE taken == {i \in 1..Watchpoints : watch[i].func # 0}
<1>1. /\ watch' = [i \in 1..Watchpoints |-> [watch[i] EXCEPT !.func = 0]]
      /\ func' = [i \in 1..Watchpoints |-> IF i \in taken THEN 0 ELSE func[i]]
      /\ refused' = {} /\ astray' = astray \ taken
  BY DEF RemoveAllWatchpoints
<1>2. \A i \in 1..Watchpoints :
        /\ [watch[i] EXCEPT !.func = 0] \in [addr : WatchAddresses \cup {0},
                                             size : WatchSizes \cup {0},
                                             func : WatchTypes \cup {0}]
        /\ [watch[i] EXCEPT !.func = 0].func = 0
  BY DEF DWTInv, WatchTypesOK
<1>3. WatchTypesOK'
  BY <1>1, <1>2 DEF DWTInv, WatchTypesOK
<1>4. ASSUME NEW i \in (1..Watchpoints) \ astray' PROVE func'[i] = 0
  <2>1. CASE i \in taken
    BY <1>1, <2>1
  <2>2. CASE i \notin taken
    <3>1. i \notin astray /\ watch[i].func = 0
      BY <1>1, <2>2
    <3>2. func[i] = 0
      BY <3>1 DEF DWTInv, WatchpointsAgree
    <3> QED BY <1>1, <2>2, <3>2
  <2> QED BY <2>1, <2>2
<1> QED BY <1>1, <1>2, <1>3, <1>4 DEF DWTInv, WatchpointsAgree

\* The watchpoints share nothing with the breakpoints but the errors.
LEMMA WatchStepInv ==
  ASSUME MemoryInv, FPBInv, DWTInv, WatchStep
  PROVE  MemoryInv' /\ FPBInv' /\ DWTInv'
<1>1. DWTInv'
  BY SetWatchpointStep, RemoveWatchpointStep, RemoveAllWatchpointsStep DEF WatchStep
<1>2. UNCHANGED <<faults, owed>> \/ Trouble(TRUE) \/ Trouble(FALSE)
  <2>1. ASSUME NEW i, NEW addr, NEW size, NEW f,
               \/ SetWatchpoint(i, addr, size, f) \/ RemoveWatchpoint(i, addr, size, f)
               \/ SetWatchpointFails(i, addr, size, f)
               \/ SetWatchpointLost(i, addr, size, f)
               \/ RemoveWatchpointFails(i, addr, size, f)
               \/ RemoveWatchpointLost(i, addr, size, f)
        PROVE  UNCHANGED <<faults, owed>> \/ Trouble(TRUE) \/ Trouble(FALSE)
    <3> HIDE DEF Trouble
    <3> QED BY <2>1 DEF SetWatchpoint, SetWatchpointFails, SetWatchpointLost,
                        RemoveWatchpoint, RemoveWatchpointFails, RemoveWatchpointLost
  <2>2. ASSUME RemoveAllWatchpoints PROVE UNCHANGED <<faults, owed>>
    BY <2>2 DEF RemoveAllWatchpoints
  <2> QED BY <2>1, <2>2 DEF WatchStep
<1>3. faults' \in 0..MaxFaults /\ owed' \in BOOLEAN /\ (owed' => faults' > 0)
  <2>1. BreakpointsTypeOK
    BY DEF MemoryInv
  <2>2. CASE UNCHANGED <<faults, owed>>
    BY <2>1, <2>2 DEF BreakpointsTypeOK
  <2> QED BY <1>2, <2>1, <2>2, TroubleType
<1> QED BY <1>1, <1>3, BreakpointsUnchanged DEF WatchStep

LEMMA WatchUnchanged ==
  ASSUME DWTInv, UNCHANGED dwt
  PROVE  DWTInv'
BY DEF DWTInv, WatchTypesOK, WatchpointsAgree, dwt

-----------------------------------------------------------------------------
LEMMA InitInv == Init => IInv
<1> SUFFICES ASSUME Init PROVE IInv
  OBVIOUS
<1>1. /\ InitBreakpoints
      /\ watch = [i \in 1..Watchpoints |-> [addr |-> 0, size |-> 0, func |-> 0]]
      /\ func = [i \in 1..Watchpoints |-> 0] /\ refused = {} /\ astray = {}
  BY DEF Init
<1>2. /\ mem = [a \in Addresses |-> 0] /\ shadow = mem
      /\ sw = << >> /\ mgr = << >>
      /\ comps = [i \in Index |-> [enabled |-> FALSE, addr |-> 0]]
      /\ fpcomp = [i \in Index |-> NoMatch]
      /\ fpb = [enabled |-> FALSE, used |-> 0]
      /\ pending = NoPending /\ spoilt = {} /\ failed = FALSE /\ faults = 0 /\ owed = FALSE
  BY <1>1 DEF InitBreakpoints
<1>3. DOMAIN sw = {} /\ DOMAIN mgr = {}
  BY <1>2
<1>4. Comparators \in Nat /\ MaxFaults \in Nat
  BY BreakpointsAssumption DEF BreakpointsAssumption
<1>5. BreakpointsTypeOK
  <2>1. mem \in [Addresses -> {0, 1, Bkpt}] /\ shadow \in [Addresses -> {0, 1}]
    BY <1>2
  <2>2. /\ comps \in [Index -> [enabled : BOOLEAN, addr : Halfwords \cup {0}]]
        /\ fpcomp \in [Index -> Halfwords \cup {NoMatch}]
    BY <1>2
  <2>3. fpb \in [enabled : BOOLEAN, used : Int] /\ fpb.used <= Comparators
    BY <1>2, <1>4
  <2>4. spoilt \subseteq Addresses /\ failed \in BOOLEAN /\ faults \in 0..MaxFaults
    <3>1. faults \in 0..MaxFaults
      BY <1>2, <1>4
    <3> QED BY <1>2, <3>1, Zenon
  <2> QED BY <1>2, <1>3, <2>1, <2>2, <2>3, <2>4 DEF BreakpointsTypeOK
<1>6. MemoryInv
  BY <1>2, <1>3, <1>5
    DEF MemoryInv, Clean, Originals, PendingRight, SameInstr, InPlace, Orphans
<1>7. Enabled = {}
  BY <1>2 DEF Enabled
<1>8. FPBInv
  BY <1>2, <1>3, <1>7, FS_EmptySet DEF FPBInv, OwnRecords, Armed
<1>9. DWTInv
  BY <1>1 DEF DWTInv, WatchTypesOK, WatchpointsAgree
<1> QED BY <1>6, <1>8, <1>9 DEF IInv

LEMMA NextInv == IInv /\ [Next]_vars => IInv'
<1> SUFFICES ASSUME IInv, [Next]_vars PROVE IInv'
  OBVIOUS
<1>1. MemoryInv /\ FPBInv /\ DWTInv
  BY DEF IInv
<1>8. faults \in 0..MaxFaults /\ owed \in BOOLEAN /\ (owed => faults > 0)
  BY <1>1 DEF MemoryInv, BreakpointsTypeOK
<1>2. CASE Resume \/ CoreMoves
  BY <1>1, <1>2, <1>8, BreakpointsUnchanged, WatchUnchanged
     DEF IInv, Resume, CoreMoves, breakpoints
<1>9. CASE ErrorRaised
  BY <1>1, <1>8, <1>9, BreakpointsUnchanged, WatchUnchanged DEF IInv, ErrorRaised, breakpoints
<1>3. ASSUME NEW a \in ProgramBytes, ProgramWrites(a) PROVE IInv'
  <2> DEFINE value == [b \in {a} |-> 0]
  <2>1. Written({a}, value) /\ UNCHANGED <<faults, owed, dwt>>
    BY <1>3 DEF ProgramWrites
  <2>2. {a} \subseteq Addresses /\ value \in [{a} -> {0, 1}]
    BY TargetMemoryAssumption DEF TargetMemoryAssumption
  <2>3. faults' \in 0..MaxFaults /\ owed' \in BOOLEAN /\ (owed' => faults' > 0)
    BY <1>8, <2>1
  <2>4. MemoryInv' /\ FPBInv'
    <3> HIDE DEF value
    <3> QED BY <1>1, <2>1, <2>2, <2>3, WrittenStep
  <2> QED BY <1>1, <2>1, <2>4, WatchUnchanged DEF IInv
<1>4. CASE BreakpointStep
  BY <1>1, <1>4, BreakpointStepInv, WatchUnchanged DEF IInv, BreakpointStep
<1>5. CASE CacheStep
  BY <1>1, <1>5, CacheStepInv, WatchUnchanged DEF IInv, CacheStep
<1>6. CASE WatchStep
  BY <1>1, <1>6, WatchStepInv DEF IInv
<1>7. CASE UNCHANGED vars
  BY <1>1, <1>7, <1>8, BreakpointsUnchanged, WatchUnchanged DEF IInv, vars, dwt
<1> QED BY <1>2, <1>3, <1>4, <1>5, <1>6, <1>7, <1>9 DEF Next

LEMMA Invariance == Spec => []IInv
<1> QED BY InitInv, NextInv, PTL DEF Spec

-----------------------------------------------------------------------------
\* The invariant implies what the run checks.
LEMMA InPlaceIs ==
  ASSUME MemoryInv
  PROVE  SoftwareBreakpointsInPlace
<1>1. ASSUME NEW a \in Addresses \ spoilt, mem[a] = Bkpt PROVE HasBkpt(a)
  <2>1. shadow[a] \in {0, 1} /\ Bkpt = 2
    BY DEF MemoryInv, BreakpointsTypeOK, Bkpt
  <2> QED BY <1>1, <2>1 DEF MemoryInv, Clean
<1> QED BY <1>1 DEF MemoryInv, InPlace, SoftwareBreakpointsInPlace

LEMMA UnitsAgreeIs ==
  ASSUME MemoryInv, FPBInv, DWTInv
  PROVE  UnitsAgree
<1>1. SUFFICES ASSUME ~failed PROVE ComparatorsAgree
  BY DEF UnitsAgree, DWTInv, ComparatorsAgree
<1>2. /\ \A a \in DOMAIN mgr : mgr[a].type = "hw" =>
           comps[mgr[a].comp].enabled /\ comps[mgr[a].comp].addr = a
      /\ \A i \in Enabled : comps[i].addr \in DOMAIN mgr /\ mgr[comps[i].addr].type = "hw"
      /\ \A i \in Index : fpcomp[i] = IF comps[i].enabled THEN comps[i].addr ELSE NoMatch
      /\ fpb.used = Cardinality(Enabled)
      /\ fpb.used > 0 => fpb.enabled
  BY <1>1 DEF FPBInv, OwnRecords, Armed
<1>3. {fpcomp[i] : i \in Index} \ {NoMatch} \subseteq {a \in DOMAIN mgr : mgr[a].type = "hw"}
  BY <1>2 DEF Enabled
<1>4. ASSUME NEW a \in DOMAIN mgr, mgr[a].type = "hw"
      PROVE  a \in {fpcomp[i] : i \in Index} \ {NoMatch}
  <2>1. mgr[a].comp \in Index
    BY <1>4 DEF MemoryInv, BreakpointsTypeOK
  <2>2. fpcomp[mgr[a].comp] = a
    BY <1>2, <1>4, <2>1
  <2>3. a # NoMatch
    <3>1. a \in Nat
      BY WholeHalfwords DEF MemoryInv, BreakpointsTypeOK
    <3> QED BY <3>1 DEF NoMatch
  <2> QED BY <2>1, <2>2, <2>3
<1>5. fpb.used = Cardinality({i \in Index : comps[i].enabled})
  BY <1>2 DEF Enabled
<1> QED BY <1>2, <1>3, <1>4, <1>5 DEF ComparatorsAgree

-----------------------------------------------------------------------------
\* The intervals of the memory cache, in the order in which the code takes them.

Values == {0, 1, Bkpt}
ApartFrom(i, j) == i.end <= j.begin \/ j.end <= i.begin
Apart(S) == \A i, j \in S : i = j \/ ApartFrom(i, j)
Extent(iv) == iv.begin \in Nat /\ iv.end \in Nat /\ iv.begin < iv.end

\* Intervals in the order of where they begin.
InOrder(s) == \A i, j \in DOMAIN s : i < j => s[i].begin <= s[j].begin
HasSorted(S) == \E s \in SetToSeqs(S) : InOrder(s)

\* One of finitely many intervals begins last.
LEMMA HasLatest ==
  ASSUME NEW U, \A x \in U : x.begin \in Nat,
         NEW T, T \subseteq U, IsFiniteSet(T), T # {}
  PROVE  \E m \in T : \A x \in T : x.begin <= m.begin
<1> DEFINE Latest(S) == \E m \in S : \A x \in S : x.begin <= m.begin
           Fine == {n \in Nat : \A S \in SUBSET U :
                                 IsFiniteSet(S) /\ Cardinality(S) = n + 1 => Latest(S)}
<1> HIDE DEF Latest
<1>1. 0 \in Fine
  <2> SUFFICES ASSUME NEW S \in SUBSET U, IsFiniteSet(S), Cardinality(S) = 0 + 1
               PROVE  Latest(S)
    OBVIOUS
  <2>1. PICK x : S = {x}
    <3>1. Cardinality(S) = 1
      OBVIOUS
    <3> QED BY <3>1, FS_Singleton
  <2>2. x.begin \in Nat
    BY <2>1
  <2> QED BY <2>1, <2>2 DEF Latest
<1>2. ASSUME NEW n \in Nat, n \in Fine PROVE n + 1 \in Fine
  <2> SUFFICES ASSUME NEW S \in SUBSET U, IsFiniteSet(S), Cardinality(S) = n + 1 + 1
               PROVE  Latest(S)
    OBVIOUS
  <2>1. PICK x \in S : TRUE
    <3>1. S # {}
      BY FS_EmptySet
    <3> QED BY <3>1
  <2>2. S \ {x} \in SUBSET U /\ IsFiniteSet(S \ {x}) /\ Cardinality(S \ {x}) = n + 1
    <3>1. IsFiniteSet(S \ {x}) /\ Cardinality(S \ {x}) = Cardinality(S) - 1
      BY <2>1, FS_RemoveElement
    <3> QED BY <3>1
  <2>3. Latest(S \ {x})
    BY <1>2, <2>2
  <2>4. PICK m \in S \ {x} : \A y \in S \ {x} : y.begin <= m.begin
    BY <2>3, Zenon DEF Latest
  <2>5. x.begin \in Nat /\ m.begin \in Nat /\ \A y \in S : y.begin \in Nat
    BY <2>1, <2>4
  <2>6. CASE x.begin <= m.begin
    <3>1. \A y \in S : y.begin <= m.begin
      BY <2>4, <2>6
    <3> QED BY <2>4, <3>1, Zenon DEF Latest
  <2>7. CASE ~(x.begin <= m.begin)
    <3>1. \A y \in S : y.begin <= x.begin
      <4> SUFFICES ASSUME NEW y \in S PROVE y.begin <= x.begin
        OBVIOUS
      <4>1. CASE y = x
        BY <2>5, <4>1
      <4>2. CASE y # x
        BY <2>4, <2>5, <2>7, <4>2
      <4> QED BY <4>1, <4>2
    <3> QED BY <2>1, <3>1, Zenon DEF Latest
  <2> QED BY <2>6, <2>7
<1> HIDE DEF Fine
<1>3. \A n \in Nat : n \in Fine
  BY <1>1, <1>2, InductionInSet
<1>4. PICK n \in Nat : Cardinality(T) = n + 1
  <2>1. Cardinality(T) \in Nat /\ Cardinality(T) # 0
    BY FS_CardinalityType, FS_EmptySet
  <2>2. \A c \in Nat : c # 0 => c - 1 \in Nat /\ c = (c - 1) + 1
    OBVIOUS
  <2> QED BY <2>1, <2>2
<1>5. Latest(T)
  BY <1>3, <1>4 DEF Fine
<1> QED BY <1>5 DEF Latest

\* Finitely many intervals can be put in order.
LEMMA CanBeSorted ==
  ASSUME NEW U, \A x \in U : x.begin \in Nat, NEW T, T \subseteq U, IsFiniteSet(T)
  PROVE  HasSorted(T)
<1> DEFINE Fine == {n \in Nat : \A S \in SUBSET U :
                                 IsFiniteSet(S) /\ Cardinality(S) = n => HasSorted(S)}
<1>1. 0 \in Fine
  <2> SUFFICES ASSUME NEW S \in SUBSET U, IsFiniteSet(S), Cardinality(S) = 0
               PROVE  HasSorted(S)
    OBVIOUS
  <2>1. S = {}
    BY FS_EmptySet
  <2>2. << >> \in [1..0 -> S] /\ 1..0 = {} /\ DOMAIN << >> = {}
    OBVIOUS
  <2>3. << >> \in SetToSeqs(S)
    BY <2>2 DEF SetToSeqs
  <2>4. InOrder(<< >>)
    BY <2>2 DEF InOrder
  <2> QED BY <2>3, <2>4, Zenon DEF HasSorted
<1>2. ASSUME NEW n \in Nat, n \in Fine PROVE n + 1 \in Fine
  <2> SUFFICES ASSUME NEW S \in SUBSET U, IsFiniteSet(S), Cardinality(S) = n + 1
               PROVE  HasSorted(S)
    OBVIOUS
  <2>1. PICK m \in S : \A x \in S : x.begin <= m.begin
    <3>1. S # {}
      BY FS_EmptySet
    <3> QED BY <3>1, HasLatest
  <2>2. S \ {m} \in SUBSET U /\ IsFiniteSet(S \ {m}) /\ Cardinality(S \ {m}) = n
    <3>1. IsFiniteSet(S \ {m}) /\ Cardinality(S \ {m}) = Cardinality(S) - 1
      BY <2>1, FS_RemoveElement
    <3> QED BY <3>1
  <2>3. HasSorted(S \ {m})
    BY <1>2, <2>2
  <2>4. PICK s \in SetToSeqs(S \ {m}) : InOrder(s)
    BY <2>3, Zenon DEF HasSorted
  <2>5. s \in [1..n -> S \ {m}] /\ \A i, j \in 1..n : i # j => s[i] # s[j]
    BY <2>2, <2>4 DEF SetToSeqs
  <2>6. \A i, j \in 1..n : i < j => s[i].begin <= s[j].begin
    BY <2>4, <2>5 DEF InOrder
  <2> DEFINE t == [i \in 1..n + 1 |-> IF i = n + 1 THEN m ELSE s[i]]
  <2>7. /\ t \in [1..n + 1 -> S] /\ t[n + 1] = m
        /\ \A i \in 1..n : i \in 1..n + 1 /\ t[i] = s[i] /\ s[i] \in S \ {m}
    BY <2>1, <2>5
  <2>8. \A i \in 1..n + 1 : i = n + 1 \/ i \in 1..n
    OBVIOUS
  <2> HIDE DEF t
  <2>9. \A i, j \in 1..n + 1 : i # j => t[i] # t[j]
    <3> SUFFICES ASSUME NEW i \in 1..n + 1, NEW j \in 1..n + 1, i # j PROVE t[i] # t[j]
      OBVIOUS
    <3>1. CASE i = n + 1
      BY <2>7, <2>8, <3>1, Zenon
    <3>2. CASE j = n + 1
      BY <2>7, <2>8, <3>2, Zenon
    <3>3. CASE i \in 1..n /\ j \in 1..n
      BY <2>5, <2>7, <3>3, Zenon
    <3> QED BY <2>8, <3>1, <3>2, <3>3
  <2>10. \A i, j \in 1..n + 1 : i < j => t[i].begin <= t[j].begin
    <3> SUFFICES ASSUME NEW i \in 1..n + 1, NEW j \in 1..n + 1, i < j PROVE t[i].begin <= t[j].begin
      OBVIOUS
    <3>1. i \in 1..n
      OBVIOUS
    <3>2. CASE j = n + 1
      <4>1. t[i] \in S /\ t[j] = m
        BY <2>7, <3>1, <3>2, Zenon
      <4> QED BY <2>1, <4>1, Zenon
    <3>3. CASE j \in 1..n
      <4>1. s[i].begin <= s[j].begin
        BY <2>6, <3>1, <3>3, Zenon
      <4> QED BY <2>7, <3>1, <3>3, <4>1, Zenon
    <3> QED BY <2>8, <3>2, <3>3
  <2>11. DOMAIN t = 1..n + 1
    BY <2>7
  <2>12. t \in SetToSeqs(S)
    BY <2>7, <2>9, Zenon DEF SetToSeqs
  <2>13. InOrder(t)
    BY <2>10, <2>11, Zenon DEF InOrder
  <2> QED BY <2>12, <2>13, Zenon DEF HasSorted
<1> HIDE DEF Fine
<1>3. \A n \in Nat : n \in Fine
  BY <1>1, <1>2, InductionInSet
<1>4. Cardinality(T) \in Nat
  BY FS_CardinalityType
<1> QED BY <1>3, <1>4 DEF Fine

\* Sorted puts the intervals of a set in order: all of them, each once.
LEMMA SortedIs ==
  ASSUME NEW S, IsFiniteSet(S), \A x \in S : Extent(x), Apart(S),
         NEW s, s = Sorted(S)
  PROVE  /\ s \in Seq(S) /\ Range(s) = S
         /\ \A i, j \in 1..Len(s) : i < j => s[i].end <= s[j].begin
<1>1. s \in SetToSeqs(S) /\ InOrder(s)
  <2>1. \A x \in S : x.begin \in Nat
    BY DEF Extent
  <2>2. HasSorted(S)
    BY <2>1, CanBeSorted
  <2> QED BY <2>2, Zenon DEF HasSorted, Sorted, InOrder
<1>2. PICK n : n = Cardinality(S) /\ n \in Nat
  BY FS_CardinalityType
<1>3. s \in [1..n -> S] /\ \A i, j \in 1..n : i # j => s[i] # s[j]
  BY <1>1, <1>2, Zenon DEF SetToSeqs
<1>4. s \in Seq(S) /\ Len(s) = n /\ DOMAIN s = 1..n
  BY <1>2, <1>3
<1>5. Range(s) = S
  <2>1. s \in Injection(1..n, S)
    BY <1>3, Zenon DEF Injection, IsInjective
  <2>2. Cardinality(1..n) = n
    <3>1. 1 \in Int /\ n \in Int
      BY <1>2
    <3>2. PICK m : m = Cardinality(1..n)
      OBVIOUS
    <3>3. m = IF 1 > n THEN 0 ELSE n - 1 + 1
      BY <3>1, <3>2, FS_Interval
    <3>4. m = n
      BY ONLY <1>2, <3>3
    <3> QED BY <3>2, <3>4, Zenon
  <2>3. s \in Surjection(1..n, S)
    BY <1>2, <2>1, <2>2, FS_Injection
  <2> QED BY <1>4, <2>3 DEF Surjection, Range
<1>6. ASSUME NEW i \in 1..n, NEW j \in 1..n, i < j PROVE s[i].end <= s[j].begin
  <2>1. s[i] \in S /\ s[j] \in S /\ s[i] # s[j]
    <3>1. i # j
      BY <1>6
    <3> QED BY <1>3, <3>1, Zenon
  <2>2. s[i].begin <= s[j].begin
    BY <1>1, <1>4, <1>6, Zenon DEF InOrder
  <2>3. ApartFrom(s[i], s[j]) /\ Extent(s[i]) /\ Extent(s[j])
    BY <2>1, Zenon DEF Apart
  <2>4. PICK x, y : x = s[i] /\ y = s[j]
    OBVIOUS
  <2>5. ApartFrom(x, y) /\ Extent(x) /\ Extent(y) /\ x.begin <= y.begin
    BY <2>2, <2>3, <2>4, Zenon
  <2>6. x.end <= y.begin
    BY ONLY <2>5 DEF ApartFrom, Extent
  <2> QED BY <2>4, <2>6, Zenon
<1> QED BY <1>4, <1>5, <1>6, Zenon

-----------------------------------------------------------------------------
\* The bytes of spans of memory.

\* A span of memory.
Fits(x, y) == x \in Nat /\ y \in Nat /\ x <= y /\ x..(y - 1) \subseteq Addresses
ByteMap == [Addresses -> Values]
IsBytes(u, F, x, y) ==
  u \in Seq(Values) /\ Len(u) = y - x /\ \A k \in 1..(y - x) : u[k] = F[x + k - 1]

\* The bytes of a span, one after the other.
LEMMA BytesAre ==
  ASSUME NEW F \in ByteMap, NEW x, NEW y, Fits(x, y)
  PROVE  IsBytes(BytesOf(F, x, y), F, x, y)
<1>1. x \in Nat /\ y \in Nat /\ y - x \in Nat
  BY DEF Fits
<1>2. ASSUME NEW k \in 1..(y - x) PROVE F[x + k - 1] \in Values
  <2>1. x + k - 1 \in x..(y - 1)
    BY <1>1
  <2> QED BY <2>1 DEF Fits, ByteMap
<1>3. BytesOf(F, x, y) \in [1..(y - x) -> Values]
  BY <1>2 DEF BytesOf
<1>4. BytesOf(F, x, y) \in Seq(Values) /\ Len(BytesOf(F, x, y)) = y - x
  BY <1>1, <1>3
<1> QED BY <1>4 DEF BytesOf, IsBytes

\* Nothing else is the bytes of a span.
LEMMA BytesAreOnly ==
  ASSUME NEW F \in ByteMap, NEW x, NEW y, Fits(x, y), NEW u, IsBytes(u, F, x, y)
  PROVE  u = BytesOf(F, x, y)
<1>1. IsBytes(BytesOf(F, x, y), F, x, y)
  BY BytesAre
<1>2. PICK v : v = BytesOf(F, x, y)
  OBVIOUS
<1>3. IsBytes(v, F, x, y)
  BY <1>1, <1>2
<1>4. u \in Seq(Values) /\ v \in Seq(Values) /\ Len(u) = Len(v)
  BY <1>3 DEF IsBytes
<1>5. \A k \in 1..Len(u) : u[k] = v[k]
  BY <1>3 DEF IsBytes
<1>6. u = v
  BY <1>4, <1>5, SeqEqual
<1> QED BY <1>2, <1>6

\* Addresses in order.
InTurn(x, p, q, y) == x <= p /\ p <= q /\ q <= y /\ {x, p, q, y} \subseteq Nat

\* The bytes of two adjacent spans.
LEMMA BytesJoin ==
  ASSUME NEW F \in ByteMap, NEW x, NEW y, NEW z, Fits(x, z), InTurn(x, y, y, z)
  PROVE  BytesOf(F, x, y) \o BytesOf(F, y, z) = BytesOf(F, x, z)
<1>1. /\ x \in Nat /\ y \in Nat /\ z \in Nat /\ x <= y /\ y <= z
      /\ x..(z - 1) \subseteq Addresses
  BY DEF Fits, InTurn
<1>2. Fits(x, y) /\ Fits(y, z)
  <2>1. x..(y - 1) \subseteq x..(z - 1) /\ y..(z - 1) \subseteq x..(z - 1)
    BY <1>1
  <2> QED BY <1>1, <2>1 DEF Fits
<1>3. PICK u, v : u = BytesOf(F, x, y) /\ v = BytesOf(F, y, z)
  OBVIOUS
<1>4. IsBytes(u, F, x, y) /\ IsBytes(v, F, y, z)
  BY <1>2, <1>3, BytesAre
<1>5. IsBytes(u \o v, F, x, z)
  <2>1. u \o v \in Seq(Values) /\ Len(u \o v) = z - x
    <3>1. u \in Seq(Values) /\ v \in Seq(Values) /\ Len(u) = y - x /\ Len(v) = z - y
      BY <1>4 DEF IsBytes
    <3>2. u \o v \in Seq(Values) /\ Len(u \o v) = Len(u) + Len(v)
      BY <3>1
    <3>3. (y - x) + (z - y) = z - x
      BY <1>1
    <3> QED BY <3>1, <3>2, <3>3
  <2>2. ASSUME NEW k \in 1..(z - x) PROVE (u \o v)[k] = F[x + k - 1]
    <3>1. CASE k <= y - x
      <4>1. k \in 1..(y - x)
        BY <1>1, <3>1
      <4>2. (u \o v)[k] = u[k]
        BY <1>1, <1>4, <4>1 DEF IsBytes
      <4> QED BY <1>4, <4>1, <4>2 DEF IsBytes
    <3>2. CASE ~(k <= y - x)
      <4>1. PICK j \in 1..(z - y) : j = k - (y - x) /\ y + j - 1 = x + k - 1
        <5>1. k - (y - x) \in 1..(z - y) /\ y + (k - (y - x)) - 1 = x + k - 1
          BY <1>1, <3>2
        <5> QED BY <5>1
      <4>2. u \in Seq(Values) /\ v \in Seq(Values) /\ Len(u) = y - x /\ Len(v) = z - y
        BY <1>4 DEF IsBytes
      <4>3. k \in Len(u) + 1..Len(u) + Len(v) /\ k - Len(u) = j
        BY <1>1, <3>2, <4>1, <4>2
      <4>4. (u \o v)[k] = v[k - Len(u)]
        BY <4>2, <4>3
      <4>5. (u \o v)[k] = v[j]
        BY <4>3, <4>4
      <4> QED BY <1>4, <4>1, <4>5 DEF IsBytes
    <3> QED BY <3>1, <3>2
  <2> QED BY <2>1, <2>2 DEF IsBytes
<1>6. u \o v = BytesOf(F, x, z)
  BY <1>5, BytesAreOnly
<1> QED BY <1>3, <1>6

\* The bytes of a part of a span.
PartRight(F, x, p, q, y) ==
  SubSeq(BytesOf(F, x, y), p - x + 1, q - x) = BytesOf(F, p, q)

LEMMA BytesPart ==
  ASSUME NEW F \in ByteMap, NEW x, NEW y, NEW p, NEW q, Fits(x, y), InTurn(x, p, q, y)
  PROVE  PartRight(F, x, p, q, y)
<1>1. /\ x \in Nat /\ y \in Nat /\ p \in Nat /\ q \in Nat /\ x <= p /\ p <= q /\ q <= y
      /\ x..(y - 1) \subseteq Addresses
  BY DEF Fits, InTurn
<1>2. Fits(p, q)
  <2>1. p..(q - 1) \subseteq x..(y - 1)
    BY <1>1
  <2> QED BY <1>1, <2>1 DEF Fits
<1>3. PICK u : u = BytesOf(F, x, y)
  OBVIOUS
<1>4. IsBytes(u, F, x, y)
  BY <1>3, BytesAre
<1>5. PICK i, j, v : i = p - x + 1 /\ j = q - x /\ v = SubSeq(u, i, j)
  OBVIOUS
<1>6. i \in 1..(y - x + 1) /\ j \in (i - 1)..(y - x) /\ j - i + 1 = q - p
  BY <1>1, <1>5
<1>7. \A k \in i..j : k \in 1..Len(u) /\ u[k] \in Values
  <2>1. Len(u) = y - x /\ \A k \in 1..Len(u) : u[k] \in Values
    BY <1>4 DEF IsBytes
  <2>2. \A k \in i..j : k \in 1..(y - x)
    BY <1>1, <1>6
  <2> QED BY <2>1, <2>2
<1>8. v \in Seq(Values) /\ Len(v) = q - p
  BY <1>1, <1>5, <1>6, <1>7
<1>9. ASSUME NEW k \in 1..(q - p) PROVE v[k] = F[p + k - 1]
  <2>1. PICK m : m = i + k - 1 /\ m \in 1..(y - x) /\ x + m - 1 = p + k - 1
    BY <1>1, <1>5, <1>6
  <2>2. v[k] = u[m]
    BY <1>1, <1>5, <1>6, <1>7, <1>8, <2>1
  <2>3. u[m] = F[x + m - 1]
    BY <1>4, <2>1 DEF IsBytes
  <2> QED BY <2>1, <2>2, <2>3
<1>10. v = BytesOf(F, p, q)
  BY <1>2, <1>8, <1>9, BytesAreOnly DEF IsBytes
<1> QED BY <1>3, <1>5, <1>10 DEF PartRight

\* Two maps that agree on a span have the same bytes there.
SameIn(F, G, x, y) == \A a \in x..(y - 1) : F[a] = G[a]

LEMMA BytesAgree ==
  ASSUME NEW F, NEW G, NEW x \in Nat, NEW y \in Nat, SameIn(F, G, x, y)
  PROVE  BytesOf(F, x, y) = BytesOf(G, x, y)
<1>1. \A k \in 1..(y - x) : x + k - 1 \in x..(y - 1)
  OBVIOUS
<1>2. \A k \in 1..(y - x) : F[x + k - 1] = G[x + k - 1]
  BY <1>1 DEF SameIn
<1> QED BY <1>2 DEF BytesOf

-----------------------------------------------------------------------------
\* What of a range is not cached: _get_ranges cuts each interval out of it.

\* The spans of at least a byte within a range, and the bytes outside intervals.
SpansIn(b, e) == {x \in {Span(p[1], p[2]) : p \in (b..e) \X (b..e)} : x.begin < x.end}
Extends(iv) == iv.begin..(iv.end - 1)
Covered(S) == UNION {Extends(iv) : iv \in S}

\* A span of the set has bounds within the range, ...
LEMMA SpanIs ==
  ASSUME NEW b \in Nat, NEW e \in Nat, NEW x \in SpansIn(b, e)
  PROVE  \E p, q \in b..e : p < q /\ x = Span(p, q)
BY DEF SpansIn, Span

\* ... and bounds within the range make a span of the set.
LEMMA IsSpan ==
  ASSUME NEW b \in Nat, NEW e \in Nat, NEW p \in b..e, NEW q \in b..e, p < q
  PROVE  Span(p, q) \in SpansIn(b, e)
<1>1. <<p, q>> \in (b..e) \X (b..e) /\ Span(p, q) = Span(<<p, q>>[1], <<p, q>>[2])
  OBVIOUS
<1>2. Span(p, q).begin = p /\ Span(p, q).end = q
  BY DEF Span
<1> QED BY <1>1, <1>2 DEF SpansIn

\* There are finitely many.
LEMMA SpansAreFinite ==
  ASSUME NEW b \in Nat, NEW e \in Nat
  PROVE  IsFiniteSet(SpansIn(b, e))
<1> DEFINE P == (b..e) \X (b..e)
           T == {Span(p[1], p[2]) : p \in P}
           f == [p \in P |-> Span(p[1], p[2])]
<1>1. IsFiniteSet(P)
  <2>1. IsFiniteSet(b..e)
    BY FS_Interval
  <2> QED BY <2>1, FS_Product
<1> HIDE DEF P
<1>2. f \in Surjection(P, T)
  <2>1. \A p \in P : f[p] = Span(p[1], p[2])
    OBVIOUS
  <2>2. f \in [P -> T]
    OBVIOUS
  <2> HIDE DEF f
  <2>3. \A t \in T : \E p \in P : f[p] = t
    BY <2>1
  <2> HIDE DEF T
  <2> QED BY <2>2, <2>3, Zenon DEF Surjection
<1> HIDE DEF f
<1>3. IsFiniteSet(T)
  <2> HIDE DEF T
  <2> QED BY <1>1, <1>2, FS_Surjection
<1>4. SpansIn(b, e) \in SUBSET T
  BY DEF SpansIn, P
<1> HIDE DEF T
<1> QED BY <1>3, <1>4, FS_Subset

\* An interval cuts out of a span what it holds, and leaves spans.
LEMMA CutIs ==
  ASSUME NEW b \in Nat, NEW e \in Nat, NEW x \in SpansIn(b, e), NEW iv, Extent(iv)
  PROVE  /\ Cut(x, iv) \subseteq SpansIn(b, e) /\ Apart(Cut(x, iv))
         /\ Covered(Cut(x, iv)) = Extends(x) \ Extends(iv)
         /\ \A z \in Cut(x, iv) : x.begin <= z.begin /\ z.begin < z.end /\ z.end <= x.end
<1>1. PICK p \in b..e, q \in b..e : p < q /\ x = Span(p, q)
  BY SpanIs
<1>2. x.begin = p /\ x.end = q
  BY <1>1 DEF Span
<1>3. PICK i \in Nat, j \in Nat : i = iv.begin /\ j = iv.end /\ i < j
  BY DEF Extent
<1>4. \A c, d : Span(c, d).begin = c /\ Span(c, d).end = d
  BY DEF Span
<1>5. Cut(x, iv) = IF j < p \/ i > q THEN {x}
                   ELSE (IF i > p THEN {Span(p, i)} ELSE {})
                          \cup (IF q > j THEN {Span(j, q)} ELSE {})
  BY <1>2, <1>3, Zenon DEF Cut
<1>6. Extends(x) = p..(q - 1) /\ Extends(iv) = i..(j - 1)
  BY <1>2, <1>3 DEF Extends
<1>7. CASE j < p \/ i > q
  <2>1. Cut(x, iv) = {x}
    BY <1>5, <1>7
  <2>2. Covered({x}) = Extends(x)
    BY DEF Covered
  <2>3. Apart({x})
    BY DEF Apart
  <2>4. \A a \in p..(q - 1) : a \notin i..(j - 1)
    BY <1>1, <1>3, <1>7
  <2>5. p..(q - 1) = (p..(q - 1)) \ (i..(j - 1))
    BY <2>4
  <2>6. x.begin <= x.begin /\ x.begin < x.end /\ x.end <= x.end
    BY <1>1, <1>2
  <2>7. Covered(Cut(x, iv)) = Extends(x) \ Extends(iv)
    BY <1>6, <2>1, <2>2, <2>5, Zenon
  <2>8. Cut(x, iv) \subseteq SpansIn(b, e) /\ Apart(Cut(x, iv))
    BY <2>1, <2>3
  <2> QED BY <2>1, <2>6, <2>7, <2>8
<1>8. CASE ~(j < p \/ i > q)
  <2>1. \A z : z \in Cut(x, iv) <=> \/ i > p /\ z = Span(p, i)
                                    \/ q > j /\ z = Span(j, q)
    BY <1>5, <1>8
  <2>2. i \in 0..q /\ j \in Nat /\ j >= p
    BY <1>1, <1>3, <1>8
  <2>3. Cut(x, iv) \subseteq SpansIn(b, e)
    <3>1. i > p => Span(p, i) \in SpansIn(b, e)
      <4>1. i > p => i \in b..e
        BY <1>1, <2>2
      <4> QED BY <1>1, <4>1, IsSpan
    <3>2. q > j => Span(j, q) \in SpansIn(b, e)
      <4>1. q > j => j \in b..e
        BY <1>1, <2>2
      <4> QED BY <1>1, <4>1, IsSpan
    <3> QED BY <2>1, <3>1, <3>2, Zenon
  <2>4. \A z \in Cut(x, iv) : p <= z.begin /\ z.begin < z.end /\ z.end <= q
    BY <1>1, <1>4, <2>1, <2>2
  <2>5. Apart(Cut(x, iv))
    <3>1. i <= j
      BY <1>3
    <3>2. Span(p, i).end = i /\ Span(j, q).begin = j
      BY <1>4
    <3>3. ASSUME NEW z \in Cut(x, iv), NEW w \in Cut(x, iv), z # w PROVE ApartFrom(z, w)
      <4>1. \/ z = Span(p, i) /\ w = Span(j, q)
            \/ w = Span(p, i) /\ z = Span(j, q)
        BY <2>1, <3>3
      <4> QED BY <3>1, <3>2, <4>1 DEF ApartFrom
    <3> QED BY <3>3 DEF Apart
  <2>6. \A a : a \in Covered(Cut(x, iv)) <=> \/ i > p /\ a \in p..(i - 1)
                                             \/ q > j /\ a \in j..(q - 1)
    <3>1. \A a : a \in Covered(Cut(x, iv)) <=> \E z \in Cut(x, iv) : a \in Extends(z)
      BY DEF Covered
    <3>2. Extends(Span(p, i)) = p..(i - 1) /\ Extends(Span(j, q)) = j..(q - 1)
      BY <1>4 DEF Extends
    <3>3. ASSUME NEW a
          PROVE  a \in Covered(Cut(x, iv)) <=> \/ i > p /\ a \in p..(i - 1)
                                               \/ q > j /\ a \in j..(q - 1)
      <4>1. ASSUME a \in Covered(Cut(x, iv))
            PROVE  \/ i > p /\ a \in p..(i - 1)
                   \/ q > j /\ a \in j..(q - 1)
        <5>1. PICK z \in Cut(x, iv) : a \in Extends(z)
          BY <3>1, <4>1, Zenon
        <5> QED BY <2>1, <3>2, <5>1, Zenon
      <4>2. ASSUME i > p, a \in p..(i - 1) PROVE a \in Covered(Cut(x, iv))
        BY <2>1, <3>1, <3>2, <4>2, Zenon
      <4>3. ASSUME q > j, a \in j..(q - 1) PROVE a \in Covered(Cut(x, iv))
        <5>1. Span(j, q) \in Cut(x, iv)
          BY <2>1, <4>3
        <5> QED BY <3>1, <3>2, <4>3, <5>1
      <4> QED BY <4>1, <4>2, <4>3
    <3> QED BY <3>3
  <2>7. \A a : \/ i > p /\ a \in p..(i - 1)
               \/ q > j /\ a \in j..(q - 1)
          <=> a \in (p..(q - 1)) \ (i..(j - 1))
    BY <1>1, <1>3, <2>2
  <2>8. Covered(Cut(x, iv)) = (p..(q - 1)) \ (i..(j - 1))
    BY <2>6, <2>7
  <2> QED BY <1>2, <1>6, <2>3, <2>4, <2>5, <2>8
<1> QED BY <1>7, <1>8

\* A sequence of the elements of a finite set, each once.
LEMMA SetToSeqIs ==
  ASSUME NEW S, IsFiniteSet(S)
  PROVE  SetToSeq(S) \in Seq(S) /\ Range(SetToSeq(S)) = S
<1>1. PICK n : n = Cardinality(S) /\ n \in Nat
  BY FS_CardinalityType
<1>2. PICK f : f \in Bijection(1..n, S)
  BY <1>1, FS_CardinalityType, Zenon DEF ExistsBijection
<1>3. f \in [1..n -> S] /\ IsInjective(f)
  BY <1>2, Zenon DEF Bijection, Injection
<1>4. PICK s : s = SetToSeq(S)
  OBVIOUS
<1>5. s \in [1..n -> S] /\ IsInjective(s)
  BY <1>1, <1>3, <1>4, Zenon DEF SetToSeq
<1>6. s \in Injection(1..n, S)
  BY <1>5, Zenon DEF Injection
<1>7. IsFiniteSet(1..n) /\ Cardinality(1..n) = n
  <2>1. 1 \in Int /\ n \in Int
    BY <1>1
  <2>2. PICK m : m = Cardinality(1..n)
    OBVIOUS
  <2>3. IsFiniteSet(1..n) /\ m = IF 1 > n THEN 0 ELSE n - 1 + 1
    BY <2>1, <2>2, FS_Interval
  <2>4. m = n
    BY ONLY <1>1, <2>3
  <2> QED BY <2>2, <2>3, <2>4, Zenon
<1>8. s \in Surjection(1..n, S)
  BY <1>1, <1>6, <1>7, FS_Injection
<1>9. s \in Seq(S) /\ Range(s) = S
  BY <1>1, <1>5, <1>8 DEF Surjection, Range
<1> QED BY <1>4, <1>9

\* What is left of a range after the first k intervals: spans that are apart,
\* of the bytes those do not hold.
First(c, k) == {c[i] : i \in 1..k}
LeftBy(L, c, k, b, e) ==
  L \subseteq SpansIn(b, e) /\ Apart(L) /\ Covered(L) = (b..(e - 1)) \ Covered(First(c, k))

\* The next interval cuts each of the spans that are left.
LEMMA LeftByNext ==
  ASSUME NEW b \in Nat, NEW e \in Nat, NEW c, NEW k \in Nat, Extent(c[k + 1]),
         NEW L, LeftBy(L, c, k, b, e)
  PROVE  LeftBy(UNION {Cut(x, c[k + 1]) : x \in L}, c, k + 1, b, e)
<1> DEFINE iv == c[k + 1]
           M == UNION {Cut(x, iv) : x \in L}
<1>1. L \subseteq SpansIn(b, e) /\ Apart(L) /\ Covered(L) = (b..(e - 1)) \ Covered(First(c, k))
  BY DEF LeftBy
<1>2. \A x \in L : /\ Cut(x, iv) \subseteq SpansIn(b, e) /\ Apart(Cut(x, iv))
                   /\ Covered(Cut(x, iv)) = Extends(x) \ Extends(iv)
                   /\ \A z \in Cut(x, iv) : x.begin <= z.begin /\ z.begin < z.end /\ z.end <= x.end
  BY <1>1, CutIs
<1>3. M \subseteq SpansIn(b, e)
  BY <1>2
<1>4. Apart(M)
  <2> SUFFICES ASSUME NEW z \in M, NEW w \in M, z # w PROVE ApartFrom(z, w)
    BY DEF Apart
  <2>1. PICK x \in L, y \in L : z \in Cut(x, iv) /\ w \in Cut(y, iv)
    OBVIOUS
  <2>2. CASE x = y
    BY <1>2, <2>1, <2>2, Zenon DEF Apart
  <2>3. CASE x # y
    <3>1. ApartFrom(x, y)
      BY <1>1, <2>3 DEF Apart
    <3>2. /\ x.begin <= z.begin /\ z.end <= x.end /\ y.begin <= w.begin /\ w.end <= y.end
      BY <1>2, <2>1
    <3>3. \A t \in {x, y, z, w} : t.begin \in Nat /\ t.end \in Nat
      <4>1. \A t \in SpansIn(b, e) : t.begin \in Nat /\ t.end \in Nat
        BY SpanIs DEF Span
      <4> QED BY <1>1, <1>3, <4>1
    <3> QED BY <3>1, <3>2, <3>3 DEF ApartFrom
  <2> QED BY <2>2, <2>3
<1>5. Covered(M) = (b..(e - 1)) \ Covered(First(c, k + 1))
  <2>1. \A a : a \in Covered(M) <=> \E x \in L : a \in Covered(Cut(x, iv))
    BY DEF Covered
  <2>2. \A a : a \in Covered(M) <=> \E x \in L : a \in Extends(x) \ Extends(iv)
    BY <1>2, <2>1, Zenon
  <2>3. \A a : a \in Covered(M) <=> a \in Covered(L) /\ a \notin Extends(iv)
    BY <2>2 DEF Covered
  <2>4. First(c, k + 1) = First(c, k) \cup {iv}
    <3>1. 1..(k + 1) = (1..k) \cup {k + 1}
      OBVIOUS
    <3> QED BY <3>1 DEF First
  <2>5. Covered(First(c, k + 1)) = Covered(First(c, k)) \cup Extends(iv)
    BY <2>4 DEF Covered
  <2> QED BY <1>1, <2>3, <2>5
<1> QED BY <1>3, <1>4, <1>5 DEF LeftBy

\* The rule by which the code cuts one interval after the other.
CutRule(F, c, n, b, e) ==
  F = [k \in 0..n |-> IF k = 0 THEN {Span(b, e)} ELSE UNION {Cut(x, c[k]) : x \in F[k - 1]}]

\* After any number of cuts the spans left are those of the rule.
LEMMA CutRuleHas ==
  ASSUME NEW c, NEW n \in Nat, NEW b, NEW e
  PROVE  \E F : CutRule(F, c, n, b, e)
<1> DEFINE Has(m) == \E F : CutRule(F, c, m, b, e)
           Fine == {m \in Nat : Has(m)}
<1>1. 0 \in Fine
  <2> DEFINE f == [k \in 0..0 |-> {Span(b, e)}]
  <2>1. f = [k \in 0..0 |-> IF k = 0 THEN {Span(b, e)} ELSE UNION {Cut(x, c[k]) : x \in f[k - 1]}]
    OBVIOUS
  <2> QED BY <2>1 DEF CutRule
<1>2. ASSUME NEW m \in Nat, m \in Fine PROVE m + 1 \in Fine
  <2>1. PICK f : CutRule(f, c, m, b, e)
    BY <1>2
  <2>2. \A k \in 0..m : f[k] = IF k = 0 THEN {Span(b, e)} ELSE UNION {Cut(x, c[k]) : x \in f[k - 1]}
    BY <2>1 DEF CutRule
  <2> DEFINE g == [k \in 0..m + 1 |->
                     IF k = m + 1 THEN UNION {Cut(x, c[m + 1]) : x \in f[m]} ELSE f[k]]
  <2>3. \A k \in 0..m + 1 :
          g[k] = IF k = 0 THEN {Span(b, e)} ELSE UNION {Cut(x, c[k]) : x \in g[k - 1]}
    <3> SUFFICES ASSUME NEW k \in 0..m + 1
                 PROVE  g[k] = IF k = 0 THEN {Span(b, e)} ELSE UNION {Cut(x, c[k]) : x \in g[k - 1]}
      OBVIOUS
    <3>1. CASE k = m + 1
      <4>1. g[k - 1] = f[m] /\ k # 0
        BY <3>1
      <4> QED BY <3>1, <4>1
    <3>2. CASE k # m + 1
      <4>1. k \in 0..m /\ g[k] = f[k]
        BY <3>2
      <4>2. k # 0 => k - 1 \in 0..m + 1 /\ k - 1 # m + 1
        BY <4>1
      <4>3. k # 0 => g[k - 1] = f[k - 1]
        BY <4>2
      <4> HIDE DEF g
      <4> QED BY <2>2, <4>1, <4>3
    <3> QED BY <3>1, <3>2
  <2>4. g = [k \in 0..m + 1 |-> g[k]]
    OBVIOUS
  <2> HIDE DEF g
  <2>5. CutRule(g, c, m + 1, b, e)
    BY <2>3, <2>4 DEF CutRule
  <2> QED BY <2>5
<1> HIDE DEF Fine
<1>3. \A m \in Nat : m \in Fine
  BY <1>1, <1>2, InductionInSet
<1> QED BY <1>3 DEF Fine

\* What _get_ranges returns are spans that are apart, of exactly the bytes of
\* the range that no interval of the cache holds.
LEMMA UncachedIs ==
  ASSUME NEW C, IsFiniteSet(C), \A iv \in C : Extent(iv),
         NEW b \in Nat, NEW e \in Nat, b < e
  PROVE  /\ Uncached(C, b, e) \subseteq SpansIn(b, e) /\ Apart(Uncached(C, b, e))
         /\ Covered(Uncached(C, b, e)) = (b..(e - 1)) \ Covered(C)
<1> DEFINE O == Overlap(C, b, e)
           c == SetToSeq(O)
           n == Len(c)
           F == CHOOSE f : CutRule(f, c, n, b, e)
<1>1. O \subseteq C /\ IsFiniteSet(O)
  <2>1. O \in SUBSET C
    BY DEF Overlap
  <2> QED BY <2>1, FS_Subset
<1>2. c \in Seq(O) /\ Range(c) = O
  <2> HIDE DEF O
  <2> QED BY <1>1, SetToSeqIs
<1>3. n \in Nat /\ DOMAIN c = 1..n /\ \A i \in 1..n : c[i] \in O
  BY <1>2
<1>4. Uncached(C, b, e) = F[n]
  BY DEF Uncached, CutRule
<1> HIDE DEF c, n
<1>5. CutRule(F, c, n, b, e)
  BY <1>3, CutRuleHas
<1> HIDE DEF F, O
<1>6. /\ F[0] = {Span(b, e)}
      /\ \A k \in Nat : k + 1 <= n => F[k + 1] = UNION {Cut(x, c[k + 1]) : x \in F[k]}
  <2>1. \A k \in 0..n : F[k] = IF k = 0 THEN {Span(b, e)} ELSE UNION {Cut(x, c[k]) : x \in F[k - 1]}
    BY <1>5 DEF CutRule
  <2>2. 0 \in 0..n
    BY <1>3
  <2>3. F[0] = {Span(b, e)}
    BY <2>1, <2>2
  <2>4. ASSUME NEW k \in Nat, k + 1 <= n PROVE F[k + 1] = UNION {Cut(x, c[k + 1]) : x \in F[k]}
    <3>1. PICK m : m = k + 1 /\ m \in 0..n /\ m # 0 /\ m - 1 = k
      BY <1>3, <2>4
    <3>2. F[m] = UNION {Cut(x, c[m]) : x \in F[m - 1]}
      BY <2>1, <3>1, Zenon
    <3> QED BY <3>1, <3>2
  <2> QED BY <2>3, <2>4
<1> DEFINE Fine == {k \in Nat : k <= n => LeftBy(F[k], c, k, b, e)}
<1>7. 0 \in Fine
  <2>1. {Span(b, e)} \subseteq SpansIn(b, e)
    BY IsSpan
  <2>2. Apart({Span(b, e)})
    BY DEF Apart
  <2>3. Covered({Span(b, e)}) = b..(e - 1)
    BY DEF Covered, Extends, Span
  <2>4. Covered(First(c, 0)) = {}
    BY DEF Covered, First
  <2> QED BY <1>6, <2>1, <2>2, <2>3, <2>4 DEF LeftBy
<1>8. ASSUME NEW k \in Nat, k \in Fine PROVE k + 1 \in Fine
  <2> SUFFICES ASSUME k + 1 <= n PROVE LeftBy(F[k + 1], c, k + 1, b, e)
    OBVIOUS
  <2>1. LeftBy(F[k], c, k, b, e)
    BY <1>3, <1>8
  <2>2. Extent(c[k + 1])
    <3>1. k + 1 \in 1..n
      BY <1>3
    <3> QED BY <1>1, <1>3, <3>1
  <2>3. LeftBy(UNION {Cut(x, c[k + 1]) : x \in F[k]}, c, k + 1, b, e)
    BY <2>1, <2>2, LeftByNext
  <2> QED BY <1>6, <2>3
<1> HIDE DEF Fine
<1>9. \A k \in Nat : k \in Fine
  BY <1>7, <1>8, InductionInSet
<1>10. LeftBy(F[n], c, n, b, e)
  BY <1>3, <1>9 DEF Fine
<1>11. First(c, n) = O
  BY <1>2, <1>3 DEF First, Range
<1>12. ASSUME NEW a \in b..(e - 1) PROVE a \in Covered(O) <=> a \in Covered(C)
  <2>1. a \in Covered(O) => a \in Covered(C)
    BY <1>1 DEF Covered
  <2>2. ASSUME NEW iv \in C, a \in Extends(iv) PROVE iv \in O
    BY <2>2 DEF O, Overlap, Extends, Extent
  <2> QED BY <2>1, <2>2 DEF Covered
<1>13. Covered(F[n]) = (b..(e - 1)) \ Covered(C)
  BY <1>10, <1>11, <1>12 DEF LeftBy
<1> QED BY <1>4, <1>10, <1>13 DEF LeftBy

-----------------------------------------------------------------------------
\* _merge_data: the bytes of a range out of the intervals that cover it.

\* An interval with the bytes of a map.
From(iv, F) ==
  /\ Extent(iv) /\ Extends(iv) \subseteq Addresses /\ iv.data = BytesOf(F, iv.begin, iv.end)
  /\ iv = Interval(iv.begin, iv.end, iv.data)

\* The bounds and the data of such an interval.
LEMMA FromIs ==
  ASSUME NEW F \in ByteMap, NEW iv, From(iv, F)
  PROVE  /\ iv.begin \in Nat /\ iv.end \in Nat /\ iv.begin < iv.end /\ Fits(iv.begin, iv.end)
         /\ iv.data \in Seq(Values) /\ Len(iv.data) = iv.end - iv.begin
<1>1. iv.begin \in Nat /\ iv.end \in Nat /\ iv.begin < iv.end /\ Extends(iv) \subseteq Addresses
      /\ iv.data = BytesOf(F, iv.begin, iv.end)
  BY DEF From, Extent
<1>2. Fits(iv.begin, iv.end)
  BY <1>1 DEF Fits, Extends
<1>3. IsBytes(iv.data, F, iv.begin, iv.end)
  BY <1>1, <1>2, BytesAre
<1> QED BY <1>1, <1>2, <1>3 DEF IsBytes

\* Intervals that each begin where the one before ends.
Chain(q, S, x, y) ==
  /\ q \in Seq(S) /\ x \in Nat /\ y \in Nat
  /\ Len(q) = 0 => x = y
  /\ Len(q) # 0 => q[1].begin = x /\ q[Len(q)].end = y
  /\ \A i \in 1..Len(q) - 1 : q[i].end = q[i + 1].begin

\* A chain without its first interval is a chain, ...
LEMMA ChainTail ==
  ASSUME NEW S, NEW q, NEW x, NEW y, Chain(q, S, x, y), Len(q) # 0, q[1].end \in Nat
  PROVE  Chain(Tail(q), S, q[1].end, y)
<1>1. /\ q \in Seq(S) /\ y \in Nat /\ q # << >> /\ q[Len(q)].end = y
      /\ \A i \in 1..Len(q) - 1 : q[i].end = q[i + 1].begin
  BY DEF Chain
<1>2. /\ Tail(q) \in Seq(S) /\ Len(Tail(q)) = Len(q) - 1
      /\ \A i \in 1..Len(q) - 1 : Tail(q)[i] = q[i + 1]
  BY <1>1, DropHead
<1>3. PICK n \in Nat, t \in {Tail(q)} : n = Len(q) /\ n # 0 /\ t = Tail(q)
  <2>1. Len(q) \in Nat /\ Len(q) # 0
    BY <1>1
  <2> QED BY <2>1, Zenon
<1>4. t \in Seq(S) /\ Len(t) = n - 1 /\ \A i \in 1..n - 1 : t[i] = q[i + 1]
  BY <1>2, <1>3
<1>5. Len(t) = 0 => q[1].end = y
  <2>1. Len(t) = 0 => n = 1
    BY <1>3, <1>4
  <2> QED BY <1>1, <1>3, <2>1
<1>6. ASSUME Len(t) # 0 PROVE t[1].begin = q[1].end /\ t[Len(t)].end = y
  <2>1. 1 \in 1..n - 1 /\ n - 1 \in 1..n - 1 /\ (n - 1) + 1 = n /\ 1 + 1 = 2
    BY <1>3, <1>4, <1>6
  <2>2. t[1] = q[2] /\ t[n - 1] = q[n]
    BY <1>4, <2>1
  <2>3. q[1].end = q[2].begin
    BY <1>1, <1>3, <2>1
  <2> QED BY <1>1, <1>3, <1>4, <2>2, <2>3
<1>7. ASSUME NEW i \in 1..Len(t) - 1 PROVE t[i].end = t[i + 1].begin
  <2>1. PICK j : j = i + 1 /\ i \in 1..n - 1 /\ j \in 1..n - 1
    BY <1>3, <1>4
  <2>2. t[i] = q[j] /\ t[j] = q[j + 1]
    BY <1>4, <2>1
  <2>3. q[j].end = q[j + 1].begin
    BY <1>1, <1>3, <2>1
  <2> QED BY <2>1, <2>2, <2>3
<1>8. Chain(t, S, q[1].end, y)
  BY <1>1, <1>4, <1>5, <1>6, <1>7 DEF Chain
<1> QED BY <1>3, <1>8

\* ... and so is one without its last.
LEMMA ChainFront ==
  ASSUME NEW S, NEW q, NEW x, NEW y, Chain(q, S, x, y), Len(q) # 0, q[Len(q)].begin \in Nat
  PROVE  Chain(Front(q), S, x, q[Len(q)].begin)
<1>1. /\ q \in Seq(S) /\ x \in Nat /\ q[1].begin = x
      /\ \A i \in 1..Len(q) - 1 : q[i].end = q[i + 1].begin
  BY DEF Chain
<1>2. PICK n \in Nat, t \in {Front(q)} : n = Len(q) /\ n # 0 /\ t = Front(q)
  <2>1. Len(q) \in Nat /\ Len(q) # 0
    BY <1>1
  <2> QED BY <2>1, Zenon
<1>3. t \in Seq(S) /\ Len(t) = n - 1 /\ \A i \in 1..n - 1 : t[i] = q[i]
  <2>1. n - 1 \in 0..Len(q)
    BY <1>2
  <2>2. t = SubSeq(q, 1, n - 1)
    BY <1>2 DEF Front
  <2> QED BY <1>1, <2>1, <2>2, TakeFirst
<1>4. ASSUME Len(t) = 0 PROVE x = q[n].begin
  <2>1. n = 1
    <3>1. n - 1 = 0
      BY <1>3, <1>4, Zenon
    <3> QED BY <3>1
  <2> QED BY <1>1, <2>1
<1>5. ASSUME Len(t) # 0 PROVE t[1].begin = x /\ t[Len(t)].end = q[n].begin
  <2>1. 1 \in 1..n - 1 /\ n - 1 \in 1..n - 1 /\ (n - 1) + 1 = n
    BY <1>2, <1>3, <1>5
  <2>2. t[1] = q[1] /\ t[n - 1] = q[n - 1]
    BY <1>3, <2>1
  <2>3. q[n - 1].end = q[n].begin
    BY <1>1, <1>2, <2>1
  <2> QED BY <1>1, <1>3, <2>2, <2>3
<1>6. ASSUME NEW i \in 1..Len(t) - 1 PROVE t[i].end = t[i + 1].begin
  <2>1. i \in 1..n - 1 /\ i + 1 \in 1..n - 1
    BY <1>2, <1>3
  <2> QED BY <1>1, <1>2, <1>3, <2>1
<1>7. Chain(t, S, x, q[n].begin)
  BY <1>1, <1>2, <1>3, <1>4, <1>5, <1>6 DEF Chain
<1> QED BY <1>2, <1>7

\* The data of a chain, one after the other, are the bytes of its whole span.
LEMMA ChainData ==
  ASSUME NEW F \in ByteMap, NEW S, \A iv \in S : From(iv, F),
         NEW q, NEW x, NEW y, Chain(q, S, x, y)
  PROVE  /\ FlattenSeq([k \in DOMAIN q |-> q[k].data]) = BytesOf(F, x, y)
         /\ x <= y /\ x..(y - 1) \subseteq Addresses
<1>1. /\ q \in Seq(S) /\ x \in Nat /\ y \in Nat
      /\ Len(q) = 0 => x = y
      /\ Len(q) # 0 => q[1].begin = x /\ q[Len(q)].end = y
      /\ \A i \in 1..Len(q) - 1 : q[i].end = q[i + 1].begin
  BY DEF Chain
<1>2. PICK n \in Nat, d \in {[k \in DOMAIN q |-> q[k].data]} :
        n = Len(q) /\ d = [k \in DOMAIN q |-> q[k].data]
  <2>1. Len(q) \in Nat
    BY <1>1
  <2> QED BY <2>1, Zenon
<1>3. d \in Seq(Seq(Values)) /\ Len(d) = n /\ \A k \in 1..n : d[k] = q[k].data
  <2>1. DOMAIN q = 1..n /\ \A k \in 1..n : q[k] \in S
    BY <1>1, <1>2
  <2>2. \A k \in 1..n : q[k].data \in Seq(Values)
    BY <2>1, FromIs
  <2>3. d \in [1..n -> Seq(Values)]
    BY <1>2, <2>1, <2>2
  <2> QED BY <1>2, <2>1, <2>3
<1>4. CASE n = 0
  <2>1. x = y /\ 1..(y - x) = {} /\ x..(y - 1) = {}
    BY <1>1, <1>2, <1>4
  <2>2. BytesOf(F, x, y) = << >>
    BY <2>1 DEF BytesOf
  <2>3. FlattenSeq(d) = d /\ d = << >>
    <3>1. Len(d) = 0
      BY <1>3, <1>4
    <3>2. d = << >>
      <4>1. PICK T : T = Seq(Values)
        OBVIOUS
      <4>2. d \in Seq(T)
        BY <1>3, <4>1
      <4> QED BY <3>1, <4>2, LenZero
    <3> QED BY <3>1, <3>2, Zenon DEF FlattenSeq
  <2>4. FlattenSeq([k \in DOMAIN q |-> q[k].data]) = BytesOf(F, x, y)
    BY <1>2, <2>2, <2>3, Zenon
  <2>5. x <= y
    BY <1>1, <2>1
  <2>6. x..(y - 1) \subseteq Addresses
    BY <2>1
  <2> QED BY <2>4, <2>5, <2>6
<1>5. CASE n # 0
  <2>1. d # << >>
    BY <1>3, <1>5
  <2>2. PICK G : FlattenRule(d, G) /\ FlattenSeq(d) = G[Len(d)]
    <3>1. PICK T : T = Seq(Values)
      OBVIOUS
    <3>2. d \in Seq(T)
      BY <1>3, <3>1
    <3> QED BY <2>1, <3>2, FlattenIs
  <2>3. \A k \in 1..n : G[k] = IF k = 1 THEN d[k] ELSE G[k - 1] \o d[k]
    BY <1>3, <2>2, Zenon DEF FlattenRule
  <2>4. \A k \in 1..n : /\ q[k].begin \in Nat /\ q[k].end \in Nat /\ q[k].begin < q[k].end
                        /\ Fits(q[k].begin, q[k].end)
                        /\ d[k] = BytesOf(F, q[k].begin, q[k].end)
    <3>1. \A k \in 1..n : From(q[k], F)
      BY <1>1, <1>2
    <3> QED BY <1>3, <3>1, FromIs DEF From
  <2> DEFINE Upto(k) == G[k] = BytesOf(F, x, q[k].end) /\ Fits(x, q[k].end)
             Fine == {k \in Nat : k < n => Upto(k + 1)}
  <2>5. 0 \in Fine
    <3>1. 1 \in 1..n /\ q[1].begin = x
      BY <1>1, <1>2, <1>5
    <3>2. G[1] = d[1]
      BY <2>3, <3>1
    <3> QED BY <2>4, <3>1, <3>2
  <2>6. ASSUME NEW k \in Nat, k \in Fine PROVE k + 1 \in Fine
    <3> SUFFICES ASSUME k + 1 < n PROVE Upto(k + 1 + 1)
      OBVIOUS
    <3>1. PICK i : i = k + 1 /\ i \in 1..n /\ i + 1 \in 1..n /\ i \in 1..n - 1 /\ k < n
      BY <1>2
    <3>2. G[i] = BytesOf(F, x, q[i].end) /\ Fits(x, q[i].end)
      BY <2>6, <3>1
    <3>3. G[i + 1] = G[i] \o d[i + 1]
      <4>1. i + 1 # 1 /\ (i + 1) - 1 = i
        BY <3>1
      <4> QED BY <2>3, <3>1, <4>1
    <3>4. PICK m, z : m = q[i].end /\ z = q[i + 1].end /\ m = q[i + 1].begin
      BY <1>1, <1>2, <3>1
    <3>5. m \in Nat /\ z \in Nat /\ m < z /\ Fits(m, z) /\ d[i + 1] = BytesOf(F, m, z)
      BY <2>4, <3>1, <3>4
    <3>6. G[i + 1] = BytesOf(F, x, m) \o BytesOf(F, m, z) /\ Fits(x, m)
      BY <3>2, <3>3, <3>4, <3>5
    <3>7. Fits(x, z) /\ x <= m /\ m <= z
      <4>1. x \in Nat /\ x <= m /\ x..(m - 1) \subseteq Addresses /\ m..(z - 1) \subseteq Addresses
        BY <3>5, <3>6 DEF Fits
      <4>2. \A a \in x..(z - 1) : a \in x..(m - 1) \/ a \in m..(z - 1)
        BY <3>5, <4>1
      <4> QED BY <3>5, <4>1, <4>2 DEF Fits
    <3>8. G[i + 1] = BytesOf(F, x, z)
      <4>1. InTurn(x, m, m, z)
        BY <1>1, <3>5, <3>7 DEF InTurn
      <4> QED BY <3>6, <3>7, <4>1, BytesJoin, Zenon
    <3> QED BY <3>1, <3>4, <3>7, <3>8
  <2> HIDE DEF Fine
  <2>7. \A k \in Nat : k \in Fine
    BY <2>5, <2>6, InductionInSet
  <2>8. Upto(n)
    <3>1. n - 1 \in Nat /\ n - 1 < n /\ (n - 1) + 1 = n
      BY <1>2, <1>5
    <3>2. Upto((n - 1) + 1)
      BY <2>7, <3>1 DEF Fine
    <3> QED BY <3>1, <3>2
  <2>9. FlattenSeq(d) = BytesOf(F, x, y) /\ Fits(x, y)
    BY <1>1, <1>2, <1>3, <1>5, <2>2, <2>8
  <2> QED BY <1>2, <2>9 DEF Fits
<1> QED BY <1>4, <1>5

\* No bytes.
LEMMA NoBytes ==
  ASSUME NEW F, NEW x \in Nat
  PROVE  BytesOf(F, x, x) = << >>
<1>1. 1..(x - x) = {}
  OBVIOUS
<1> QED BY <1>1 DEF BytesOf

\* _merge_data returns the bytes of a range from the intervals that cover it.
LEMMA MergeIs ==
  ASSUME NEW F \in ByteMap, NEW S, \A iv \in S : From(iv, F),
         NEW s, NEW x, NEW y, Chain(s, S, x, y), Len(s) # 0,
         NEW b \in Nat, NEW e \in Nat, b < e, x <= b, e <= y,
         s[1].end > b, s[Len(s)].begin < e
  PROVE  MergeData(s, b, e) = BytesOf(F, b, e)
<1> DEFINE first == Head(s)
           lead == s # << >> /\ first.begin < b
           mid == IF lead THEN Tail(s) ELSE s
           last == Last(mid)
           trail == mid # << >> /\ last.end > e
           whole == IF trail THEN Front(mid) ELSE mid
           Inside == SubSeq(first.data, b - first.begin + 1, e - first.begin)
           Before == IF lead THEN SubSeq(first.data, b - first.begin + 1, Len(first.data))
                     ELSE << >>
           Whole == FlattenSeq([k \in DOMAIN whole |-> whole[k].data])
           After == IF trail THEN SubSeq(last.data, 1, e - last.begin) ELSE << >>
<1>1. MergeData(s, b, e) = IF lead /\ first.end > e THEN Inside ELSE Before \o Whole \o After
  BY DEF MergeData
<1> HIDE DEF Inside, Before, Whole, After, whole, trail, last, mid
<1>2. s \in Seq(S) /\ x \in Nat /\ y \in Nat /\ s[1].begin = x /\ s[Len(s)].end = y
  BY DEF Chain
<1>3. PICK n \in Nat : n = Len(s) /\ n # 0 /\ 1 \in 1..n /\ n \in 1..n
  <2>1. Len(s) \in Nat /\ Len(s) # 0 /\ 1 \in 1..Len(s) /\ Len(s) \in 1..Len(s)
    BY <1>2
  <2> QED BY <2>1, Zenon
<1>4. s # << >> /\ first = s[1] /\ first \in S /\ s[n] \in S
  BY <1>2, <1>3
<1>5. x..(y - 1) \subseteq Addresses
  BY ChainData
<1>6. PICK p \in Nat, q \in Nat, r \in {first.data} :
          p = first.begin /\ q = first.end /\ r = first.data
  BY <1>4, FromIs
<1>7. /\ p = x /\ p <= b /\ b < q /\ p < q /\ Fits(p, q) /\ Len(r) = q - p
      /\ r = BytesOf(F, p, q)
  <2>1. From(first, F)
    BY <1>4
  <2> QED BY <1>2, <1>4, <1>6, <2>1, FromIs DEF From
<1>8. PICK u \in Nat, v \in {s[n].data} : u = s[n].begin /\ v = s[n].data
  BY <1>4, FromIs
<1>9. /\ u < e /\ u < y /\ Fits(u, y) /\ v = BytesOf(F, u, y)
  <2>1. From(s[n], F)
    BY <1>4
  <2> QED BY <1>2, <1>3, <1>8, <2>1, FromIs DEF From
<1>10. lead <=> p < b
  BY <1>4, <1>6
<1>11. Fits(b, e)
  <2>1. \A a \in b..(e - 1) : a \in x..(y - 1)
    BY <1>2
  <2> QED BY <1>5, <2>1 DEF Fits
<1>12. CASE lead /\ q > e
  <2>1. InTurn(p, b, e, q)
    BY <1>7, <1>12 DEF InTurn
  <2>2. PartRight(F, p, b, e, q)
    BY <1>7, <2>1, BytesPart, Zenon
  <2>3. Inside = BytesOf(F, b, e)
    BY <1>6, <1>7, <2>2 DEF Inside, PartRight
  <2> QED BY <1>1, <1>6, <1>12, <2>3
<1>13. CASE ~(lead /\ q > e)
  <2>1. PICK c \in Nat : /\ Chain(mid, S, c, y) /\ b <= c /\ c <= e
                         /\ Before = BytesOf(F, b, c)
    <3>1. CASE lead
      <4>1. Chain(mid, S, q, y)
        BY <1>3, <1>4, <1>6, <3>1, ChainTail DEF mid
      <4>2. Before = BytesOf(F, b, q)
        <5>1. InTurn(p, b, q, q)
          BY <1>7 DEF InTurn
        <5>2. PartRight(F, p, b, q, q)
          BY <1>7, <5>1, BytesPart, Zenon
        <5> QED BY <1>6, <1>7, <3>1, <5>2 DEF Before, PartRight
      <4>3. b <= q /\ q <= e
        BY <1>7, <1>13, <3>1
      <4> QED BY <4>1, <4>2, <4>3
    <3>2. CASE ~lead
      <4>1. x = b
        BY <1>2, <1>7, <1>10, <3>2
      <4>2. Before = << >> /\ mid = s
        BY <3>2 DEF Before, mid
      <4>3. Before = BytesOf(F, b, b)
        BY <4>2, NoBytes
      <4>4. Chain(mid, S, b, y)
        BY <4>1, <4>2
      <4> QED BY <4>3, <4>4
    <3> QED BY <3>1, <3>2
  <2>2. mid \in Seq(S) /\ (mid # << >> => last = s[n])
    <3>1. CASE lead
      BY <1>2, <1>3, <1>4, <3>1, LastOfTail DEF Last, last, mid
    <3>2. CASE ~lead
      BY <1>2, <1>3, <3>2 DEF Last, last, mid
    <3> QED BY <3>1, <3>2
  <2>3. mid = << >> => c = y
    <3>1. mid = << >> => Len(mid) = 0
      OBVIOUS
    <3> QED BY <2>1, <3>1 DEF Chain
  <2>4. mid # << >> => Len(mid) # 0 /\ mid[Len(mid)] = s[n]
    <3>1. mid # << >> => Len(mid) # 0
      BY <2>2, LenZero
    <3> QED BY <2>2, <3>1 DEF Last, last
  <2>5. trail <=> mid # << >> /\ y > e
    BY <1>2, <1>3, <2>2 DEF trail
  <2>6. PICK d \in Nat : /\ Chain(whole, S, c, d) /\ d <= e
                         /\ After = BytesOf(F, d, e)
    <3>1. CASE trail
      <4>1. Chain(whole, S, c, u)
        BY <1>8, <2>1, <2>4, <3>1, ChainFront DEF whole, trail
      <4>2. After = BytesOf(F, u, e)
        <5>0. InTurn(u, u, e, y)
          BY <1>2, <1>9 DEF InTurn
        <5>1. PartRight(F, u, u, e, y)
          BY <1>9, <5>0, BytesPart, Zenon
        <5>2. u - u + 1 = 1
          OBVIOUS
        <5>3. SubSeq(v, 1, e - u) = BytesOf(F, u, e)
          BY <1>9, <5>1, <5>2 DEF PartRight
        <5> QED BY <1>8, <2>2, <3>1, <5>3 DEF After, trail
      <4> QED BY <1>9, <4>1, <4>2
    <3>2. CASE ~trail
      <4>1. y = e
        BY <1>2, <2>1, <2>3, <2>5, <3>2
      <4>2. Chain(whole, S, c, e)
        BY <2>1, <3>2, <4>1 DEF whole
      <4>3. After = BytesOf(F, e, e)
        BY <3>2, NoBytes DEF After
      <4> QED BY <4>2, <4>3
    <3> QED BY <3>1, <3>2
  <2>7. Whole = BytesOf(F, c, d) /\ c <= d
    <3>1. Chain(whole, S, c, d)
      BY <2>6
    <3>2. FlattenSeq([k \in DOMAIN whole |-> whole[k].data]) = BytesOf(F, c, d) /\ c <= d
      <4>1. \A iv \in S : From(iv, F)
        OBVIOUS
      <4>2. PICK w, z : w = whole /\ z = d /\ Chain(w, S, c, z)
        BY <3>1
      <4>3. FlattenSeq([k \in DOMAIN w |-> w[k].data]) = BytesOf(F, c, z) /\ c <= z
        BY ONLY F \in ByteMap, <4>1, <4>2, ChainData
      <4> QED BY <4>2, <4>3
    <3> QED BY <3>2 DEF Whole
  <2>8. BytesOf(F, b, c) \o BytesOf(F, c, d) = BytesOf(F, b, d)
    <3>1. Fits(b, d)
      <4>1. \A a \in b..(d - 1) : a \in b..(e - 1)
        BY <2>6
      <4> QED BY <1>11, <2>1, <2>7, <4>1 DEF Fits
    <3>2. InTurn(b, c, c, d)
      BY <2>1, <2>6, <2>7 DEF InTurn
    <3> QED BY <3>1, <3>2, BytesJoin, Zenon
  <2>9. BytesOf(F, b, d) \o BytesOf(F, d, e) = BytesOf(F, b, e)
    <3>1. InTurn(b, d, d, e)
      BY <2>1, <2>6, <2>7 DEF InTurn
    <3> QED BY <1>11, <3>1, BytesJoin, Zenon
  <2>10. Before \o Whole \o After = BytesOf(F, b, e)
    BY <2>1, <2>6, <2>7, <2>8, <2>9
  <2>11. ~(lead /\ first.end > e)
    BY <1>6, <1>13
  <2> QED BY <1>1, <2>10, <2>11
<1> QED BY <1>12, <1>13

\* Intervals that overlap a range, are apart and cover it are, in their order, a
\* chain around it.
LEMMA SortedChain ==
  ASSUME NEW F \in ByteMap, NEW S, IsFiniteSet(S), \A iv \in S : From(iv, F), Apart(S),
         NEW b \in Nat, NEW e \in Nat, b < e,
         \A iv \in S : iv.begin < e /\ b < iv.end, b..(e - 1) \subseteq Covered(S),
         NEW s, s = Sorted(S)
  PROVE  /\ s \in Seq(S) /\ Len(s) # 0 /\ Chain(s, S, s[1].begin, s[Len(s)].end)
         /\ s[1].begin <= b /\ e <= s[Len(s)].end
         /\ s[1].end > b /\ s[Len(s)].begin < e
<1>1. \A iv \in S : Extent(iv)
  BY DEF From
<1>2. /\ s \in Seq(S) /\ Range(s) = S
      /\ \A i, j \in 1..Len(s) : i < j => s[i].end <= s[j].begin
  BY <1>1, SortedIs
<1>3. PICK n \in Nat : n = Len(s)
  <2>1. Len(s) \in Nat
    BY <1>2
  <2> QED BY <2>1, Zenon
<1>4. /\ \A i \in 1..n : /\ s[i] \in S /\ s[i].begin \in Nat /\ s[i].end \in Nat
                         /\ s[i].begin < s[i].end /\ s[i].begin < e /\ b < s[i].end
      /\ \A i, j \in 1..n : i < j => s[i].end <= s[j].begin
  <2>1. \A i \in 1..n : s[i] \in S
    BY <1>2, <1>3
  <2>2. \A iv \in S : /\ iv.begin \in Nat /\ iv.end \in Nat
                      /\ iv.begin < iv.end /\ iv.begin < e /\ b < iv.end
    BY <1>1 DEF Extent
  <2> QED BY <1>2, <1>3, <2>1, <2>2, Zenon
<1>5. ASSUME NEW a \in b..(e - 1)
      PROVE  \E j \in 1..n : s[j].begin <= a /\ a < s[j].end
  <2>1. PICK iv \in S : a \in Extends(iv)
    BY DEF Covered
  <2>2. iv.begin <= a /\ a < iv.end
    BY <1>1, <2>1 DEF Extends, Extent
  <2>3. PICK j \in 1..n : iv = s[j]
    BY <1>2, <1>3 DEF Range
  <2> QED BY <2>2, <2>3
<1>6. n # 0 /\ 1 \in 1..n /\ n \in 1..n
  <2>1. b \in b..(e - 1)
    OBVIOUS
  <2>2. PICK j \in 1..n : s[j].begin <= b
    BY <1>5, <2>1
  <2> QED BY <2>2
<1>7. s[1].begin <= b
  <2>1. b \in b..(e - 1)
    OBVIOUS
  <2>2. PICK j \in 1..n : s[j].begin <= b /\ b < s[j].end
    BY <1>5, <2>1
  <2>3. CASE j = 1
    BY <2>2, <2>3
  <2>4. CASE j # 1
    <3>1. s[1].end <= s[j].begin /\ b < s[1].end
      BY <1>4, <1>6, <2>4
    <3>2. s[1].end \in Nat /\ s[j].begin \in Nat
      BY <1>4, <1>6
    <3> QED BY <2>2, <3>1, <3>2
  <2> QED BY <2>3, <2>4
<1>8. e <= s[n].end
  <2>1. e - 1 \in b..(e - 1)
    OBVIOUS
  <2>2. PICK j \in 1..n : s[j].begin <= e - 1 /\ e - 1 < s[j].end
    BY <1>5, <2>1
  <2>3. CASE j = n
    <3>1. s[n].end \in Nat /\ e - 1 < s[n].end
      BY <1>4, <2>2, <2>3
    <3> QED BY <3>1
  <2>4. CASE j # n
    <3>1. s[j].end <= s[n].begin /\ s[n].begin < e
      BY <1>4, <1>6, <2>4
    <3>2. s[j].end \in Nat /\ s[n].begin \in Nat
      BY <1>4, <1>6
    <3> QED BY <2>2, <3>1, <3>2
  <2> QED BY <2>3, <2>4
<1>9. ASSUME NEW i \in 1..n - 1 PROVE s[i].end = s[i + 1].begin
  <2>1. i \in 1..n /\ i + 1 \in 1..n /\ i < i + 1
    BY <1>3
  <2>2. PICK a \in Nat, c \in Nat : a = s[i].end /\ c = s[i + 1].begin
    BY <1>4, <2>1
  <2>3. a <= c /\ b < a /\ c < e
    BY <1>4, <2>1, <2>2
  <2>4. ASSUME a # c PROVE FALSE
    <3>1. a \in b..(e - 1)
      BY <2>3, <2>4
    <3>2. PICK j \in 1..n : s[j].begin <= a /\ a < s[j].end
      BY <1>5, <3>1
    <3>3. s[j].begin \in Nat /\ s[j].end \in Nat /\ s[j].begin < s[j].end
      BY <1>4
    <3>4. CASE j = i
      BY <2>2, <3>2, <3>4
    <3>5. CASE j < i
      <4>1. s[j].end <= s[i].begin /\ s[i].begin < s[i].end /\ s[i].begin \in Nat
        BY <1>4, <2>1, <3>5
      <4> QED BY <2>2, <3>2, <3>3, <4>1
    <3>6. CASE j = i + 1
      BY <2>2, <2>3, <2>4, <3>2, <3>6
    <3>7. CASE i + 1 < j
      <4>1. s[i + 1].end <= s[j].begin /\ s[i + 1].begin < s[i + 1].end /\ s[i + 1].end \in Nat
        BY <1>4, <2>1, <3>7
      <4> QED BY <2>2, <2>3, <3>2, <3>3, <4>1
    <3> QED BY <3>4, <3>5, <3>6, <3>7
  <2> QED BY <2>2, <2>4
<1>10. Chain(s, S, s[1].begin, s[n].end)
  BY <1>2, <1>3, <1>4, <1>6, <1>9 DEF Chain
<1> QED BY <1>2, <1>3, <1>4, <1>6, <1>7, <1>8, <1>10

\* The intervals of a cache, with the bytes of a map.
CacheOf(C, F) == IsFiniteSet(C) /\ (\A iv \in C : From(iv, F)) /\ Apart(C)
ShowsRest(view, C, F, b, e) == \A a \in (b..(e - 1)) \ Covered(C) : view[a] = F[a]

\* What _read_uncached reads: intervals that are apart from the cache's, and
\* with them cover the range.
LEMMA ReadUncachedIs ==
  ASSUME NEW F \in ByteMap, NEW C, CacheOf(C, F), NEW b, NEW e, Fits(b, e), b < e,
         NEW view, ShowsRest(view, C, F, b, e),
         NEW R, R = ReadUncached(C, view, b, e)
  PROVE  /\ CacheOf(C \cup R, F) /\ b..(e - 1) \subseteq Covered(C \cup R)
         /\ Covered(R) \subseteq (b..(e - 1)) \ Covered(C)
         /\ \A iv \in R : b <= iv.begin /\ iv.end <= e
<1>1. IsFiniteSet(C) /\ (\A iv \in C : From(iv, F) /\ Extent(iv)) /\ Apart(C)
  BY DEF CacheOf, From
<1>2. b \in Nat /\ e \in Nat /\ b..(e - 1) \subseteq Addresses
  BY DEF Fits
<1>3. PICK U : U = Uncached(C, b, e)
  OBVIOUS
<1>4. U \subseteq SpansIn(b, e) /\ Apart(U) /\ Covered(U) = (b..(e - 1)) \ Covered(C)
  BY <1>1, <1>2, <1>3, UncachedIs
<1> DEFINE Of(x) == Interval(x.begin, x.end, BytesOf(view, x.begin, x.end))
<1>5. R = {Of(x) : x \in U}
  BY <1>3 DEF ReadUncached
<1>6. \A x : /\ Of(x).begin = x.begin /\ Of(x).end = x.end
             /\ Of(x).data = BytesOf(view, x.begin, x.end)
             /\ Of(x) = Interval(Of(x).begin, Of(x).end, Of(x).data)
  BY DEF Interval
<1>7. \A x \in U : /\ x.begin \in Nat /\ x.end \in Nat /\ x.begin < x.end
                   /\ b <= x.begin /\ x.end <= e
  <2> SUFFICES ASSUME NEW x \in U
               PROVE  /\ x.begin \in Nat /\ x.end \in Nat /\ x.begin < x.end
                      /\ b <= x.begin /\ x.end <= e
    OBVIOUS
  <2>1. PICK p \in b..e, q \in b..e : p < q /\ x = Span(p, q)
    BY <1>2, <1>4, SpanIs
  <2>2. x.begin = p /\ x.end = q
    BY <2>1 DEF Span
  <2> QED BY <1>2, <2>1, <2>2
<1> HIDE DEF Of
<1>8. IsFiniteSet(R)
  <2>1. IsFiniteSet(U)
    BY <1>2, <1>4, SpansAreFinite, FS_Subset
  <2> DEFINE f == [x \in U |-> Of(x)]
  <2>2. f \in [U -> R] /\ \A t \in R : \E x \in U : f[x] = t
    BY <1>5
  <2> HIDE DEF f
  <2>3. f \in Surjection(U, R)
    BY <2>2, Zenon DEF Surjection
  <2> QED BY <2>1, <2>3, FS_Surjection
<1>9. ASSUME NEW x \in U
      PROVE  From(Of(x), F) /\ Extends(Of(x)) \subseteq (b..(e - 1)) \ Covered(C)
  <2>1. Extends(Of(x)) = Extends(x)
    BY <1>6 DEF Extends
  <2>2. Extends(x) \subseteq (b..(e - 1)) \ Covered(C)
    BY <1>4 DEF Covered
  <2>3. SameIn(view, F, x.begin, x.end)
    BY <2>2 DEF ShowsRest, Extends, SameIn
  <2>4. BytesOf(view, x.begin, x.end) = BytesOf(F, x.begin, x.end)
    BY <1>7, <2>3, BytesAgree
  <2>5. Extent(Of(x))
    BY <1>6, <1>7 DEF Extent
  <2> QED BY <1>2, <1>6, <2>1, <2>2, <2>4, <2>5 DEF From
<1>10. \A iv \in R : From(iv, F) /\ b <= iv.begin /\ iv.end <= e
  BY <1>5, <1>6, <1>7, <1>9
<1>11. Covered(R) = Covered(U)
  <2>1. \A x \in U : Extends(Of(x)) = Extends(x)
    BY <1>6 DEF Extends
  <2> QED BY <1>5, <2>1 DEF Covered
<1>12. Apart(R)
  <2> SUFFICES ASSUME NEW x \in U, NEW y \in U, Of(x) # Of(y) PROVE ApartFrom(Of(x), Of(y))
    BY <1>5 DEF Apart
  <2>1. x # y
    OBVIOUS
  <2>2. ApartFrom(x, y)
    BY <1>4, <2>1 DEF Apart
  <2> QED BY <1>6, <2>2 DEF ApartFrom
<1>13. ASSUME NEW iv \in C, NEW r \in R PROVE ApartFrom(iv, r) /\ ApartFrom(r, iv)
  <2>1. Extent(iv) /\ Extent(r)
    BY <1>1, <1>10 DEF From
  <2>2. Extends(r) \cap Extends(iv) = {}
    <3>1. PICK x \in U : r = Of(x)
      BY <1>5
    <3>2. Extends(r) \cap Covered(C) = {}
      BY <1>9, <3>1
    <3> QED BY <3>2 DEF Covered
  <2>3. PICK p \in Nat, q \in Nat, i \in Nat, j \in Nat :
          p = iv.begin /\ q = iv.end /\ i = r.begin /\ j = r.end /\ p < q /\ i < j
    BY <2>1 DEF Extent
  <2>4. (i..(j - 1)) \cap (p..(q - 1)) = {}
    BY <2>2, <2>3 DEF Extends
  <2>5. q <= i \/ j <= p
    <3> SUFFICES ASSUME i < q, p < j PROVE FALSE
      OBVIOUS
    <3>1. CASE i <= p
      BY <2>3, <2>4, <3>1
    <3>2. CASE p <= i
      BY <2>3, <2>4, <3>2
    <3> QED BY <3>1, <3>2
  <2> QED BY <2>3, <2>5 DEF ApartFrom
<1>14. CacheOf(C \cup R, F)
  <2>1. IsFiniteSet(C \cup R)
    BY <1>1, <1>8, FS_Union
  <2>2. Apart(C \cup R)
    BY <1>1, <1>12, <1>13 DEF Apart
  <2> QED BY <1>1, <1>10, <2>1, <2>2 DEF CacheOf
<1>15. Covered(C \cup R) = Covered(C) \cup Covered(R)
  BY DEF Covered
<1> QED BY <1>4, <1>10, <1>11, <1>14, <1>15

\* A read through the cache returns the bytes of the map that the cache shows
\* where it holds the range, and the view elsewhere.
LEMMA CachedReadIs ==
  ASSUME NEW F \in ByteMap, NEW C, CacheOf(C, F), NEW b, NEW e, Fits(b, e), b < e,
         NEW view, ShowsRest(view, C, F, b, e)
  PROVE  CachedRead(C, view, b, e) = BytesOf(F, b, e)
<1>1. PICK R : R = ReadUncached(C, view, b, e)
  OBVIOUS
<1>2. /\ CacheOf(C \cup R, F) /\ b..(e - 1) \subseteq Covered(C \cup R)
      /\ \A iv \in R : b <= iv.begin /\ iv.end <= e
  BY <1>1, ReadUncachedIs
<1>3. b \in Nat /\ e \in Nat
  BY DEF Fits
<1>4. PICK S : S = Overlap(C, b, e) \cup R
  OBVIOUS
<1>5. S \subseteq C \cup R /\ IsFiniteSet(S)
  <2>1. S \in SUBSET (C \cup R)
    BY <1>4 DEF Overlap
  <2>2. IsFiniteSet(C \cup R)
    BY <1>2 DEF CacheOf
  <2> QED BY <2>1, <2>2, FS_Subset
<1>6. (\A iv \in S : From(iv, F)) /\ Apart(S)
  BY <1>2, <1>5 DEF CacheOf, Apart
<1>7. \A iv \in S : iv.begin < e /\ b < iv.end
  <2>1. ASSUME NEW iv \in R PROVE iv.begin < e /\ b < iv.end
    <3>1. iv.begin \in Nat /\ iv.end \in Nat /\ iv.begin < iv.end
      BY <1>4, <1>6 DEF From, Extent
    <3> QED BY <1>2, <1>3, <3>1
  <2> QED BY <1>4, <2>1 DEF Overlap
<1>8. b..(e - 1) \subseteq Covered(S)
  <2> SUFFICES ASSUME NEW a \in b..(e - 1) PROVE a \in Covered(S)
    OBVIOUS
  <2>1. PICK iv \in C \cup R : a \in Extends(iv)
    BY <1>2 DEF Covered
  <2>2. Extent(iv)
    BY <1>2 DEF CacheOf, From
  <2>3. iv.begin < e /\ b < iv.end
    BY <1>3, <2>1, <2>2 DEF Extends, Extent
  <2>4. iv \in S
    BY <1>4, <2>1, <2>3 DEF Overlap
  <2> QED BY <2>1, <2>4 DEF Covered
<1>9. PICK s : s = Sorted(S)
  OBVIOUS
<1>10. /\ Len(s) # 0 /\ Chain(s, S, s[1].begin, s[Len(s)].end)
       /\ s[1].begin <= b /\ e <= s[Len(s)].end
       /\ s[1].end > b /\ s[Len(s)].begin < e
  BY <1>3, <1>5, <1>6, <1>7, <1>8, <1>9, SortedChain
<1>11. MergeData(s, b, e) = BytesOf(F, b, e)
  BY <1>3, <1>6, <1>10, MergeIs
<1> QED BY <1>1, <1>4, <1>9, <1>11 DEF CachedRead, Combined

-----------------------------------------------------------------------------
\* The regions in which the cache keeps bytes.

\* Regions: a range that may be cached lies within one, and meets no other.
Within(b, e) == RegionAllows(Map, b, e) /\ Cacheable(Map, b, e)
Meets(r, b, e) == r.start < e /\ b <= r.end
OneRegion(r, b, e) ==
  /\ r \in ToSet(Map) /\ r.is_cacheable /\ r.start <= b /\ e <= r.end + 1
  /\ \A t \in ToSet(Map) : Meets(t, b, e) => t = r

\* A region of the map is a range of addresses.
LEMMA RegionsAre ==
  ASSUME NEW r \in ToSet(Map)
  PROVE  /\ r.start \in Nat /\ r.end \in Nat /\ r.start <= r.end
         /\ r.start..r.end \subseteq Addresses
<1>1. PICK k \in DOMAIN Map : r = Map[k]
  BY DEF ToSet
<1>2. r.start \in Nat /\ r.end \in Nat /\ r.start <= r.end
  BY <1>1, BreakpointsAssumption DEF BreakpointsAssumption
<1> QED BY <1>1, <1>2 DEF Addresses

\* A range meets a region in the sense of the code when they share a byte.
LEMMA IntersectsIs ==
  ASSUME NEW b \in Nat, NEW e \in Nat, b < e, NEW r \in ToSet(Map)
  PROVE  IntersectsRange(r, b, e - 1) <=> Meets(r, b, e)
<1>1. PICK s \in Nat, t \in Nat : s = r.start /\ t = r.end /\ s <= t
  BY RegionsAre
<1> QED BY <1>1 DEF IntersectsRange, Meets

\* A range may be cached when it lies within one cacheable region and meets no other.
LEMMA WithinIs ==
  ASSUME NEW b \in Nat, NEW e \in Nat, b < e
  PROVE  Within(b, e) <=> \E r : OneRegion(r, b, e)
<1>1. PICK R : R = GetIntersectingRegions(Map, b, e - 1)
  OBVIOUS
<1>2. \A r : r \in R <=> r \in ToSet(Map) /\ Meets(r, b, e)
  BY <1>1, IntersectsIs DEF GetIntersectingRegions
<1>3. Within(b, e) <=> /\ R = {} \/ \E r \in R : R = {r} /\ ContainsRange(r, b, e - 1)
                       /\ \E r \in R : r.is_cacheable
  BY <1>1 DEF Within, RegionAllows, Cacheable
<1>4. ASSUME NEW r \in ToSet(Map)
      PROVE  ContainsRange(r, b, e - 1) <=> r.start <= b /\ e <= r.end + 1
  <2>1. PICK s \in Nat, t \in Nat : s = r.start /\ t = r.end
    BY RegionsAre
  <2> QED BY <2>1 DEF ContainsRange, ContainsAddress
<1>5. ASSUME Within(b, e) PROVE \E r : OneRegion(r, b, e)
  <2>1. PICK r \in R : R = {r} /\ ContainsRange(r, b, e - 1)
    BY <1>3, <1>5
  <2>2. r.is_cacheable
    BY <1>3, <1>5, <2>1
  <2>3. r \in ToSet(Map) /\ \A t \in ToSet(Map) : Meets(t, b, e) => t = r
    BY <1>2, <2>1
  <2>4. OneRegion(r, b, e)
    BY <1>4, <2>1, <2>2, <2>3 DEF OneRegion
  <2> QED BY <2>4
<1>6. ASSUME NEW r, OneRegion(r, b, e) PROVE Within(b, e)
  <2>1. /\ r \in ToSet(Map) /\ r.is_cacheable /\ r.start <= b /\ e <= r.end + 1
        /\ \A t \in ToSet(Map) : Meets(t, b, e) => t = r
    BY <1>6 DEF OneRegion
  <2>2. Meets(r, b, e)
    BY <2>1, RegionsAre DEF Meets
  <2>3. R = {r}
    BY <1>2, <2>1, <2>2
  <2> QED BY <1>3, <1>4, <2>1, <2>3
<1> QED BY <1>5, <1>6

\* So does every part of it, ...
LEMMA WithinPart ==
  ASSUME NEW b \in Nat, NEW e \in Nat, Within(b, e),
         NEW p \in Nat, NEW q \in Nat, b <= p, p < q, q <= e
  PROVE  Within(p, q)
<1>1. PICK r : OneRegion(r, b, e)
  BY WithinIs
<1>2. r.start \in Nat /\ r.end \in Nat /\ r.start <= b /\ e <= r.end + 1
  BY <1>1, RegionsAre DEF OneRegion
<1>3. r.start <= p /\ q <= r.end + 1
  BY <1>2
<1>4. ASSUME NEW t \in ToSet(Map), Meets(t, p, q) PROVE t = r
  <2>1. t.start \in Nat /\ t.end \in Nat
    BY RegionsAre
  <2>2. Meets(t, b, e)
    BY <1>4, <2>1 DEF Meets
  <2> QED BY <1>1, <2>2 DEF OneRegion
<1>5. OneRegion(r, p, q)
  BY <1>1, <1>3, <1>4 DEF OneRegion
<1> QED BY <1>5, WithinIs

\* ... and what two such ranges that share a byte span together.
LEMMA WithinJoin ==
  ASSUME NEW b \in Nat, NEW e \in Nat, b < e, Within(b, e),
         NEW x \in Nat, NEW y \in Nat, x < y, Within(x, y),
         x < e, b < y, x <= b, NEW q \in {e, y}, e <= q, y <= q
  PROVE  Within(x, q)
<1>1. PICK r : OneRegion(r, b, e)
  BY WithinIs
<1>2. PICK s : OneRegion(s, x, y)
  BY WithinIs
<1>3. /\ r.start \in Nat /\ r.end \in Nat /\ r.start <= b /\ e <= r.end + 1
      /\ s.start \in Nat /\ s.end \in Nat /\ s.start <= x /\ y <= s.end + 1
  BY <1>1, <1>2, RegionsAre DEF OneRegion
<1>4. s = r
  <2>1. Meets(s, b, e)
    BY <1>3 DEF Meets
  <2> QED BY <1>1, <1>2, <2>1 DEF OneRegion
<1>5. q \in Nat /\ (q = e \/ q = y)
  OBVIOUS
<1>6. ASSUME NEW t \in ToSet(Map), Meets(t, x, q) PROVE t = r
  <2>1. t.start \in Nat /\ t.end \in Nat /\ t.start <= t.end
    BY RegionsAre
  <2>2. t.start < q /\ x <= t.end
    BY <1>6 DEF Meets
  <2>3. t.start < e \/ t.start < y
    BY <1>5, <2>2, Zenon
  <2>4. PICK u \in Nat, v \in Nat : u = t.start /\ v = t.end /\ u <= v
    BY <2>1
  <2>5. (u < e /\ b <= v) \/ (u < y /\ x <= v)
    BY <2>2, <2>3, <2>4
  <2>6. Meets(t, b, e) \/ Meets(t, x, y)
    BY <2>4, <2>5 DEF Meets
  <2> QED BY <1>1, <1>2, <1>4, <2>6 DEF OneRegion
<1>7. r.start <= x /\ q <= r.end + 1
  BY <1>3, <1>4, <1>5
<1>8. OneRegion(r, x, q)
  BY <1>1, <1>6, <1>7 DEF OneRegion
<1>9. x < q
  BY <1>5
<1> QED BY <1>5, <1>8, <1>9, WithinIs

\* Its bytes are bytes of memory.
LEMMA WithinAddresses ==
  ASSUME NEW b \in Nat, NEW e \in Nat, b < e, Within(b, e)
  PROVE  Fits(b, e)
<1>1. PICK r : OneRegion(r, b, e)
  BY WithinIs
<1>2. /\ r.start \in Nat /\ r.end \in Nat /\ r.start <= b /\ e <= r.end + 1
      /\ r.start..r.end \subseteq Addresses
  BY <1>1, RegionsAre DEF OneRegion
<1>3. b..(e - 1) \subseteq r.start..r.end
  BY <1>2
<1> QED BY <1>2, <1>3 DEF Fits

-----------------------------------------------------------------------------
\* A write replaces or joins what the cache holds of its range.

\* A map that differs from another one in a range at most.
Rewrites(G, F, b, e) == \A a \in Addresses \ (b..(e - 1)) : G[a] = F[a]
Outside(iv, b, e) == iv.end <= b \/ e <= iv.begin

\* An interval outside a range shows the same of both.
LEMMA FromOutside ==
  ASSUME NEW F, NEW G, NEW b \in Nat, NEW e \in Nat, Rewrites(G, F, b, e),
         NEW iv, From(iv, F), Outside(iv, b, e)
  PROVE  From(iv, G)
<1>1. PICK p \in Nat, q \in Nat : p = iv.begin /\ q = iv.end /\ p < q
  BY DEF From, Extent
<1>2. p..(q - 1) \subseteq Addresses
  BY <1>1 DEF From, Extends
<1>3. q <= b \/ e <= p
  BY <1>1 DEF Outside
<1>4. \A a \in p..(q - 1) : a \notin b..(e - 1)
  BY <1>3
<1>5. SameIn(F, G, p, q)
  BY <1>2, <1>4, Zenon DEF Rewrites, SameIn
<1>6. BytesOf(F, p, q) = BytesOf(G, p, q)
  BY <1>5, BytesAgree
<1> QED BY <1>1, <1>6 DEF From

\* An interval made of the bytes of a map.
LEMMA IntervalFrom ==
  ASSUME NEW F, NEW p \in Nat, NEW q \in Nat, p < q, Fits(p, q),
         NEW data, data = BytesOf(F, p, q)
  PROVE  From(Interval(p, q, data), F) /\ Extends(Interval(p, q, data)) = p..(q - 1)
<1>1. /\ Interval(p, q, data).begin = p /\ Interval(p, q, data).end = q
      /\ Interval(p, q, data).data = data
  BY DEF Interval
<1> QED BY <1>1 DEF From, Extent, Extends, Fits

\* What is asked of the caches before and after a write.
WriteGood(C, F, G, b, e) ==
  /\ CacheOf(C, F) /\ Rewrites(G, F, b, e)
  /\ b \in Nat /\ e \in Nat /\ b < e /\ Fits(b, e)
  /\ F \in ByteMap /\ G \in ByteMap
  /\ Within(b, e) /\ \A iv \in C : Within(iv.begin, iv.end)

WriteDone(D, C, G, b, e) ==
  /\ CacheOf(D, G) /\ Covered(D) \subseteq Covered(C) \cup b..(e - 1)
  /\ \A iv \in D : Within(iv.begin, iv.end)

\* What the cache holds outside the range stays.
LEMMA KeptOf ==
  ASSUME NEW C, NEW F, NEW G, NEW b, NEW e, WriteGood(C, F, G, b, e),
         NEW K, K \subseteq C, \A iv \in K : Outside(iv, b, e)
  PROVE  CacheOf(K, G) /\ Covered(K) \subseteq Covered(C)
<1>1. IsFiniteSet(C) /\ (\A iv \in C : From(iv, F)) /\ Apart(C)
  BY DEF WriteGood, CacheOf
<1>2. IsFiniteSet(K)
  BY <1>1, FS_Subset
<1>3. \A iv \in K : From(iv, G)
  BY <1>1, FromOutside DEF WriteGood
<1>4. Apart(K)
  BY <1>1 DEF Apart
<1> QED BY <1>2, <1>3, <1>4 DEF CacheOf, Covered

\* One more interval, apart from those.
LEMMA OneAdded ==
  ASSUME NEW K, NEW G, CacheOf(K, G), NEW r, From(r, G), \A iv \in K : ApartFrom(iv, r)
  PROVE  CacheOf(K \cup {r}, G) /\ Covered(K \cup {r}) = Covered(K) \cup Extends(r)
<1>1. IsFiniteSet(K) /\ (\A iv \in K : From(iv, G)) /\ Apart(K)
  BY DEF CacheOf
<1>2. IsFiniteSet(K \cup {r})
  BY <1>1, FS_AddElement
<1>3. \A iv \in K : ApartFrom(r, iv)
  BY DEF ApartFrom
<1>4. Apart(K \cup {r})
  BY <1>1, <1>3 DEF Apart
<1> QED BY <1>1, <1>2, <1>4 DEF CacheOf, Covered

\* A write to a range of which the cache holds nothing.
LEMMA WriteAlone ==
  ASSUME NEW C, NEW F, NEW G, NEW b, NEW e, WriteGood(C, F, G, b, e),
         NEW data, data = BytesOf(G, b, e), Overlap(C, b, e) = {},
         NEW D, D = C \cup {Interval(b, e, data)}
  PROVE  WriteDone(D, C, G, b, e)
<1>1. b \in Nat /\ e \in Nat /\ b < e /\ Fits(b, e) /\ G \in ByteMap
  BY DEF WriteGood
<1>2. PICK r : r = Interval(b, e, data)
  OBVIOUS
<1>3. From(r, G) /\ Extends(r) = b..(e - 1) /\ r.begin = b /\ r.end = e
  BY <1>1, <1>2, IntervalFrom DEF Interval
<1>4. \A iv \in C : Outside(iv, b, e)
  <2> SUFFICES ASSUME NEW iv \in C PROVE Outside(iv, b, e)
    OBVIOUS
  <2>1. ~(iv.begin < e /\ b < iv.end)
    BY DEF Overlap
  <2>2. iv.begin \in Nat /\ iv.end \in Nat
    BY DEF WriteGood, CacheOf, From, Extent
  <2> QED BY <1>1, <2>1, <2>2 DEF Outside
<1>5. CacheOf(C, G)
  BY <1>4, KeptOf
<1>6. \A iv \in C : ApartFrom(iv, r)
  BY <1>3, <1>4 DEF Outside, ApartFrom
<1>7. CacheOf(C \cup {r}, G) /\ Covered(C \cup {r}) = Covered(C) \cup Extends(r)
  BY <1>3, <1>5, <1>6, OneAdded
<1>8. \A iv \in C \cup {r} : Within(iv.begin, iv.end)
  BY <1>3 DEF WriteGood
<1> QED BY <1>2, <1>3, <1>7, <1>8 DEF WriteDone

\* Three spans in a row, of which the one in the middle is rewritten.
JoinRight(F, G, p, b, e, q) ==
  BytesOf(F, p, b) \o BytesOf(G, b, e) \o BytesOf(F, e, q) = BytesOf(G, p, q)

LEMMA RewrittenJoin ==
  ASSUME NEW F \in ByteMap, NEW G \in ByteMap, NEW b, NEW e, Rewrites(G, F, b, e),
         NEW p, NEW q, Fits(p, q), InTurn(p, b, e, q)
  PROVE  JoinRight(F, G, p, b, e, q)
<1>1. /\ p \in Nat /\ b \in Nat /\ e \in Nat /\ q \in Nat /\ p <= b /\ b <= e /\ e <= q
      /\ p..(q - 1) \subseteq Addresses
  BY DEF Fits, InTurn
<1>2. BytesOf(F, p, b) = BytesOf(G, p, b)
  <2>1. \A a \in p..(b - 1) : a \in p..(q - 1) /\ a \notin b..(e - 1)
    BY <1>1
  <2>2. SameIn(F, G, p, b)
    BY <1>1, <2>1, Zenon DEF Rewrites, SameIn
  <2> QED BY <1>1, <2>2, BytesAgree
<1>3. BytesOf(F, e, q) = BytesOf(G, e, q)
  <2>1. \A a \in e..(q - 1) : a \in p..(q - 1) /\ a \notin b..(e - 1)
    BY <1>1
  <2>2. SameIn(F, G, e, q)
    BY <1>1, <2>1, Zenon DEF Rewrites, SameIn
  <2> QED BY <1>1, <2>2, BytesAgree
<1>4. Fits(p, e)
  <2>1. \A a \in p..(e - 1) : a \in p..(q - 1)
    BY <1>1
  <2> QED BY <1>1, <2>1 DEF Fits
<1>5. InTurn(p, b, b, e) /\ InTurn(p, e, e, q)
  BY <1>1 DEF InTurn
<1>6. BytesOf(G, p, b) \o BytesOf(G, b, e) = BytesOf(G, p, e)
  BY <1>4, <1>5, BytesJoin, Zenon
<1>7. BytesOf(G, p, e) \o BytesOf(G, e, q) = BytesOf(G, p, q)
  BY <1>5, BytesJoin, Zenon
<1> QED BY <1>2, <1>3, <1>6, <1>7, Zenon DEF JoinRight

\* Data written within an interval replaces what it held there.
LEMMA ReplacedIs ==
  ASSUME NEW C, NEW F, NEW G, NEW b, NEW e, WriteGood(C, F, G, b, e),
         NEW data, data = BytesOf(G, b, e),
         NEW iv \in C, iv.begin <= b, e <= iv.end,
         NEW r, r = [iv EXCEPT !.data = ReplaceSubSeqAt(b - iv.begin + 1, data, data, @)]
  PROVE  From(r, G) /\ r.begin = iv.begin /\ r.end = iv.end
<1>1. /\ b \in Nat /\ e \in Nat /\ b < e /\ Fits(b, e) /\ Rewrites(G, F, b, e)
      /\ F \in ByteMap /\ G \in ByteMap /\ From(iv, F)
  BY DEF WriteGood, CacheOf
<1>2. PICK p \in Nat, q \in Nat, w \in {iv.data} :
        /\ p = iv.begin /\ q = iv.end /\ w = iv.data /\ p < q /\ Fits(p, q)
        /\ Len(w) = q - p /\ w = BytesOf(F, p, q) /\ p <= b /\ e <= q
  BY <1>1, FromIs DEF From
<1>3. PICK t : t = ReplaceSubSeqAt(b - p + 1, data, data, w)
  OBVIOUS
<1>4. Len(data) = e - b
  BY <1>1, BytesAre DEF IsBytes
<1>5. t = SubSeq(w, 1, (b - p + 1) - 1) \o data \o SubSeq(w, (b - p + 1) + (e - b), q - p)
  BY <1>2, <1>3, <1>4, Zenon DEF ReplaceSubSeqAt
<1>6. (b - p + 1) - 1 = b - p /\ (b - p + 1) + (e - b) = e - p + 1 /\ p - p + 1 = 1
  BY <1>1
<1>7. InTurn(p, p, b, q) /\ InTurn(p, e, q, q) /\ InTurn(p, b, e, q)
  BY <1>1, <1>2 DEF InTurn
<1>8. SubSeq(w, 1, b - p) = BytesOf(F, p, b)
  <2>1. PartRight(F, p, p, b, q)
    BY <1>1, <1>2, <1>7, BytesPart, Zenon
  <2> QED BY <1>2, <1>6, <2>1 DEF PartRight
<1>9. SubSeq(w, e - p + 1, q - p) = BytesOf(F, e, q)
  <2>1. PartRight(F, p, e, q, q)
    BY <1>1, <1>2, <1>7, BytesPart, Zenon
  <2> QED BY <1>2, <2>1 DEF PartRight
<1>10. t = BytesOf(G, p, q)
  <2>1. JoinRight(F, G, p, b, e, q)
    BY <1>1, <1>2, <1>7, RewrittenJoin, Zenon
  <2> QED BY <1>5, <1>6, <1>8, <1>9, <2>1 DEF JoinRight
<1>11. r = Interval(p, q, t)
  <2>1. iv = Interval(p, q, w)
    BY <1>1, <1>2 DEF From
  <2>2. r = [iv EXCEPT !.data = t]
    BY <1>2, <1>3
  <2> QED BY <2>1, <2>2 DEF Interval
<1>12. From(r, G)
  BY <1>2, <1>10, <1>11, IntervalFrom
<1> QED BY <1>2, <1>11, <1>12 DEF Interval

\* A write within one interval.
ReplacedIn(C, around, b, data) ==
  {IF iv \in around
     THEN [iv EXCEPT !.data = ReplaceSubSeqAt(b - iv.begin + 1, data, data, @)]
     ELSE iv : iv \in C}

LEMMA WriteInside ==
  ASSUME NEW C, NEW F, NEW G, NEW b, NEW e, WriteGood(C, F, G, b, e),
         NEW data, data = BytesOf(G, b, e),
         NEW around, around = {iv \in Overlap(C, b, e) : iv.begin <= b /\ e <= iv.end},
         around # {},
         NEW D, D = ReplacedIn(C, around, b, data)
  PROVE  WriteDone(D, C, G, b, e)
<1>1. /\ b \in Nat /\ e \in Nat /\ b < e /\ Fits(b, e) /\ Rewrites(G, F, b, e)
      /\ IsFiniteSet(C) /\ (\A iv \in C : From(iv, F)) /\ Apart(C)
      /\ \A iv \in C : Within(iv.begin, iv.end)
  BY DEF WriteGood, CacheOf
<1> DEFINE New(iv) == IF iv \in around
                        THEN [iv EXCEPT !.data = ReplaceSubSeqAt(b - iv.begin + 1, data, data, @)]
                        ELSE iv
<1>2. D = {New(iv) : iv \in C}
  BY DEF ReplacedIn
<1>3. ASSUME NEW iv \in C
      PROVE  From(New(iv), G) /\ New(iv).begin = iv.begin /\ New(iv).end = iv.end
  <2>1. CASE iv \in around
    <3>1. iv.begin <= b /\ e <= iv.end
      BY <2>1
    <3>2. New(iv) = [iv EXCEPT !.data = ReplaceSubSeqAt(b - iv.begin + 1, data, data, @)]
      BY <2>1
    <3> HIDE DEF New
    <3> QED BY <3>1, <3>2, ReplacedIs
  <2>2. CASE iv \notin around
    <3>1. PICK w \in C : w \in around /\ w.begin <= b /\ e <= w.end
      BY DEF Overlap
    <3>2. ApartFrom(iv, w) /\ Extent(iv) /\ Extent(w)
      BY <1>1, <2>2, <3>1 DEF Apart, From
    <3>3. Outside(iv, b, e)
      BY <1>1, <3>1, <3>2 DEF ApartFrom, Outside, Extent
    <3>4. From(iv, G)
      BY <1>1, <3>3, FromOutside
    <3> QED BY <2>2, <3>4
  <2> QED BY <2>1, <2>2
<1> HIDE DEF New
<1>4. IsFiniteSet(D)
  <2> DEFINE f == [iv \in C |-> New(iv)]
  <2>1. f \in [C -> D] /\ \A d \in D : \E iv \in C : f[iv] = d
    BY <1>2
  <2> HIDE DEF f
  <2>2. f \in Surjection(C, D)
    BY <2>1, Zenon DEF Surjection
  <2> QED BY <1>1, <2>2, FS_Surjection
<1>5. Apart(D)
  <2> SUFFICES ASSUME NEW x \in C, NEW y \in C, New(x) # New(y)
               PROVE  ApartFrom(New(x), New(y))
    BY <1>2 DEF Apart
  <2>1. ApartFrom(x, y)
    BY <1>1 DEF Apart
  <2> QED BY <1>3, <2>1 DEF ApartFrom
<1>6. CacheOf(D, G)
  BY <1>2, <1>3, <1>4, <1>5 DEF CacheOf
<1>7. Covered(D) \subseteq Covered(C)
  <2>1. \A iv \in C : Extends(New(iv)) = Extends(iv)
    BY <1>3 DEF Extends
  <2> QED BY <1>2, <2>1 DEF Covered
<1>8. \A d \in D : Within(d.begin, d.end)
  BY <1>1, <1>2, <1>3
<1> QED BY <1>6, <1>7, <1>8 DEF WriteDone

\* What a write is joined with before and after its range.
LEMMA WriteAround ==
  ASSUME NEW C, NEW F, NEW G, NEW b, NEW e, WriteGood(C, F, G, b, e),
         NEW data, data = BytesOf(G, b, e), Overlap(C, b, e) # {}
  PROVE  WriteDone(UpdateContiguous(C, b, data), C, G, b, e)
<1> DEFINE O == Overlap(C, b, e)
           s == Sorted(O)
           first == Head(s)
           last == Last(s)
           lead == IF first.begin < b THEN SubSeq(first.data, 1, b - first.begin) ELSE << >>
           trail == IF last.end > e THEN SubSeq(last.data, e - last.begin + 1, Len(last.data))
                                    ELSE << >>
<1>1. /\ b \in Nat /\ e \in Nat /\ b < e /\ Fits(b, e) /\ Rewrites(G, F, b, e)
      /\ IsFiniteSet(C) /\ (\A iv \in C : From(iv, F)) /\ Apart(C)
      /\ F \in ByteMap /\ G \in ByteMap
      /\ Within(b, e) /\ \A iv \in C : Within(iv.begin, iv.end)
  BY DEF WriteGood, CacheOf
<1>2. Len(data) = e - b
  BY <1>1, BytesAre DEF IsBytes
<1>3. UpdateContiguous(C, b, data) =
        (C \ ToSet(s)) \cup {Interval(b - Len(lead), e + Len(trail), lead \o data \o trail)}
  <2>1. b + Len(data) = e
    BY <1>1, <1>2
  <2> QED BY <2>1, Zenon DEF UpdateContiguous
<1>4. O \subseteq C /\ \A iv \in C : iv \in O <=> iv.begin < e /\ b < iv.end
  BY DEF Overlap
<1> HIDE DEF lead, trail, first, last, s, O
<1>5. ToSet(s) = O /\ first \in O /\ last \in O
  <2>1. IsFiniteSet(O) /\ (\A iv \in O : Extent(iv)) /\ Apart(O)
    BY <1>1, <1>4, FS_Subset DEF Apart, From
  <2>2. s \in Seq(O) /\ Range(s) = O
    BY <2>1, SortedIs DEF s
  <2>3. s # << >>
    <3>1. s = << >> => Range(s) = {}
      BY DEF Range
    <3> QED BY <2>2, <3>1 DEF O
  <2>4. Len(s) \in 1..Len(s) /\ 1 \in 1..Len(s)
    BY <2>2, <2>3
  <2> QED BY <2>2, <2>3, <2>4 DEF first, last, Last, ToSet, Range
<1>6. PICK u \in Nat, v \in Nat : /\ u = first.begin /\ v = first.end /\ u < v /\ Fits(u, v)
                                  /\ first.data = BytesOf(F, u, v) /\ u < e /\ b < v
                                  /\ Within(u, v)
  BY <1>1, <1>4, <1>5, FromIs DEF From
<1>7. PICK x \in Nat, y \in Nat : /\ x = last.begin /\ y = last.end /\ x < y /\ Fits(x, y)
                                  /\ last.data = BytesOf(F, x, y) /\ Len(last.data) = y - x
                                  /\ x < e /\ b < y /\ Within(x, y)
  BY <1>1, <1>4, <1>5, FromIs DEF From
<1>8. PICK p \in Nat : /\ p = b - Len(lead) /\ lead = BytesOf(F, p, b) /\ p <= b
                       /\ (p = b \/ p = u) /\ Within(p, e)
  <2>1. CASE u < b
    <3>1. lead = SubSeq(BytesOf(F, u, v), 1, b - u)
      BY <1>6, <2>1 DEF lead
    <3>2. InTurn(u, u, b, v) /\ u - u + 1 = 1
      BY <1>1, <1>6, <2>1 DEF InTurn
    <3>3. PartRight(F, u, u, b, v)
      BY <1>1, <1>6, <3>2, BytesPart, Zenon
    <3>4. lead = BytesOf(F, u, b)
      BY <3>1, <3>2, <3>3 DEF PartRight
    <3>5. Fits(u, b)
      <4>1. u..(b - 1) \subseteq u..(v - 1)
        BY <1>1, <1>6
      <4> QED BY <1>1, <1>6, <2>1, <4>1 DEF Fits
    <3>6. Len(lead) = b - u
      BY <1>1, <3>4, <3>5, BytesAre DEF IsBytes
    <3>7. Within(u, e)
      <4>1. PICK q \in {e, v} : e <= q /\ v <= q
        BY <1>1
      <4>2. Within(u, q)
        BY <1>1, <1>6, <2>1, <4>1, WithinJoin
      <4> QED BY <1>1, <1>6, <4>1, <4>2, WithinPart
    <3>8. u = b - Len(lead) /\ u <= b
      BY <1>1, <2>1, <3>6
    <3> QED BY <3>4, <3>7, <3>8
  <2>2. CASE ~(u < b)
    <3>1. lead = << >> /\ BytesOf(F, b, b) = << >>
      BY <1>1, <1>6, <2>2, NoBytes DEF lead
    <3>2. b = b - Len(lead) /\ b <= b
      BY <1>1, <3>1
    <3> QED BY <1>1, <3>1, <3>2
  <2> QED BY <2>1, <2>2
<1>9. PICK q \in Nat : /\ q = e + Len(trail) /\ trail = BytesOf(F, e, q) /\ e <= q
                       /\ (q = e \/ q = y) /\ Within(p, q)
  <2>1. CASE y > e
    <3>1. trail = SubSeq(BytesOf(F, x, y), e - x + 1, y - x)
      BY <1>7, <2>1 DEF trail
    <3>2. InTurn(x, e, y, y)
      BY <1>1, <1>7, <2>1 DEF InTurn
    <3>3. PartRight(F, x, e, y, y)
      BY <1>1, <1>7, <3>2, BytesPart, Zenon
    <3>4. trail = BytesOf(F, e, y)
      BY <3>1, <3>3 DEF PartRight
    <3>5. Fits(e, y)
      <4>1. e..(y - 1) \subseteq x..(y - 1)
        BY <1>1, <1>7
      <4> QED BY <1>1, <1>7, <2>1, <4>1 DEF Fits
    <3>6. Len(trail) = y - e
      BY <1>1, <3>4, <3>5, BytesAre DEF IsBytes
    <3>7. Within(p, y)
      <4>1. y \in {e, y} /\ e <= y /\ y <= y /\ p < e /\ p < y
        BY <1>1, <1>8, <2>1
      <4>2. CASE x <= p
        <5>1. y \in {e, y} /\ p < y /\ x < e
          BY <1>7, <4>1
        <5>2. Within(x, y)
          BY <1>7
        <5> QED BY <1>7, <1>8, <4>1, <4>2, <5>2, WithinPart
      <4>3. CASE p <= x
        <5>1. y \in {y, e}
          OBVIOUS
        <5> QED BY <1>1, <1>7, <1>8, <4>1, <4>3, <5>1, WithinJoin
      <4> QED BY <1>7, <1>8, <4>2, <4>3
    <3>8. y = e + Len(trail) /\ e <= y
      BY <1>1, <2>1, <3>6
    <3> QED BY <3>4, <3>7, <3>8
  <2>2. CASE ~(y > e)
    <3>1. trail = << >> /\ BytesOf(F, e, e) = << >>
      BY <1>1, <1>7, <2>2, NoBytes DEF trail
    <3>2. e = e + Len(trail) /\ e <= e
      BY <1>1, <3>1
    <3> QED BY <1>1, <1>8, <3>1, <3>2
  <2> QED BY <2>1, <2>2
<1>10. p < q /\ Fits(p, q) /\ InTurn(p, b, e, q)
  <2>1. p < q
    BY <1>1, <1>8, <1>9
  <2> QED BY <1>1, <1>8, <1>9, <2>1, WithinAddresses DEF InTurn
<1>11. lead \o data \o trail = BytesOf(G, p, q)
  <2>1. JoinRight(F, G, p, b, e, q)
    BY <1>1, <1>10, RewrittenJoin, Zenon
  <2> QED BY <1>8, <1>9, <2>1 DEF JoinRight
<1>12. PICK r : r = Interval(p, q, lead \o data \o trail)
  OBVIOUS
<1>13. From(r, G) /\ Extends(r) = p..(q - 1) /\ r.begin = p /\ r.end = q
  <2>1. PICK w : w = lead \o data \o trail
    OBVIOUS
  <2>2. From(Interval(p, q, w), G) /\ Extends(Interval(p, q, w)) = p..(q - 1)
    BY <1>10, <1>11, <2>1, IntervalFrom
  <2>3. r = Interval(p, q, w)
    BY <1>12, <2>1, Zenon
  <2> QED BY <2>2, <2>3 DEF Interval
<1>14. PICK K : K = C \ O
  OBVIOUS
<1>15. \A iv \in K : Outside(iv, b, e)
  <2> SUFFICES ASSUME NEW iv \in K PROVE Outside(iv, b, e)
    OBVIOUS
  <2>1. ~(iv.begin < e /\ b < iv.end)
    BY <1>4, <1>14
  <2>2. iv.begin \in Nat /\ iv.end \in Nat
    BY <1>1, <1>14 DEF From, Extent
  <2> QED BY <1>1, <2>1, <2>2 DEF Outside
<1>16. CacheOf(K, G) /\ Covered(K) \subseteq Covered(C)
  <2>1. K \subseteq C
    BY <1>14
  <2> QED BY <1>15, <2>1, KeptOf
<1>17. ASSUME NEW iv \in K PROVE ApartFrom(iv, r)
  <2>1. iv \in C /\ iv # first /\ iv # last /\ first \in C /\ last \in C
    BY <1>4, <1>5, <1>14
  <2>2. ApartFrom(iv, first) /\ ApartFrom(iv, last) /\ Outside(iv, b, e)
    BY <1>1, <1>15, <2>1 DEF Apart
  <2>3. PICK i \in Nat, j \in Nat : i = iv.begin /\ j = iv.end /\ i < j
    BY <1>1, <2>1 DEF From, Extent
  <2>4. (j <= u \/ v <= i) /\ (j <= x \/ y <= i) /\ (j <= b \/ e <= i)
    BY <1>6, <1>7, <2>2, <2>3 DEF ApartFrom, Outside
  <2>5. /\ b \in Nat /\ e \in Nat /\ b < e /\ i < j /\ x < e /\ b < v
        /\ p = b \/ p = u
        /\ q = e \/ q = y
    BY <1>1, <1>6, <1>7, <1>8, <1>9, <2>3, Zenon
  <2>6. j <= p \/ q <= i
    <3>1. CASE j <= b
      <4>1. j <= u \/ v <= i
        BY <2>4
      <4>2. ~(v <= i)
        BY <2>5, <3>1
      <4>3. j <= u
        BY <4>1, <4>2
      <4>4. j <= p
        BY <2>5, <3>1, <4>3, Zenon
      <4> QED BY <4>4
    <3>2. CASE e <= i
      <4>1. j <= x \/ y <= i
        BY <2>4
      <4>2. ~(j <= x)
        BY <2>5, <3>2
      <4>3. y <= i
        BY <4>1, <4>2
      <4>4. q <= i
        BY <2>5, <3>2, <4>3, Zenon
      <4> QED BY <4>4
    <3> QED BY <2>4, <3>1, <3>2
  <2> QED BY <1>13, <2>3, <2>6 DEF ApartFrom
<1>18. CacheOf(K \cup {r}, G) /\ Covered(K \cup {r}) = Covered(K) \cup Extends(r)
  BY <1>13, <1>16, <1>17, OneAdded
<1>19. p..(q - 1) \subseteq Covered(C) \cup b..(e - 1)
  <2> SUFFICES ASSUME NEW a \in p..(q - 1), a \notin b..(e - 1) PROVE a \in Covered(C)
    OBVIOUS
  <2>1. /\ b \in Nat /\ e \in Nat /\ b < e /\ x < e /\ b < v
        /\ p = b \/ p = u
        /\ q = e \/ q = y
    BY <1>1, <1>6, <1>7, <1>8, <1>9, Zenon
  <2>2. a \in Nat /\ p <= a /\ a < q /\ (a < b \/ e <= a)
    BY <2>1
  <2>3. a \in u..(v - 1) \/ a \in x..(y - 1)
    <3>1. CASE a < b
      <4>1. u <= a
        BY <2>1, <2>2, <3>1
      <4> QED BY <2>1, <2>2, <3>1, <4>1
    <3>2. CASE e <= a
      <4>1. a < y
        BY <2>1, <2>2, <3>2
      <4> QED BY <2>1, <2>2, <3>2, <4>1
    <3> QED BY <2>2, <3>1, <3>2
  <2>4. a \in Extends(first) \/ a \in Extends(last)
    BY <1>6, <1>7, <2>3 DEF Extends
  <2> QED BY <1>4, <1>5, <2>4 DEF Covered
<1>20. \A iv \in K \cup {r} : Within(iv.begin, iv.end)
  BY <1>1, <1>9, <1>13, <1>14
<1>21. UpdateContiguous(C, b, data) = K \cup {r}
  BY <1>3, <1>5, <1>8, <1>9, <1>12, <1>14
<1> QED BY <1>13, <1>16, <1>18, <1>19, <1>20, <1>21 DEF WriteDone

\* What the cache holds after a write.
LEMMA WriteIs ==
  ASSUME NEW C, NEW F, NEW G, NEW b, NEW e, WriteGood(C, F, G, b, e),
         NEW data, data = BytesOf(G, b, e)
  PROVE  WriteDone(AfterCachedWrite(C, b, data), C, G, b, e)
<1>1. b \in Nat /\ e \in Nat /\ Fits(b, e) /\ G \in ByteMap
  BY DEF WriteGood
<1> DEFINE z == b + Len(data)
           O == Overlap(C, b, z)
           around == {iv \in O : iv.begin <= b /\ z <= iv.end}
<1>2. AfterCachedWrite(C, b, data) =
        CASE O = {} -> C \cup {Interval(b, z, data)}
          [] around # {} -> ReplacedIn(C, around, b, data)
          [] OTHER -> UpdateContiguous(C, b, data)
  BY DEF AfterCachedWrite, ReplacedIn
<1>3. z = e
  <2>1. Len(data) = e - b
    BY <1>1, BytesAre DEF IsBytes
  <2> QED BY <1>1, <2>1
<1> HIDE DEF z
<1>4. O = Overlap(C, b, e) /\ around = {iv \in Overlap(C, b, e) : iv.begin <= b /\ e <= iv.end}
  BY <1>3
<1>5. O = {} => around = {}
  OBVIOUS
<1> HIDE DEF O, around
<1>6. CASE O = {}
  <2>1. AfterCachedWrite(C, b, data) = C \cup {Interval(b, e, data)}
    BY <1>2, <1>3, <1>5, <1>6
  <2> QED BY <1>4, <1>6, <2>1, WriteAlone
<1>7. CASE around # {}
  <2>1. AfterCachedWrite(C, b, data) = ReplacedIn(C, around, b, data)
    BY <1>2, <1>5, <1>7
  <2> QED BY <1>4, <1>7, <2>1, WriteInside
<1>8. CASE O # {} /\ around = {}
  <2>1. AfterCachedWrite(C, b, data) = UpdateContiguous(C, b, data)
    BY <1>2, <1>8
  <2> QED BY <1>4, <1>8, <2>1, WriteAround
<1> QED BY <1>6, <1>7, <1>8

-----------------------------------------------------------------------------
\* The invariant of the cache, and what is read through it.

\* The inductive invariant of the cache.
KeptRight(C, F, lost) ==
  \A a \in Covered(C) \ lost : core = "halted" /\ (a \in spoilt \/ F[a] = shadow[a])

CacheTypes ==
  /\ core \in {"running", "sleeping", "halted"} /\ token \in 0..MaxToken
  /\ ctoken \in 0..token \cup {MaxToken + 1}
  /\ stale \subseteq Addresses
  /\ \A iv \in cache : Within(iv.begin, iv.end)

Contents(F) ==
  F \in ByteMap /\ CacheOf(cache, F) /\ (ctoken = token => KeptRight(cache, F, stale))

CacheInv == CacheTypes /\ \E F : Contents(F)

\* What is read through the filter has the type of bytes.
LEMMA ViewType ==
  ASSUME BreakpointsTypeOK
  PROVE  View \in ByteMap
<1>1. ASSUME NEW addr \in Addresses PROVE FilterUnaligned8(addr) \in Values
  <2> DEFINE data == Raw(addr, 1)
             hits == {bp \in DOMAIN sw \cap Seen(addr, Len(data)) : Covers(bp, addr + 1 - 1)}
  <2>1. DOMAIN data = 1..1 /\ addr \in Nat /\ 1 \in 1..1 /\ addr + 1 - 1 = addr
    BY WholeHalfwords DEF Raw
  <2>2. FilterUnaligned8(addr) =
          IF hits = {} THEN data[1]
          ELSE LET bp == CHOOSE c \in hits : TRUE IN sw[bp][addr + 1 - bp]
    BY <2>1 DEF FilterUnaligned8, ReadMemory, FilterMemory
  <2>3. CASE hits = {}
    <3>1. data[1] = mem[addr]
      BY <2>1 DEF Raw
    <3>2. mem[addr] \in Values
      BY DEF BreakpointsTypeOK, Values
    <3> QED BY <2>2, <2>3, <3>1, <3>2
  <2>4. CASE hits # {}
    <3>1. PICK bp \in hits : bp = CHOOSE c \in hits : TRUE
      BY <2>4
    <3>2. bp \in DOMAIN sw /\ addr \in {bp, bp + 1} /\ bp \in Nat
      BY <2>1, <3>1, WholeHalfwords DEF Covers, BreakpointsTypeOK
    <3>3. addr + 1 - bp \in 1..2
      BY <2>1, <3>2
    <3>4. sw[bp] \in [1..2 -> Values]
      BY <3>2 DEF BreakpointsTypeOK, Values
    <3>5. sw[bp][addr + 1 - bp] \in Values
      BY <3>3, <3>4
    <3>6. FilterUnaligned8(addr) = sw[bp][addr + 1 - bp]
      <4> HIDE DEF hits
      <4> QED BY <2>2, <2>4, <3>1
    <3> QED BY <3>5, <3>6
  <2> QED BY <2>3, <2>4
<1> QED BY <1>1 DEF View, ByteMap

\* The bytes of a cache where it holds them, and those of a view elsewhere.
Merged(C, F, view) == [a \in Addresses |-> IF a \in Covered(C) THEN F[a] ELSE view[a]]

LEMMA MergedIs ==
  ASSUME NEW F \in ByteMap, NEW view \in ByteMap, NEW C, CacheOf(C, F),
         NEW G, G = Merged(C, F, view)
  PROVE  /\ G \in ByteMap /\ CacheOf(C, G)
         /\ \A b, e : Fits(b, e) => ShowsRest(view, C, G, b, e)
<1>1. \A a \in Addresses : G[a] = IF a \in Covered(C) THEN F[a] ELSE view[a]
  BY DEF Merged
<1>2. G \in ByteMap
  BY DEF Merged, ByteMap
<1>3. ASSUME NEW iv \in C PROVE From(iv, G)
  <2>1. From(iv, F)
    BY DEF CacheOf
  <2>2. PICK p \in Nat, q \in Nat : p = iv.begin /\ q = iv.end
    BY <2>1 DEF From, Extent
  <2>3. \A a \in p..(q - 1) : a \in Addresses /\ a \in Covered(C)
    BY <2>1, <2>2 DEF From, Extends, Covered
  <2>4. SameIn(F, G, p, q)
    BY <1>1, <2>3, Zenon DEF SameIn
  <2>5. BytesOf(F, p, q) = BytesOf(G, p, q)
    BY <2>4, BytesAgree
  <2> QED BY <2>1, <2>2, <2>5 DEF From
<1>4. CacheOf(C, G)
  BY <1>3 DEF CacheOf
<1>5. ASSUME NEW b, NEW e, Fits(b, e) PROVE ShowsRest(view, C, G, b, e)
  BY <1>1, <1>5 DEF Fits, ShowsRest
<1> QED BY <1>2, <1>4, <1>5

LEMMA CoveredIs ==
  ASSUME NEW F, NEW C, CacheOf(C, F)
  PROVE  Covered(C) = Holds(C) /\ Covered(C) \subseteq Addresses
<1>1. Covered(C) = Holds(C)
  BY DEF Covered, Holds, Extends
<1> QED BY <1>1 DEF CacheOf, From, Covered

\* What _check_cache leaves of the cache shows what memory holds.
LEMMA CheckedIs ==
  ASSUME CacheTypes, NEW F, Contents(F)
  PROVE  /\ F \in ByteMap /\ CacheOf(Checked, F) /\ KeptRight(Checked, F, Stale)
         /\ \A iv \in Checked : Within(iv.begin, iv.end)
         /\ CheckedToken \in 0..token \cup {MaxToken + 1} /\ Stale \subseteq Addresses
<1>1. CASE Checked = cache /\ core # "running" /\ ctoken = token
  <2>1. KeptRight(cache, F, Stale)
    <3>1. CASE cache = {}
      BY <3>1 DEF KeptRight, Covered
    <3>2. CASE cache # {}
      BY <1>1, <3>2 DEF Contents, Stale
    <3> QED BY <3>1, <3>2
  <2> QED BY <1>1, <2>1 DEF Contents, CacheTypes, Stale, CheckedToken
<1>2. CASE Checked = {}
  <2>1. Covered(Checked) = {}
    BY <1>2 DEF Covered
  <2>2. CacheOf(Checked, F)
    BY <1>2, FS_EmptySet DEF CacheOf, Apart
  <2>3. token \in 0..token
    BY DEF CacheTypes
  <2> QED BY <1>2, <2>1, <2>2, <2>3 DEF Contents, CacheTypes, KeptRight, Stale, CheckedToken
<1> QED BY <1>1, <1>2 DEF Checked

-----------------------------------------------------------------------------
\* Every step keeps the invariant of the cache.

\* What a step does that neither uses the cache nor resumes the core: while the
\* core is halted no byte changes that is not spoilt.
LEMMA CacheUnused ==
  ASSUME CacheInv, UNCHANGED <<cache, ctoken, stale, token>>,
         core' \in {"running", "sleeping", "halted"},
         core # "halted" \/ (core' = core /\ shadow' = shadow /\ spoilt \subseteq spoilt')
  PROVE  CacheInv'
<1>1. PICK F : Contents(F)
  BY DEF CacheInv
<1>2. CacheTypes'
  BY DEF CacheInv, CacheTypes, Within
<1>3. ctoken = token => KeptRight(cache, F, stale)'
  <2> SUFFICES ASSUME ctoken = token, NEW a \in Covered(cache) \ stale
               PROVE  core' = "halted" /\ (a \in spoilt' \/ F[a] = shadow'[a])
    BY DEF KeptRight, Covered
  <2>1. core = "halted" /\ (a \in spoilt \/ F[a] = shadow[a])
    BY <1>1 DEF Contents, KeptRight
  <2> QED BY <2>1
<1>4. Contents(F)'
  BY <1>1, <1>3 DEF Contents, CacheOf
<1> QED BY <1>2, <1>4 DEF CacheInv

\* The core gets a run token the cache cannot have.
LEMMA ResumeCache ==
  ASSUME CacheInv, Resume
  PROVE  CacheInv'
<1>1. PICK F : Contents(F)
  BY DEF CacheInv
<1>2. /\ token \in 0..MaxToken /\ token < MaxToken /\ token' = token + 1 /\ core' = "running"
      /\ ctoken \in 0..token \cup {MaxToken + 1} /\ MaxToken \in Nat
      /\ UNCHANGED <<cache, ctoken, stale>>
  BY TargetMemoryAssumption
    DEF CacheInv, CacheTypes, Resume, caching, TargetMemoryAssumption
<1>3. token' \in 0..MaxToken /\ ctoken' \in 0..token' \cup {MaxToken + 1} /\ ctoken' # token'
  BY <1>2
<1>4. CacheTypes'
  BY <1>2, <1>3 DEF CacheInv, CacheTypes, Within
<1>5. Contents(F)'
  BY <1>1, <1>2, <1>3 DEF Contents, CacheOf
<1> QED BY <1>4, <1>5 DEF CacheInv

\* The steps of breakpoints leave alone what memory would be without them.
LEMMA BreakpointsKeepShadow ==
  ASSUME BreakpointStep
  PROVE  shadow' = shadow /\ spoilt \subseteq spoilt'
<1>1. ASSUME NEW a \in BreakAddresses, NEW type,
             \/ SetHardware(a, type) \/ SetHardwareFails(a, type) \/ SetHardwareLost(a, type)
             \/ ReadInstruction(a, type)
      PROVE  shadow' = shadow /\ spoilt \subseteq spoilt'
  BY <1>1 DEF SetHardware, SetHardwareFails, SetHardwareLost, ReadInstruction
<1>2. CASE SetSoftware \/ SetSoftwareFails \/ SetSoftwareLost
  BY <1>2 DEF SetSoftware, SetSoftwareFails, SetSoftwareLost
<1>6. ASSUME NEW addrs, NEW cleared, NEW restored, RemovedButFor(addrs, cleared, restored)
      PROVE  spoilt \subseteq spoilt'
  BY <1>6 DEF RemovedButFor
<1>3. ASSUME NEW a \in BreakAddresses,
             RemoveBreakpoint(a) \/ RemoveBreakpointFails(a) \/ RemoveBreakpointLost(a)
      PROVE  shadow' = shadow /\ spoilt \subseteq spoilt'
  BY <1>3, <1>6 DEF RemoveBreakpoint, RemoveBreakpointFails, RemoveBreakpointLost, Removed
<1>4. CASE RemoveAllBreakpoints
  BY <1>4, <1>6 DEF RemoveAllBreakpoints, Removed
<1>5. ASSUME NEW a \in BreakAddresses, NEW done \in SUBSET BreakAddresses,
             RemoveAllBreakpointsFail(a, done) \/ RemoveAllBreakpointsOrphaned(a, done)
      PROVE  shadow' = shadow /\ spoilt \subseteq spoilt'
  <2>1. CASE RemoveAllBreakpointsFail(a, done)
    BY <2>1 DEF RemoveAllBreakpointsFail
  <2>2. CASE RemoveAllBreakpointsOrphaned(a, done)
    BY <1>6, <2>2 DEF RemoveAllBreakpointsOrphaned, Removed
  <2> QED BY <1>5, <2>1, <2>2
<1> QED BY <1>1, <1>2, <1>3, <1>4, <1>5 DEF BreakpointStep

\* A read keeps the bytes it returned: those of memory as the filter shows it.
LEMMA ReadCachedStep ==
  ASSUME MemoryInv, CacheInv, NEW b \in Nat, NEW e \in Nat, b < e, ReadCached(b, e),
         UNCHANGED <<core, token, shadow, spoilt>>
  PROVE  CacheInv'
<1>1. PICK F : Contents(F)
  BY DEF CacheInv
<1>2. /\ F \in ByteMap /\ CacheOf(Checked, F) /\ KeptRight(Checked, F, Stale)
      /\ \A iv \in Checked : Within(iv.begin, iv.end)
      /\ CheckedToken \in 0..token \cup {MaxToken + 1} /\ Stale \subseteq Addresses
  BY <1>1, CheckedIs DEF CacheInv
<1>3. PICK G, view, C : C = Checked /\ view = View /\ G = Merged(C, F, view)
  OBVIOUS
<1>4. view \in ByteMap
  BY <1>3, ViewType DEF MemoryInv
<1>5. Within(b, e) /\ Fits(b, e)
  BY WithinAddresses DEF ReadCached, Within
<1>6. CacheOf(C, F)
  BY <1>2, <1>3
<1>7. G \in ByteMap /\ CacheOf(C, G) /\ ShowsRest(view, C, G, b, e)
  BY <1>2, <1>3, <1>4, <1>5, <1>6, MergedIs
<1>8. PICK R : R = ReadUncached(C, view, b, e)
  OBVIOUS
<1>9. /\ CacheOf(C \cup R, G) /\ Covered(R) \subseteq (b..(e - 1)) \ Covered(C)
      /\ \A iv \in R : b <= iv.begin /\ iv.end <= e
  BY <1>5, <1>7, <1>8, ReadUncachedIs
<1>10. /\ cache' = C \cup R /\ ctoken' = CheckedToken
       /\ stale' = IF core = "halted" THEN Stale ELSE Stale \cup (Holds(cache') \ Holds(C))
  BY <1>3, <1>8 DEF ReadCached, AfterCachedRead
<1>11. \A iv \in R : Within(iv.begin, iv.end)
  <2> SUFFICES ASSUME NEW iv \in R PROVE Within(iv.begin, iv.end)
    OBVIOUS
  <2>1. From(iv, G)
    BY <1>9 DEF CacheOf
  <2>2. PICK p \in Nat, q \in Nat : p = iv.begin /\ q = iv.end /\ p < q
    BY <2>1 DEF From, Extent
  <2>3. b <= p /\ q <= e
    BY <1>9, <2>2
  <2>4. Within(p, q)
    BY <1>5, <2>2, <2>3, WithinPart
  <2> QED BY <2>2, <2>4
<1>12. Covered(C \cup R) = Covered(C) \cup Covered(R)
  BY DEF Covered
<1>13. Covered(C) = Holds(C) /\ Holds(C \cup R) = Covered(C \cup R)
       /\ Covered(C \cup R) \subseteq Addresses
  BY <1>7, <1>9, CoveredIs
<1>14. stale' \subseteq Addresses
  BY <1>2, <1>10, <1>13
<1>15. CacheTypes'
  <2>1. \A iv \in cache' : Within(iv.begin, iv.end)
    BY <1>2, <1>3, <1>10, <1>11
  <2>2. /\ core \in {"running", "sleeping", "halted"} /\ token \in 0..MaxToken
        /\ core' = core /\ token' = token
    BY DEF CacheInv, CacheTypes
  <2>3. ctoken' \in 0..token' \cup {MaxToken + 1}
    BY <1>2, <1>10, <2>2
  <2> QED BY <1>14, <2>1, <2>2, <2>3 DEF CacheTypes, Within
<1>16. ASSUME NEW a \in Covered(C \cup R) \ stale'
       PROVE  core = "halted" /\ (a \in spoilt \/ G[a] = shadow[a])
  <2>1. a \in Addresses
    BY <1>13
  <2>2. G[a] = IF a \in Covered(C) THEN F[a] ELSE view[a]
    BY <1>3, <2>1 DEF Merged
  <2>3. CASE a \in Covered(C)
    <3>1. a \notin Stale
      BY <1>10, <1>16
    <3>2. core = "halted" /\ (a \in spoilt \/ F[a] = shadow[a])
      BY <1>2, <1>3, <2>3, <3>1 DEF KeptRight
    <3> QED BY <2>2, <2>3, <3>2
  <2>4. CASE a \notin Covered(C)
    <3>1. core = "halted"
      BY <1>10, <1>13, <1>16, <2>4
    <3>2. view[a] = FilterUnaligned8(a)
      BY <1>3, <2>1 DEF View
    <3>3. a \in spoilt \/ FilterUnaligned8(a) = shadow[a]
      BY <2>1, ReadsAreTransparent DEF TransparentBreakpoints
    <3> QED BY <2>2, <2>4, <3>1, <3>2, <3>3
  <2> QED BY <2>3, <2>4
<1>17. KeptRight(cache, G, stale)'
  BY <1>10, <1>16 DEF KeptRight, Covered
<1>18. Contents(G)'
  BY <1>7, <1>9, <1>10, <1>17 DEF Contents, CacheOf
<1> QED BY <1>15, <1>18 DEF CacheInv

\* An access that is not cached, or a write that fails: the bytes that were
\* written are no longer claimed.
LEMMA NotCachedStep ==
  ASSUME CacheInv, NEW lost, lost \subseteq Addresses,
         cache' = Checked, ctoken' = CheckedToken, stale' = Stale \cup lost,
         UNCHANGED <<core, token>>,
         \A a \in Addresses \ lost : shadow'[a] = shadow[a] /\ (a \in spoilt => a \in spoilt')
  PROVE  CacheInv'
<1>1. PICK F : Contents(F)
  BY DEF CacheInv
<1>2. /\ F \in ByteMap /\ CacheOf(Checked, F) /\ KeptRight(Checked, F, Stale)
      /\ \A iv \in Checked : Within(iv.begin, iv.end)
      /\ CheckedToken \in 0..token \cup {MaxToken + 1} /\ Stale \subseteq Addresses
  BY <1>1, CheckedIs DEF CacheInv
<1>3. PICK C, S : C = Checked /\ S = Stale
  OBVIOUS
<1>4. Covered(C) \subseteq Addresses
  BY <1>2, <1>3, CoveredIs
<1>5. ASSUME NEW a \in Covered(C) \ stale'
      PROVE  core' = "halted" /\ (a \in spoilt' \/ F[a] = shadow'[a])
  <2>1. a \in Addresses \ lost /\ a \notin Stale
    BY <1>4, <1>5
  <2>2. core = "halted" /\ (a \in spoilt \/ F[a] = shadow[a])
    BY <1>2, <1>3, <2>1 DEF KeptRight
  <2> QED BY <2>1, <2>2
<1>6. KeptRight(cache, F, stale)'
  BY <1>3, <1>5 DEF KeptRight, Covered
<1>7. CacheTypes'
  BY <1>2 DEF CacheInv, CacheTypes, Within
<1>8. Contents(F)'
  BY <1>2, <1>6 DEF Contents, CacheOf
<1> QED BY <1>7, <1>8 DEF CacheInv

\* A write through the cache: the bytes of memory and of the cache are the same
\* ones again, those that were stale included, but for those called stale.
LEMMA WriteCachedStep ==
  ASSUME CacheInv, NEW b \in Nat, NEW e \in Nat, b < e, Within(b, e),
         NEW data, data = [k \in 1..(e - b) |-> 1],
         cache' = AfterCachedWrite(Checked, b, data), ctoken' = CheckedToken,
         stale' \subseteq Stale \cup b..(e - 1), Stale \ (b..(e - 1)) \subseteq stale',
         \A a \in Addresses \ (b..(e - 1)) : shadow'[a] = shadow[a],
         \A a \in spoilt \ (b..(e - 1)) : a \in spoilt',
         \A a \in (b..(e - 1)) \ stale' : core = "halted" /\ shadow'[a] = 1,
         UNCHANGED <<core, token>>
  PROVE  CacheInv'
<1>1. PICK F : Contents(F)
  BY DEF CacheInv
<1>2. /\ F \in ByteMap /\ CacheOf(Checked, F) /\ KeptRight(Checked, F, Stale)
      /\ \A iv \in Checked : Within(iv.begin, iv.end)
      /\ CheckedToken \in 0..token \cup {MaxToken + 1} /\ Stale \subseteq Addresses
  BY <1>1, CheckedIs DEF CacheInv
<1>3. Within(b, e) /\ Fits(b, e)
  BY WithinAddresses
<1> DEFINE addrs == b..(e - 1)
           G == [a \in Addresses |-> IF a \in addrs THEN 1 ELSE F[a]]
<1>4. addrs \subseteq Addresses
  BY <1>3 DEF Fits
<1>5. G \in ByteMap /\ Rewrites(G, F, b, e) /\ \A a \in addrs : G[a] = 1
  BY <1>2, <1>4 DEF ByteMap, Values, Rewrites
<1>6. data = BytesOf(G, b, e)
  <2>1. \A k \in 1..(e - b) : b + k - 1 \in addrs
    OBVIOUS
  <2>2. \A k \in 1..(e - b) : G[b + k - 1] = 1
    BY <1>5, <2>1
  <2> HIDE DEF G
  <2> QED BY <2>2 DEF BytesOf
<1>7. /\ \A a \in Addresses \ addrs : shadow'[a] = shadow[a]
      /\ \A a \in spoilt \ addrs : a \in spoilt'
      /\ \A a \in addrs \ stale' : core = "halted" /\ shadow'[a] = 1
  OBVIOUS
<1>8. /\ cache' = AfterCachedWrite(Checked, b, data) /\ ctoken' = CheckedToken
      /\ stale' \subseteq Stale \cup addrs /\ Stale \ addrs \subseteq stale'
  OBVIOUS
<1> HIDE DEF G
<1>9. PICK C, D, S : C = Checked /\ D = AfterCachedWrite(C, b, data) /\ S = Stale
  OBVIOUS
<1>10. WriteGood(C, F, G, b, e)
  BY <1>2, <1>3, <1>5, <1>9 DEF WriteGood
<1>11. WriteDone(D, C, G, b, e)
  BY <1>6, <1>9, <1>10, WriteIs
<1>12. /\ CacheOf(D, G) /\ Covered(D) \subseteq Covered(C) \cup addrs
       /\ \A iv \in D : Within(iv.begin, iv.end)
  BY <1>11 DEF WriteDone
<1>13. Covered(D) \subseteq Addresses
  BY <1>12, CoveredIs
<1>14. ASSUME NEW a \in Covered(D) \ stale'
       PROVE  core = "halted" /\ (a \in spoilt' \/ G[a] = shadow'[a])
  <2>1. a \in Addresses
    BY <1>13
  <2>2. CASE a \in addrs
    <3>1. core = "halted" /\ shadow'[a] = 1
      BY <1>7, <1>14, <2>2
    <3> QED BY <1>5, <2>2, <3>1
  <2>3. CASE a \notin addrs
    <3>1. a \in Covered(C) \ Stale
      BY <1>8, <1>12, <1>14, <2>3
    <3>2. core = "halted" /\ (a \in spoilt \/ F[a] = shadow[a])
      BY <1>2, <1>9, <3>1 DEF KeptRight
    <3>3. G[a] = F[a] /\ shadow'[a] = shadow[a]
      BY <1>5, <1>7, <2>1, <2>3 DEF Rewrites
    <3>4. a \in spoilt => a \in spoilt'
      BY <1>7, <2>3
    <3> QED BY <3>2, <3>3, <3>4
  <2> QED BY <2>2, <2>3
<1>15. cache' = D
  BY <1>8, <1>9
<1>16. KeptRight(cache, G, stale)'
  BY <1>14, <1>15 DEF KeptRight, Covered
<1>17. CacheTypes'
  <2>1. stale' \subseteq Addresses
    BY <1>2, <1>4, <1>8
  <2> QED BY <1>2, <1>8, <1>12, <1>15, <2>1 DEF CacheInv, CacheTypes, Within
<1>18. Contents(G)'
  BY <1>5, <1>12, <1>15, <1>16 DEF Contents, CacheOf
<1> QED BY <1>17, <1>18 DEF CacheInv

\* Every step of the memory cache.
LEMMA CacheStepKeeps ==
  ASSUME MemoryInv, CacheInv, CacheStep
  PROVE  CacheInv'
<1>1. \A r \in CacheRanges :
        /\ r[1] \in Nat /\ r[2] \in Nat /\ r[1] < r[2] /\ r[1]..(r[2] - 1) \subseteq Addresses
  BY TargetMemoryAssumption DEF TargetMemoryAssumption
<1>2. UNCHANGED <<core, token>>
  BY DEF CacheStep, running
<1>7. BreakpointsTypeOK
  BY DEF MemoryInv
<1>3. ASSUME NEW r \in CacheRanges, ReadCached(r[1], r[2]), UNCHANGED breakpoints
      PROVE  CacheInv'
  BY <1>1, <1>2, <1>3, ReadCachedStep DEF breakpoints
<1>4. ASSUME NEW r \in CacheRanges, ReadUncacheable(r[1], r[2]), UNCHANGED breakpoints
      PROVE  CacheInv'
  <2>1. cache' = Checked /\ ctoken' = CheckedToken /\ stale' = Stale \cup {}
    BY <1>4 DEF ReadUncacheable
  <2>2. shadow' = shadow /\ spoilt' = spoilt
    BY <1>4 DEF breakpoints
  <2>3. PICK lost : lost = {}
    OBVIOUS
  <2>4. /\ lost \subseteq Addresses /\ stale' = Stale \cup lost
        /\ \A a \in Addresses \ lost : shadow'[a] = shadow[a] /\ (a \in spoilt => a \in spoilt')
    BY <2>1, <2>2, <2>3
  <2> QED BY <1>2, <2>1, <2>4, NotCachedStep
<1>5. ASSUME NEW r \in CacheRanges, WriteCached(r[1], r[2])
      PROVE  CacheInv'
  <2>1. PICK b \in Nat, e \in Nat : b = r[1] /\ e = r[2] /\ b < e /\ b..(e - 1) \subseteq Addresses
    BY <1>1
  <2>2. PICK data : data = [k \in 1..(e - b) |-> 1]
    OBVIOUS
  <2>3. Within(b, e) /\ cache' = AfterCachedWrite(Checked, b, data) /\ ctoken' = CheckedToken
    BY <1>5, <2>1, <2>2 DEF WriteCached, Within
  <2>4. stale' = IF core = "halted" THEN Stale \ (b..(e - 1)) ELSE Stale \cup (b..(e - 1))
    BY <1>5, <2>1 DEF WriteCached
  <2>5. /\ \A a \in Addresses \ (b..(e - 1)) : shadow'[a] = shadow[a]
        /\ \A a \in b..(e - 1) : shadow'[a] = 1
        /\ \A a \in spoilt \ (b..(e - 1)) : a \in spoilt'
    <3>1. PICK addrs : addrs = b..(e - 1)
      OBVIOUS
    <3>2. Written(addrs, [a \in addrs |-> 1])
      BY <1>5, <2>1, <3>1 DEF WriteCached
    <3>3. addrs \subseteq Addresses
      BY <2>1, <3>1
    <3> QED BY <3>1, <3>2, <3>3 DEF Written
  <2>6. /\ stale' \subseteq Stale \cup b..(e - 1) /\ Stale \ (b..(e - 1)) \subseteq stale'
        /\ \A a \in (b..(e - 1)) \ stale' : core = "halted" /\ shadow'[a] = 1
    BY <2>4, <2>5
  <2> QED BY <1>2, <2>1, <2>2, <2>3, <2>5, <2>6, WriteCachedStep, Zenon
<1>8. ASSUME NEW r \in CacheRanges, WriteCachedLost(r[1], r[2])
      PROVE  CacheInv'
  <2>1. PICK b \in Nat, e \in Nat : b = r[1] /\ e = r[2] /\ b < e /\ b..(e - 1) \subseteq Addresses
    BY <1>1
  <2>2. PICK data : data = [k \in 1..(e - b) |-> 1]
    OBVIOUS
  <2>3. Within(b, e) /\ cache' = AfterCachedWrite(Checked, b, data) /\ ctoken' = CheckedToken
    BY <1>8, <2>1, <2>2 DEF WriteCachedLost, Within
  <2>4. stale' = Stale \cup (b..(e - 1))
    BY <1>8, <2>1 DEF WriteCachedLost
  <2>5. /\ \A a \in Addresses \ (b..(e - 1)) : shadow'[a] = shadow[a]
        /\ \A a \in spoilt \ (b..(e - 1)) : a \in spoilt'
    <3>1. PICK done \in SUBSET (b..(e - 1)) : Written(done, [a \in done |-> 1])
      BY <1>8, <2>1 DEF WriteCachedLost
    <3> QED BY <2>1, <3>1 DEF Written
  <2>6. /\ stale' \subseteq Stale \cup b..(e - 1) /\ Stale \ (b..(e - 1)) \subseteq stale'
        /\ \A a \in (b..(e - 1)) \ stale' : core = "halted" /\ shadow'[a] = 1
    BY <2>4
  <2> QED BY <1>2, <2>1, <2>2, <2>3, <2>5, <2>6, WriteCachedStep, Zenon
<1>6. ASSUME NEW r \in CacheRanges, WriteCachedFails(r[1], r[2])
      PROVE  CacheInv'
  <2>1. PICK b \in Nat, e \in Nat : b = r[1] /\ e = r[2] /\ b..(e - 1) \subseteq Addresses
    BY <1>1
  <2>2. PICK middle \in b..e :
          /\ Written(b..(middle - 1), [a \in b..(middle - 1) |-> 1])
          /\ stale' = Stale \cup (b..(middle - 1))
    BY <1>6, <2>1 DEF WriteCachedFails
  <2> DEFINE lost == b..(middle - 1)
  <2>3. lost \subseteq Addresses
    <3>1. lost \subseteq b..(e - 1)
      BY <2>2
    <3> QED BY <2>1, <3>1
  <2>4. \A a \in Addresses \ lost : shadow'[a] = shadow[a] /\ (a \in spoilt => a \in spoilt')
    BY <2>2 DEF Written
  <2>5. cache' = Checked /\ ctoken' = CheckedToken /\ stale' = Stale \cup lost
    BY <1>6, <2>2 DEF WriteCachedFails
  <2> HIDE DEF lost
  <2> QED BY <1>2, <2>3, <2>4, <2>5, NotCachedStep
<1> QED BY <1>3, <1>4, <1>5, <1>6, <1>8 DEF CacheStep

\* The cache is empty at first, and its token is none the core ever has.
LEMMA InitCache == Init => CacheInv
<1> SUFFICES ASSUME Init PROVE CacheInv
  OBVIOUS
<1>1. /\ core = "halted" /\ token = 0 /\ cache = {} /\ ctoken = MaxToken + 1 /\ stale = {}
      /\ MaxToken \in Nat
  BY TargetMemoryAssumption DEF Init, TargetMemoryAssumption
<1>2. ctoken # token /\ token \in 0..MaxToken
  BY <1>1
<1>3. PICK F : F = [a \in Addresses |-> 0]
  OBVIOUS
<1>4. Contents(F)
  BY <1>1, <1>2, <1>3, FS_EmptySet DEF Contents, ByteMap, Values, CacheOf, Apart
<1> QED BY <1>1, <1>2, <1>4 DEF CacheInv, CacheTypes

LEMMA NextCache == IInv /\ CacheInv /\ [Next]_vars => CacheInv'
<1> SUFFICES ASSUME IInv, CacheInv, [Next]_vars PROVE CacheInv'
  OBVIOUS
<1>1. MemoryInv /\ core \in {"running", "sleeping", "halted"}
  BY DEF IInv, CacheInv, CacheTypes
<1>2. CASE Resume
  BY <1>2, ResumeCache
<1>3. CASE CoreMoves
  BY <1>3, CacheUnused DEF CoreMoves, caching
<1>4. ASSUME NEW a \in ProgramBytes, ProgramWrites(a) PROVE CacheInv'
  BY <1>1, <1>4, CacheUnused DEF ProgramWrites, caching, running
<1>5. CASE BreakpointStep
  <2>1. shadow' = shadow /\ spoilt \subseteq spoilt'
    BY <1>5, BreakpointsKeepShadow
  <2>2. UNCHANGED <<running, caching>>
    BY <1>5 DEF BreakpointStep
  <2> QED BY <1>1, <2>1, <2>2, CacheUnused DEF caching, running
<1>6. CASE CacheStep
  BY <1>1, <1>6, CacheStepKeeps
<1>7. CASE WatchStep
  BY <1>1, <1>7, CacheUnused DEF WatchStep, running, caching
<1>9. CASE ErrorRaised
  BY <1>1, <1>9, CacheUnused DEF ErrorRaised, breakpoints, running, caching
<1>8. CASE UNCHANGED vars
  BY <1>1, <1>8, CacheUnused DEF vars
<1> QED BY <1>2, <1>3, <1>4, <1>5, <1>6, <1>7, <1>8, <1>9 DEF Next

LEMMA CacheInvariance == Spec => []CacheInv
<1> QED BY InitCache, NextCache, Invariance, PTL DEF Spec

-----------------------------------------------------------------------------
\* The invariant implies that the intervals are apart and within regions, ...
LEMMA IntervalsAre ==
  ASSUME CacheInv
  PROVE  IntervalsDisjoint /\ \A iv \in cache : iv.begin < iv.end /\ iv.data \in Seq({0, 1, Bkpt})
<1>1. PICK F : Contents(F)
  BY DEF CacheInv
<1>2. ASSUME NEW iv \in cache
      PROVE  /\ iv.begin < iv.end /\ iv.data \in Seq({0, 1, Bkpt})
             /\ Len(iv.data) = iv.end - iv.begin
  <2>1. From(iv, F) /\ F \in ByteMap
    BY <1>1 DEF Contents, CacheOf
  <2>2. PICK p \in Nat, q \in Nat : p = iv.begin /\ q = iv.end /\ p < q
    BY <2>1 DEF From, Extent
  <2>3. Fits(p, q) /\ iv.data = BytesOf(F, p, q)
    BY <2>1, <2>2 DEF From, Extends, Fits
  <2>4. IsBytes(iv.data, F, p, q)
    BY <2>1, <2>3, BytesAre
  <2>5. iv.data \in Seq({0, 1, Bkpt}) /\ Len(iv.data) = q - p
    BY <2>4 DEF IsBytes, Values
  <2> QED BY <2>2, <2>5
<1>3. \A i, j \in cache : i = j \/ i.end <= j.begin \/ j.end <= i.begin
  BY <1>1 DEF Contents, CacheOf, Apart, ApartFrom
<1>4. \A iv \in cache : RegionAllows(Map, iv.begin, iv.end) /\ Cacheable(Map, iv.begin, iv.end)
  BY DEF CacheInv, CacheTypes, Within
<1> QED BY <1>2, <1>3, <1>4 DEF IntervalsDisjoint

\* ... and that a read through the cache shows what memory would hold.
LEMMA CachedReadsAre ==
  ASSUME MemoryInv, CacheInv
  PROVE  CachedReadsRight
<1> DEFINE Right(b, e) ==
      b..(e - 1) \subseteq Ram /\ b..(e - 1) \cap (stale \cup spoilt) = {} =>
        CachedRead(cache, View, b, e) = BytesOf(shadow, b, e)
<1> SUFFICES ASSUME core = "halted" /\ ctoken = token
             PROVE  \A b \in Addresses, length \in 1..4 : Right(b, b + length)
  BY Zenon DEF CachedReadsRight
<1> SUFFICES ASSUME NEW b \in Addresses, NEW length \in 1..4 PROVE Right(b, b + length)
  OBVIOUS
<1>1. PICK F : Contents(F)
  BY DEF CacheInv
<1>2. F \in ByteMap /\ CacheOf(cache, F) /\ KeptRight(cache, F, stale)
  BY <1>1 DEF Contents
<1>3. b \in Nat
  BY WholeHalfwords
<1>4. PICK e \in Nat : e = b + length /\ b < e
  BY <1>3
<1> SUFFICES ASSUME b..(e - 1) \subseteq Ram, b..(e - 1) \cap (stale \cup spoilt) = {}
             PROVE  CachedRead(cache, View, b, e) = BytesOf(shadow, b, e)
  BY <1>4
<1>5. /\ b..(e - 1) \subseteq Addresses
      /\ \A a \in b..(e - 1) : a \notin stale /\ a \notin spoilt
  BY DEF Ram
<1>6. PICK G, view : view = View /\ G = Merged(cache, F, view)
  OBVIOUS
<1>7. view \in ByteMap
  BY <1>6, ViewType DEF MemoryInv
<1>8. Fits(b, e)
  BY <1>3, <1>4, <1>5 DEF Fits
<1>9. G \in ByteMap /\ CacheOf(cache, G) /\ ShowsRest(view, cache, G, b, e)
  BY <1>2, <1>6, <1>7, <1>8, MergedIs
<1>10. CachedRead(cache, view, b, e) = BytesOf(G, b, e)
  BY <1>4, <1>8, <1>9, CachedReadIs
<1>11. ASSUME NEW a \in b..(e - 1) PROVE G[a] = shadow[a]
  <2>1. a \in Addresses /\ a \notin stale /\ a \notin spoilt
    BY <1>5
  <2>2. G[a] = IF a \in Covered(cache) THEN F[a] ELSE view[a]
    BY <1>6, <2>1 DEF Merged
  <2>3. a \in Covered(cache) => F[a] = shadow[a]
    BY <1>2, <2>1 DEF KeptRight
  <2>4. view[a] = shadow[a]
    BY <1>6, <2>1, ReadsAreTransparent DEF View, TransparentBreakpoints
  <2> QED BY <2>2, <2>3, <2>4
<1>12. BytesOf(G, b, e) = BytesOf(shadow, b, e)
  <2>1. SameIn(G, shadow, b, e)
    BY <1>11 DEF SameIn
  <2> QED BY <1>3, <2>1, BytesAgree
<1> QED BY <1>6, <1>10, <1>12

-----------------------------------------------------------------------------
\* The lists of breakpoints, the FPB's records and registers and memory are of
\* their types, and the FPB's count never exceeds its comparators, however
\* operations fail and overlap (manager.py, software.py, fpb.py).
THEOREM BreakpointTypes == Spec => []BreakpointsTypeOK
<1>1. IInv => BreakpointsTypeOK
  BY DEF IInv, MemoryInv
<1> QED BY <1>1, Invariance, PTL

\* Whatever breakpoints are set, being set or removed, by accesses that fail or
\* not, a byte, halfword or word read through the core is what memory would
\* hold had none ever been set (filter_memory of software.py).  Bytes written
\* under a breakpoint are excepted, and those of a breakpoint whose write
\* raised or whose restoring write was lost after the provider forgot it.
THEOREM ReadsHideBreakpoints == Spec => []TransparentBreakpoints
<1>1. IInv => TransparentBreakpoints
  BY ReadsAreTransparent DEF IInv
<1> QED BY <1>1, Invariance, PTL

\* Removing restores: BKPT stands in memory only where the software provider
\* has a breakpoint, the same bytes excepted, and, until a removal failed or a
\* write of BKPT was lost, at each of those, which the manager knows
\* (set_breakpoint and remove_breakpoint of software.py).
THEOREM BreakpointsAreInPlace == Spec => []SoftwareBreakpointsInPlace
<1>1. IInv => SoftwareBreakpointsInPlace
  BY InPlaceIs DEF IInv
<1> QED BY <1>1, Invariance, PTL

\* Until an access to it fails, at once or late, the FPB's comparators match
\* exactly the hardware breakpoints the manager lists and its count is theirs.
\* A comparator of the DWT watches for what its record says, unless its size
\* was refused or the last operation on it had an access that failed; and no
\* watchpoint ever has two records (set_breakpoint, set_watchpoint and their
\* removals).
THEOREM UnitsAreAsBelieved == Spec => []UnitsAgree
<1>1. IInv => UnitsAgree
  BY UnitsAgreeIs DEF IInv
<1> QED BY <1>1, Invariance, PTL

\* The variables of breakpoints, the core, the cache and the watchpoints are of
\* their types: an interval of the cache is never empty and holds bytes.
THEOREM TypesOfMemory == Spec => []TypeOK
<1>1. IInv /\ CacheInv => TypeOK
  BY IntervalsAre DEF IInv, MemoryInv, DWTInv, WatchTypesOK, CacheInv, CacheTypes, TypeOK
<1> QED BY <1>1, Invariance, CacheInvariance, PTL

\* The cache's intervals are apart, as long as their data and each within one
\* cacheable region, and a read through the cache of any range of RAM returns
\* what memory would show, however reads, writes and failures of them overlap
\* and whatever the core and the breakpoints do in between, bytes that the
\* code lets go stale excepted: those read while the core slept and those of a
\* write that raised or was lost later (cache.py).
THEOREM CacheIsRight == Spec => []CacheRight
<1>1. IInv /\ CacheInv => CacheRight
  BY IntervalsAre, CachedReadsAre DEF IInv, CacheRight
<1> QED BY <1>1, Invariance, CacheInvariance, PTL
=============================================================================
