-------------------------- MODULE AccessPortProofs -------------------------
EXTENDS AccessPort, SequenceLemmas, FiniteSetTheorems

(***************************************************************************)
(* Accesses reach the AP, the bank, the address and the size they are for, *)
(* and the memory holds and answers what was asked, for every set of APs,  *)
(* page size, memory and menu of requests.                                 *)
(*                                                                         *)
(* The inductive invariant has three parts.  Control holds the types, the  *)
(* shape of calls and the order of power and accesses.  Copies says what   *)
(* each register will hold when the k-th queued access is executed: what   *)
(* the latest access before it sets, or what the register holds now, when  *)
(* none does.  The copies of SELECT and CSW on the host equal that value   *)
(* after the whole queue, TAR is as each transfer needs it, or the         *)
(* register is known to be lost.  AccessRight alone is not inductive: it   *)
(* speaks of executed accesses only, and the accesses are queued long      *)
(* before.  MemoryInv relates the memory to what is wanted of it: they     *)
(* differ only in bytes that the queue and the call in progress still      *)
(* write or that a failure spoilt, and the read in progress has its first  *)
(* bytes and finds the others, in order, in the queue and the call.        *)
(***************************************************************************)

-----------------------------------------------------------------------------
\* The steps of calls and the accesses in the queue.
Registers ==
  {"connect", "idcode", "idcode2", "clear", "select0", "power", "poll", "idr", "await", "csw",
   "tar", "drw", "select", "flush", "clock", "close", "reset", "result", "abort"}
Sizes == {0, 1, 2, 4}
Widths == {1, 2, 4}
StepType ==
  [reg : Registers, ap : APs, addr : Nat, size : Sizes, write : BOOLEAN, guarded : BOOLEAN]

\* A transfer is of 1, 2 or 4 bytes of the memory, at a multiple of its size.
WellFormed(e) ==
  /\ e.reg \in {"csw", "drw"} => e.size # 0
  /\ e.reg = "drw" => e.addr % e.size = 0 /\ RangeOf(e) \subseteq Memory
  /\ e.reg = "select" => e.addr \in {0, 15}
  /\ e.reg = "select0" => e.ap = 0 /\ e.addr = 0
Accesses == {e \in StepType : WellFormed(e)}

(***************************************************************************)
(* The value a register is to have before the k-th access of a list: that  *)
(* of the latest access before it that sets the register, or the one it    *)
(* had before the list, when none does.  A register is Select, or CSW or   *)
(* TAR of an AP.                                                           *)
(***************************************************************************)
CSW(ap) == <<"csw", ap>>
TAR(ap) == <<"tar", ap>>
Sets(e, r) ==
  \/ e.reg = "select" /\ r = Select
  \/ e.reg = "csw" /\ r = CSW(e.ap)
  \/ e.reg \in {"tar", "drw"} /\ r = TAR(e.ap)
Value(e) ==
  IF e.reg = "select" THEN <<e.ap, e.addr>>
  ELSE IF e.reg = "csw" THEN e.size
  ELSE IF e.reg = "tar" THEN e.addr
  ELSE Incremented(e.addr, e.size)

Latest(list, k, r, v) ==
  \E j \in 1..k - 1 : /\ Sets(list[j], r) /\ Value(list[j]) = v
                      /\ \A i \in j + 1..k - 1 : ~Sets(list[i], r)
Untouched(list, k, r) == \A i \in 1..k - 1 : ~Sets(list[i], r)

\* What a register will hold when the k-th access of the queue is executed, as
\* far as it is not known to be lost.
Gone == lost \cup dropped
SelectReady(k, v) ==
  \/ Latest(queue, k, Select, v)
  \/ Untouched(queue, k, Select) /\ (Select \in Gone \/ hw.select = v)
CswReady(k, a, v) ==
  \/ Latest(queue, k, CSW(a), v)
  \/ Untouched(queue, k, CSW(a)) /\ (CSW(a) \in Gone \/ hw.csw[a] = v)
TarReady(k, a, v) ==
  \/ Latest(queue, k, TAR(a), v)
  \/ Untouched(queue, k, TAR(a)) /\ (TAR(a) \in Gone \/ hw.tar[a] = v)

\* After all that is queued, the copies the host keeps are right.
End == Len(queue) + 1
SelectKnown == dpSelect # Unknown => SelectReady(End, dpSelect)
CswKnown == \A a \in APs : csw[a] # Unset => CswReady(End, a, csw[a])

\* Every access in the queue finds what it is for.
Finds(k, e) ==
  /\ IsAccess(e) => SelectReady(k, <<e.ap, BankOf(e)>>)
  /\ e.reg = "drw" => CswReady(k, e.ap, e.size) /\ TarReady(k, e.ap, e.addr)
QueueReady == \A k \in 1..Len(queue) : Finds(k, queue[k])

\* And so will every transfer of the call in progress.
ReadyInCall(k, e) ==
  /\ \/ Latest(todo, k, CSW(e.ap), e.size)
     \/ Untouched(todo, k, CSW(e.ap)) /\ csw[e.ap] = e.size
  /\ \/ Latest(todo, k, TAR(e.ap), e.addr)
     \/ Untouched(todo, k, TAR(e.ap)) /\ TarReady(End, e.ap, e.addr)
TodoReady == \A k \in 1..Len(todo) : todo[k].reg = "drw" => ReadyInCall(k, todo[k])

\* A call whose transfers all find CSW and TAR set by the call itself.
SelfContained(steps) ==
  \A k \in 1..Len(steps) : steps[k].reg = "drw" =>
    /\ Latest(steps, k, CSW(steps[k].ap), steps[k].size)
    /\ Latest(steps, k, TAR(steps[k].ap), steps[k].addr)

NothingDropped == failure = NoError => dropped = {}

\* No access is made before the target is powered.
Powered ==
  /\ phase = "open" => hw.power = "on"
  /\ (\E k \in 1..Len(queue) : IsAccess(queue[k])) => hw.power = "on"
  /\ hw.power # "on" =>
       \A k \in 1..Len(todo) : IsAccess(todo[k]) \/ todo[k].reg = "await" =>
                                 \E j \in 1..k - 1 : todo[j].reg = "poll"

\* The steps a call may consist of.
OpeningSteps ==
  {"connect", "idcode", "idcode2", "clear", "select0", "power", "poll", "idr", "await"}
Shape ==
  /\ phase = "closed" => todo = << >>
  /\ phase = "opening" => /\ csw = [a \in APs |-> Unset]
                          /\ \A k \in 1..Len(todo) : todo[k].reg \in OpeningSteps
  /\ phase = "open" => \A k \in 1..Len(todo) : todo[k].reg \notin OpeningSteps \ {"idr", "await"}
  /\ \A k \in 1..Len(todo) :
       /\ todo[k].reg = "idcode" => k < Len(todo) /\ todo[k + 1].reg = "idcode2"
       /\ todo[k].reg \in {"clock", "reset", "close", "flush"} => Len(todo) = 1
  /\ At("reset") => \A a \in Registered : csw[a] = Unset

Selections == (APs \X {0, 15}) \cup {Unknown}
HwType ==
  [select : Selections, csw : [APs -> Sizes], tar : [APs -> Nat], sticky : BOOLEAN,
   power : {"off", "asked", "on"}]
ReadingType ==
  [ap : APs, addr : Nat, length : Nat, skip : Nat, got : Seq(Nat), sound : BOOLEAN]
Types ==
  /\ menu \in Menus /\ TypeOK
  /\ todo \in Seq(Accesses) /\ queue \in Seq(Accesses)
  /\ \A k \in 1..Len(todo) : todo[k].reg # "select"
  /\ hw \in HwType /\ reading \in ReadingType
  /\ mem \in [APs -> [Memory -> Nat]] /\ wanted \in [APs -> [Memory -> Nat]]

(***************************************************************************)
(* Memory.                                                                 *)
(***************************************************************************)
Pending == WrittenBy(queue) \cup WrittenBy(todo)
BytesRight ==
  /\ \A a \in APs, b \in Memory :
       <<a, b>> \notin spoilt \cup Pending => mem[a][b] = wanted[a][b]
  /\ \A a \in APs, b \in Memory : <<a, b>> \in Pending => wanted[a][b] = Stamp(a, b)
  /\ phase # "open" => \A k \in 1..Len(queue) : queue[k].reg # "drw"

\* The reads of the call in progress that are not executed: those in the queue
\* after the first m accesses, and those that are still to be queued.
InOrder ==
  {p \in Accesses \X Accesses : IsRead(p[1]) /\ IsRead(p[2]) => p[1].addr + p[1].size <= p[2].addr}
Queued(m) == SubSeq(queue, m + 1, Len(queue))
ReadBytes(steps) == UNION {RangeOf(e) : e \in {x \in Range(steps) : IsRead(x)}}
Ours(steps) ==
  \A e \in Range(steps) : e.reg = "drw" => ~e.write /\ e.ap = reading.ap
Rest(m) ==
  /\ Cardinality({i \in 1..m : IsRead(queue[i])}) = reading.skip
  /\ Ours(Queued(m)) /\ Ours(todo)
  /\ InRelation(Queued(m), InOrder) /\ InRelation(todo, InOrder)
  /\ \A x \in Range(Queued(m)), y \in Range(todo) : <<x, y>> \in InOrder
  /\ ReadBytes(Queued(m)) \cup ReadBytes(todo)
       = reading.addr + Len(reading.got) .. reading.addr + reading.length - 1
ReadRight ==
  /\ reading # NoReading => phase = "open" /\ todo # << >> /\ todo[Len(todo)].reg = "await"
  /\ reading.length > 0 /\ failure = NoError =>
       /\ Len(reading.got) <= reading.length
       /\ reading.addr..reading.addr + reading.length - 1 \subseteq Memory
       /\ reading.sound =>
            \A k \in 1..Len(reading.got) :
              \/ <<reading.ap, reading.addr + k - 1>> \in spoilt
              \/ reading.got[k] = wanted[reading.ap][reading.addr + k - 1]
       /\ \E m \in 0..Len(queue) : Rest(m)

Control == Types /\ Shape /\ NothingDropped /\ Powered
Copies == SelectKnown /\ CswKnown /\ QueueReady /\ TodoReady /\ AccessRight
MemoryInv == BytesRight /\ ReadRight /\ <<"answer", 0>> \notin wrong

IInv == Control /\ Copies /\ MemoryInv

-----------------------------------------------------------------------------
(* Lists of accesses.                                                      *)

\* A list that has elements.
LEMMA NotEmpty ==
  ASSUME NEW s, Len(s) # 0
  PROVE  s # << >>
<1>1. \A l : l = << >> => Len(l) = 0
  OBVIOUS
<1> QED BY <1>1, Zenon

\* When the head of a list is executed, what it set is what was there before
\* the rest of the list.
LEMMA LatestInTail ==
  ASSUME NEW S, NEW list \in Seq(S), list # << >>, NEW k \in 1..Len(list), NEW r, NEW v
  PROVE  /\ Latest(list, k + 1, r, v) =>
              \/ Latest(Tail(list), k, r, v)
              \/ Untouched(Tail(list), k, r) /\ Sets(list[1], r) /\ Value(list[1]) = v
         /\ Untouched(list, k + 1, r) => Untouched(Tail(list), k, r) /\ ~Sets(list[1], r)
<1>1. /\ Len(list) \in Nat /\ (k + 1) - 1 = k
      /\ \A i \in 1..Len(list) - 1 : Tail(list)[i] = list[i + 1]
  BY DropHead
<1>2. \A i \in 1..k - 1 : Tail(list)[i] = list[i + 1] /\ i + 1 \in 1..k
  BY <1>1
<1>3. Untouched(list, k + 1, r) => Untouched(Tail(list), k, r) /\ ~Sets(list[1], r)
  <2>1. 1 \in 1..k
    OBVIOUS
  <2> QED BY <1>1, <1>2, <2>1, Zenon DEF Untouched
<1>4. ASSUME Latest(list, k + 1, r, v)
      PROVE  \/ Latest(Tail(list), k, r, v)
             \/ Untouched(Tail(list), k, r) /\ Sets(list[1], r) /\ Value(list[1]) = v
  <2>1. PICK j \in 1..k : /\ Sets(list[j], r) /\ Value(list[j]) = v
                          /\ \A i \in j + 1..k : ~Sets(list[i], r)
    BY <1>1, <1>4, Zenon DEF Latest
  <2>2. CASE j = 1
    <3>1. \A i \in 1..k - 1 : i + 1 \in j + 1..k
      BY <2>2
    <3> QED BY <1>2, <2>1, <2>2, <3>1, Zenon DEF Untouched
  <2>3. CASE j # 1
    <3>1. PICK l \in 1..k - 1 : l + 1 = j
      <4>1. j - 1 \in 1..k - 1 /\ (j - 1) + 1 = j
        BY <2>3
      <4> QED BY <4>1, Zenon
    <3>2. Sets(Tail(list)[l], r) /\ Value(Tail(list)[l]) = v
      BY <1>2, <2>1, <3>1, Zenon
    <3>3. \A i \in l + 1..k - 1 : i \in 1..k - 1 /\ i + 1 \in j + 1..k
      BY <3>1
    <3>4. \A i \in l + 1..k - 1 : ~Sets(Tail(list)[i], r)
      BY <1>2, <2>1, <3>3, Zenon
    <3> QED BY <3>2, <3>4, Zenon DEF Latest
  <2> QED BY <2>2, <2>3
<1> QED BY <1>3, <1>4

\* What holds up to a place in a list holds there in a longer list.
LEMMA LatestInFront ==
  ASSUME NEW list, NEW more, NEW k \in Nat,
         \A i \in 1..k - 1 : more[i] = list[i], NEW r, NEW v
  PROVE  /\ Latest(list, k, r, v) => Latest(more, k, r, v)
         /\ Untouched(list, k, r) => Untouched(more, k, r)
<1>1. \A j \in 1..k - 1 : \A i \in j + 1..k - 1 : i \in 1..k - 1
  OBVIOUS
<1> QED BY <1>1, Zenon DEF Latest, Untouched

\* After an access is appended, what it sets is the latest.
LEMMA LatestAtEnd ==
  ASSUME NEW S, NEW list \in Seq(S), NEW e \in S, NEW r, NEW v
  PROVE  /\ Sets(e, r) /\ Value(e) = v => Latest(Append(list, e), Len(list) + 2, r, v)
         /\ ~Sets(e, r) /\ Latest(list, Len(list) + 1, r, v) =>
              Latest(Append(list, e), Len(list) + 2, r, v)
         /\ ~Sets(e, r) /\ Untouched(list, Len(list) + 1, r) =>
              Untouched(Append(list, e), Len(list) + 2, r)
<1> DEFINE n == Len(list)
           more == Append(list, e)
<1>1. /\ n \in Nat /\ (n + 1) - 1 = n /\ (n + 2) - 1 = n + 1
      /\ more[n + 1] = e /\ \A i \in 1..n : more[i] = list[i]
  OBVIOUS
<1> HIDE DEF n, more
<1>2. /\ n + 1 \in 1..n + 1 /\ (n + 1) + 1..n + 1 = {}
      /\ \A i \in 1..n + 1 : i \in 1..n \/ i = n + 1
      /\ \A j \in 1..n : /\ j \in 1..n + 1
                         /\ \A i \in j + 1..n + 1 : (i \in 1..n /\ i \in j + 1..n) \/ i = n + 1
  BY <1>1
<1>3. Sets(e, r) /\ Value(e) = v => Latest(more, n + 2, r, v)
  BY <1>1, <1>2, Zenon DEF Latest
<1>4. ~Sets(e, r) /\ Untouched(list, n + 1, r) => Untouched(more, n + 2, r)
  BY <1>1, <1>2, Zenon DEF Untouched
<1>5. ASSUME ~Sets(e, r), Latest(list, n + 1, r, v) PROVE Latest(more, n + 2, r, v)
  <2>1. PICK j \in 1..n : /\ Sets(list[j], r) /\ Value(list[j]) = v
                          /\ \A i \in j + 1..n : ~Sets(list[i], r)
    BY <1>1, <1>5, Zenon DEF Latest
  <2>2. Sets(more[j], r) /\ Value(more[j]) = v
    BY <1>1, <2>1, Zenon
  <2>3. \A i \in j + 1..n + 1 : ~Sets(more[i], r)
    BY <1>1, <1>2, <1>5, <2>1, Zenon
  <2> QED BY <1>1, <1>2, <2>2, <2>3, Zenon DEF Latest
<1> QED BY <1>3, <1>4, <1>5 DEF n, more

-----------------------------------------------------------------------------
(* Accesses and registers.                                                 *)

\* Different registers have different names.
LEMMA Names ==
  /\ \A a : CSW(a) # Select /\ TAR(a) # Select
  /\ \A a, b : CSW(a) # TAR(b) /\ (CSW(a) = CSW(b) <=> a = b) /\ (TAR(a) = TAR(b) <=> a = b)
BY DEF CSW, TAR, Select

\* What an access sets.
LEMMA WhatIsSet ==
  ASSUME NEW e
  PROVE  /\ Sets(e, Select) <=> e.reg = "select"
         /\ \A a : Sets(e, CSW(a)) <=> e.reg = "csw" /\ e.ap = a
         /\ \A a : Sets(e, TAR(a)) <=> e.reg \in {"tar", "drw"} /\ e.ap = a
BY Names, Zenon DEF Sets

\* A step with well-typed fields.
LEMMA StepHasType ==
  ASSUME NEW reg \in Registers, NEW ap \in APs, NEW addr \in Nat, NEW size \in Sizes,
         NEW write \in BOOLEAN, NEW guarded \in BOOLEAN
  PROVE  /\ Step(reg, ap, addr, size, write, guarded) \in StepType
         /\ Step(reg, ap, addr, size, write, guarded).reg = reg
         /\ Step(reg, ap, addr, size, write, guarded).ap = ap
         /\ Step(reg, ap, addr, size, write, guarded).addr = addr
         /\ Step(reg, ap, addr, size, write, guarded).size = size
         /\ Step(reg, ap, addr, size, write, guarded).write = write
         /\ Step(reg, ap, addr, size, write, guarded).guarded = guarded
BY DEF Step, StepType

\* The fields of an access.
LEMMA AccessHasType ==
  ASSUME NEW e \in Accesses
  PROVE  /\ e.reg \in Registers /\ e.ap \in APs /\ e.addr \in Nat /\ e.size \in Sizes
         /\ e.write \in BOOLEAN /\ e.guarded \in BOOLEAN /\ WellFormed(e) /\ e \in StepType
BY DEF Accesses, StepType

\* Steps that are no transfer of memory, write of CSW or of SELECT.
LEMMA SimpleSteps ==
  /\ \A reg \in Registers \ {"csw", "drw", "select"} :
       Plain(reg) \in Accesses /\ Plain(reg).reg = reg /\ ~Plain(reg).write
  /\ \A a \in APs, g \in BOOLEAN :
       /\ Await(a, g) \in Accesses /\ Await(a, g).reg = "await" /\ ~Await(a, g).write
       /\ Step("result", a, 0, 0, FALSE, g) \in Accesses
       /\ Step("result", a, 0, 0, FALSE, g).reg = "result"
       /\ ~Step("result", a, 0, 0, FALSE, g).write
  /\ \A a \in APs : Idr(a) \in Accesses /\ Idr(a).reg = "idr" /\ ~Idr(a).write
  /\ Step("select0", 0, 0, 0, TRUE, FALSE) \in Accesses
  /\ Step("select0", 0, 0, 0, TRUE, FALSE).reg = "select0"
<1>0. /\ 0 \in APs /\ 0 \in Nat /\ 0 \in Sizes /\ TRUE \in BOOLEAN /\ FALSE \in BOOLEAN
      /\ {"await", "result", "idr", "select0"} \subseteq Registers
  BY AccessPortAssumption DEF Sizes, Registers
<1>1. ASSUME NEW reg \in Registers \ {"csw", "drw", "select"}, NEW a \in APs,
             NEW w \in BOOLEAN, NEW g \in BOOLEAN, reg = "select0" => a = 0
      PROVE  Step(reg, a, 0, 0, w, g) \in Accesses /\ Step(reg, a, 0, 0, w, g).reg = reg
  <2>1. PICK e : e = Step(reg, a, 0, 0, w, g)
    OBVIOUS
  <2>2. e \in StepType /\ e.reg = reg /\ e.ap = a /\ e.addr = 0
    <3>1. reg \in Registers
      OBVIOUS
    <3> QED BY <1>0, <2>1, <3>1, StepHasType
  <2>3. WellFormed(e)
    BY <1>1, <2>2 DEF WellFormed
  <2> QED BY <2>1, <2>2, <2>3 DEF Accesses
<1>2. ASSUME NEW reg \in Registers, NEW a \in APs, NEW g \in BOOLEAN
      PROVE  ~Step(reg, a, 0, 0, FALSE, g).write
  BY DEF Step
<1>3. \A reg \in Registers \ {"csw", "drw", "select"} :
        Plain(reg) \in Accesses /\ Plain(reg).reg = reg /\ ~Plain(reg).write
  BY <1>0, <1>1, <1>2, Zenon DEF Plain
<1>4. /\ "await" \in Registers \ {"csw", "drw", "select"} /\ "await" # "select0"
      /\ "result" \in Registers \ {"csw", "drw", "select"} /\ "result" # "select0"
      /\ "idr" \in Registers \ {"csw", "drw", "select"} /\ "idr" # "select0"
      /\ "select0" \in Registers \ {"csw", "drw", "select"}
      /\ "await" \in Registers /\ "result" \in Registers /\ "idr" \in Registers
  BY DEF Registers
<1>5. ASSUME NEW a \in APs, NEW g \in BOOLEAN
      PROVE  /\ Await(a, g) \in Accesses /\ Await(a, g).reg = "await" /\ ~Await(a, g).write
             /\ Step("result", a, 0, 0, FALSE, g) \in Accesses
             /\ Step("result", a, 0, 0, FALSE, g).reg = "result"
             /\ ~Step("result", a, 0, 0, FALSE, g).write
  <2>1. Await(a, g) \in Accesses /\ Await(a, g).reg = "await" /\ ~Await(a, g).write
    BY <1>0, <1>1, <1>2, <1>4, Zenon DEF Await
  <2>2. /\ Step("result", a, 0, 0, FALSE, g) \in Accesses
        /\ Step("result", a, 0, 0, FALSE, g).reg = "result"
        /\ ~Step("result", a, 0, 0, FALSE, g).write
    BY <1>0, <1>1, <1>2, <1>4, Zenon
  <2> QED BY <2>1, <2>2
<1>6. \A a \in APs : Idr(a) \in Accesses /\ Idr(a).reg = "idr" /\ ~Idr(a).write
  BY <1>0, <1>1, <1>2, <1>4, Zenon DEF Idr
<1>7. /\ Step("select0", 0, 0, 0, TRUE, FALSE) \in Accesses
      /\ Step("select0", 0, 0, 0, TRUE, FALSE).reg = "select0"
  BY <1>0, <1>1, <1>4
<1> QED BY <1>3, <1>5, <1>6, <1>7

\* The write of SELECT that goes before an access.
LEMMA QueuedSelect ==
  ASSUME NEW s \in Accesses, NEW e, e = Step("select", s.ap, BankOf(s), 0, TRUE, FALSE)
  PROVE  e \in Accesses /\ e.reg = "select" /\ e.ap = s.ap /\ e.addr = BankOf(s)
<1>1. /\ s.ap \in APs /\ BankOf(s) \in Nat /\ BankOf(s) \in {0, 15} /\ 0 \in Sizes
      /\ TRUE \in BOOLEAN /\ FALSE \in BOOLEAN /\ "select" \in Registers
  BY AccessHasType DEF BankOf, Sizes, Registers
<1>2. e \in StepType /\ e.reg = "select" /\ e.ap = s.ap /\ e.addr = BankOf(s)
  <2>1. PICK a \in APs, b \in Nat : a = s.ap /\ b = BankOf(s)
    BY <1>1
  <2>2. e = Step("select", a, b, 0, TRUE, FALSE)
    BY <2>1
  <2>3. e \in StepType /\ e.reg = "select" /\ e.ap = a /\ e.addr = b
    BY <1>1, <2>2 DEF Step, StepType
  <2> QED BY <2>1, <2>3
<1>3. WellFormed(e)
  BY <1>1, <1>2 DEF WellFormed
<1> QED BY <1>2, <1>3 DEF Accesses

\* A list of ten.
LEMMA TenElements ==
  ASSUME NEW S, NEW a \in S, NEW b \in S, NEW c \in S, NEW d \in S, NEW e \in S,
         NEW f \in S, NEW g \in S, NEW h \in S, NEW i \in S, NEW j \in S,
         NEW s, s = <<a, b, c, d, e, f, g, h, i, j>>
  PROVE  /\ s \in Seq(S) /\ Len(s) = 10
         /\ s[1] = a /\ s[2] = b /\ s[3] = c /\ s[4] = d /\ s[5] = e
         /\ s[6] = f /\ s[7] = g /\ s[8] = h /\ s[9] = i /\ s[10] = j
OBVIOUS

\* The steps that open a link: nothing is accessed before the poll for power.
LEMMA OpeningIs ==
  /\ Opening \in Seq(Accesses) /\ Len(Opening) = 10
  /\ Opening[7].reg = "poll"
  /\ \A k \in 1..10 :
       /\ Opening[k].reg \in OpeningSteps
       /\ Opening[k].reg \in {"idr", "await"} => k > 7
       /\ Opening[k].reg = "idcode" => k = 2
  /\ Opening[3].reg = "idcode2"
<1> DEFINE S(reg) == Plain(reg)
           s0 == Step("select0", 0, 0, 0, TRUE, FALSE)
           i0 == Idr(0)
           w0 == Await(0, FALSE)
<1>1. /\ 0 \in APs /\ FALSE \in BOOLEAN
      /\ "connect" \in Registers \ {"csw", "drw", "select"}
      /\ "idcode" \in Registers \ {"csw", "drw", "select"}
      /\ "idcode2" \in Registers \ {"csw", "drw", "select"}
      /\ "clear" \in Registers \ {"csw", "drw", "select"}
      /\ "power" \in Registers \ {"csw", "drw", "select"}
      /\ "poll" \in Registers \ {"csw", "drw", "select"}
  BY AccessPortAssumption DEF Registers
<1>2. /\ s0 \in Accesses /\ s0.reg = "select0"
      /\ i0 \in Accesses /\ i0.reg = "idr"
      /\ w0 \in Accesses /\ w0.reg = "await"
  BY <1>1, SimpleSteps, Zenon
<1>3. /\ S("connect") \in Accesses /\ S("connect").reg = "connect"
      /\ S("idcode") \in Accesses /\ S("idcode").reg = "idcode"
      /\ S("idcode2") \in Accesses /\ S("idcode2").reg = "idcode2"
      /\ S("clear") \in Accesses /\ S("clear").reg = "clear"
      /\ S("power") \in Accesses /\ S("power").reg = "power"
      /\ S("poll") \in Accesses /\ S("poll").reg = "poll"
  BY <1>1, SimpleSteps, Zenon
<1>4. Opening = <<S("connect"), S("idcode"), S("idcode2"), S("clear"), s0, S("power"), S("poll"),
                  s0, i0, w0>>
  BY DEF Opening
<1> HIDE DEF S, s0, i0, w0
<1>5. /\ Opening \in Seq(Accesses) /\ Len(Opening) = 10
      /\ Opening[1] = S("connect") /\ Opening[2] = S("idcode") /\ Opening[3] = S("idcode2")
      /\ Opening[4] = S("clear") /\ Opening[5] = s0 /\ Opening[6] = S("power")
      /\ Opening[7] = S("poll") /\ Opening[8] = s0 /\ Opening[9] = i0 /\ Opening[10] = w0
  BY <1>2, <1>3, <1>4, TenElements, Zenon
<1>6. \A k \in 1..10 : k \in {1, 2, 3, 4, 5, 6, 7, 8} \/ (k \in {9, 10} /\ k > 7)
  OBVIOUS
<1>7. ASSUME NEW k \in 1..10
      PROVE  /\ Opening[k].reg \in OpeningSteps
             /\ Opening[k].reg \in {"idr", "await"} => k > 7
             /\ Opening[k].reg = "idcode" => k = 2
  <2>1. CASE k \in {1, 3, 4, 5, 6, 7, 8}
    <3>1. Opening[k].reg \in {"connect", "idcode2", "clear", "select0", "power", "poll"}
      BY <1>2, <1>3, <1>5, <2>1, Zenon
    <3> QED BY <3>1 DEF OpeningSteps
  <2>2. CASE k = 2
    BY <1>3, <1>5, <2>2 DEF OpeningSteps
  <2>3. CASE k \in {9, 10} /\ k > 7
    <3>1. Opening[k].reg \in {"idr", "await"}
      BY <1>2, <1>5, <2>3, Zenon
    <3> QED BY <2>3, <3>1 DEF OpeningSteps
  <2> QED BY <1>6, <2>1, <2>2, <2>3
<1> QED BY <1>3, <1>5, <1>7

\* The bytes an access writes.
Writes(e) == IF e.write THEN {<<e.ap, b>> : b \in RangeOf(e)} ELSE {}

\* What a list writes is what its elements write.
LEMMA WrittenIs ==
  ASSUME NEW S, NEW s \in Seq(S)
  PROVE  WrittenBy(s) = UNION {Writes(e) : e \in Range(s)}
<1>1. \A x : x \in WrittenBy(s) <=> \E k \in DOMAIN s : s[k].write /\ x \in {<<s[k].ap, b>> : b \in RangeOf(s[k])}
  BY Zenon DEF WrittenBy
<1>2. \A e \in Range(s) : \E k \in DOMAIN s : e = s[k]
  BY Zenon DEF Range
<1>3. \A k \in DOMAIN s : s[k] \in Range(s)
  BY DEF Range
<1>4. \A x : x \in UNION {Writes(e) : e \in Range(s)} <=> \E e \in Range(s) : x \in Writes(e)
  OBVIOUS
<1>5. \A e : \A x : x \in Writes(e) <=> e.write /\ x \in {<<e.ap, b>> : b \in RangeOf(e)}
  BY DEF Writes
<1>6. \A x : x \in WrittenBy(s) <=> \E k \in DOMAIN s : x \in Writes(s[k])
  BY <1>1, <1>5, Zenon
<1>7. \A x : (\E k \in DOMAIN s : x \in Writes(s[k])) <=> \E e \in Range(s) : x \in Writes(e)
  BY <1>2, <1>3, Zenon
<1>8. \A x : x \in WrittenBy(s) <=> x \in UNION {Writes(e) : e \in Range(s)}
  BY <1>4, <1>6, <1>7, Zenon
<1> QED BY <1>8

\* An appended element is one more in the range.
LEMMA RangeOfAppend ==
  ASSUME NEW S, NEW s \in Seq(S), NEW e \in S
  PROVE  Range(Append(s, e)) = Range(s) \cup {e}
<1>1. <<e>> \in Seq(S)
  OBVIOUS
<1>2. Append(s, e) = s \o <<e>>
  OBVIOUS
<1>3. Range(<<e>>) = {e}
  <2>1. DOMAIN <<e>> = {1} /\ <<e>>[1] = e
    OBVIOUS
  <2> QED BY <2>1 DEF Range
<1>4. Range(s \o <<e>>) = Range(s) \cup Range(<<e>>)
  BY <1>1, RangeOfConcat
<1> QED BY ONLY <1>2, <1>3, <1>4, Zenon

\* What lists that begin or end with an access write.
LEMMA WrittenByParts ==
  ASSUME NEW S, NEW s \in Seq(S)
  PROVE  /\ s # << >> => WrittenBy(s) = Writes(Head(s)) \cup WrittenBy(Tail(s))
         /\ \A e \in S : WrittenBy(Append(s, e)) = WrittenBy(s) \cup Writes(e)
         /\ WrittenBy(<< >>) = {}
         /\ \A e : WrittenBy(<<e>>) = Writes(e)
<1>1. ASSUME s # << >>
      PROVE  WrittenBy(s) = Writes(Head(s)) \cup WrittenBy(Tail(s))
  <2>1. Tail(s) \in Seq(S) /\ Range(s) = {Head(s)} \cup Range(Tail(s))
    BY <1>1, RangeOfHeadAndTail
  <2>2. WrittenBy(s) = UNION {Writes(e) : e \in Range(s)}
    BY WrittenIs
  <2>3. WrittenBy(Tail(s)) = UNION {Writes(e) : e \in Range(Tail(s))}
    BY <2>1, WrittenIs
  <2> QED BY <2>1, <2>2, <2>3
<1>2. ASSUME NEW e PROVE <<e>> \in Seq({e}) /\ Range(<<e>>) = {e} /\ WrittenBy(<<e>>) = Writes(e)
  <2>1. <<e>> \in Seq({e}) /\ DOMAIN <<e>> = {1} /\ <<e>>[1] = e
    OBVIOUS
  <2>2. Range(<<e>>) = {e}
    BY <2>1 DEF Range
  <2>3. WrittenBy(<<e>>) = UNION {Writes(x) : x \in Range(<<e>>)}
    BY <2>1, WrittenIs
  <2> QED BY <2>1, <2>2, <2>3
<1>3. ASSUME NEW e \in S
      PROVE  WrittenBy(Append(s, e)) = WrittenBy(s) \cup Writes(e)
  <2>1. Append(s, e) \in Seq(S)
    OBVIOUS
  <2>2. Range(Append(s, e)) = Range(s) \cup {e}
    BY RangeOfAppend
  <2>3. WrittenBy(Append(s, e)) = UNION {Writes(x) : x \in Range(Append(s, e))}
    BY <2>1, WrittenIs
  <2>4. WrittenBy(s) = UNION {Writes(x) : x \in Range(s)}
    BY WrittenIs
  <2> QED BY <2>2, <2>3, <2>4
<1>4. WrittenBy(<< >>) = {}
  <2>1. << >> \in Seq(S) /\ Range(<< >>) = {}
    BY DEF Range
  <2> QED BY <2>1, WrittenIs
<1> QED BY <1>1, <1>2, <1>3, <1>4

\* Only transfers write memory.
LEMMA TransfersWrite ==
  ASSUME NEW e PROVE /\ e.reg # "drw" => Writes(e) = {} /\ RangeOf(e) = {} /\ ~IsRead(e)
                     /\ ~e.write => Writes(e) = {}
                     /\ e.write => ~IsRead(e)
BY DEF Writes, RangeOf, IsRead

\* A list without transfers writes no memory.
LEMMA NoTransfers ==
  ASSUME NEW S, NEW s \in Seq(S), \A k \in 1..Len(s) : s[k].reg # "drw"
  PROVE  WrittenBy(s) = {}
<1>1. \A e \in Range(s) : Writes(e) = {}
  BY TransfersWrite DEF Range
<1> QED BY <1>1, WrittenIs

-----------------------------------------------------------------------------
(* The shape of what is left of a call.                                    *)

\* The rest of a call is made of steps as well.
LEMMA RestOfCall ==
  ASSUME Types, todo # << >>
  PROVE  /\ Step1 \in Accesses /\ Step1 = todo[1] /\ Step1.reg # "select"
         /\ 1 \in 1..Len(todo) /\ Len(todo) \in Nat
         /\ Tail(todo) \in Seq(Accesses) /\ Len(Tail(todo)) = Len(todo) - 1
         /\ \A k \in 1..Len(todo) - 1 : Tail(todo)[k] = todo[k + 1] /\ k + 1 \in 1..Len(todo)
         /\ \A k \in 1..Len(Tail(todo)) : Tail(todo)[k].reg # "select"
<1>1. todo \in Seq(Accesses) /\ \A k \in 1..Len(todo) : todo[k].reg # "select"
  BY DEF Types
<1>2. /\ Step1 \in Accesses /\ Step1 = todo[1]
      /\ Tail(todo) \in Seq(Accesses) /\ Len(Tail(todo)) = Len(todo) - 1
      /\ \A k \in 1..Len(todo) - 1 : Tail(todo)[k] = todo[k + 1]
  BY <1>1, DropHead DEF Step1
<1>3. /\ 1 \in 1..Len(todo) /\ Len(todo) \in Nat
      /\ \A k \in 1..Len(todo) - 1 : k + 1 \in 1..Len(todo)
  <2>1. Len(todo) \in Nat /\ Len(todo) # 0
    BY <1>1
  <2> QED BY <2>1
<1> QED BY <1>1, <1>2, <1>3, Zenon

\* A call goes on.
LEMMA ShapeGoesOn ==
  ASSUME Types, Shape, todo # << >>, todo' = Tail(todo),
         \/ phase' = phase /\ (phase = "opening" => csw' = csw)
         \/ todo' = << >> /\ phase' # "opening"
  PROVE  Shape'
<1>1. /\ Len(todo') = Len(todo) - 1 /\ Len(todo) \in Nat
      /\ \A k \in 1..Len(todo') : todo'[k] = todo[k + 1] /\ k + 1 \in 1..Len(todo)
  BY RestOfCall
<1>2. \A k \in 1..Len(todo') :
        /\ todo'[k].reg = "idcode" => k < Len(todo') /\ todo'[k + 1].reg = "idcode2"
        /\ todo'[k].reg \notin {"clock", "reset", "close", "flush"}
  <2> SUFFICES ASSUME NEW k \in 1..Len(todo')
               PROVE  /\ todo'[k].reg = "idcode" =>
                           k < Len(todo') /\ todo'[k + 1].reg = "idcode2"
                      /\ todo'[k].reg \notin {"clock", "reset", "close", "flush"}
    OBVIOUS
  <2>1. k + 1 \in 1..Len(todo) /\ Len(todo) # 1
    BY <1>1
  <2>2. todo'[k].reg \notin {"clock", "reset", "close", "flush"}
    BY <1>1, <2>1 DEF Shape
  <2>3. ASSUME todo'[k].reg = "idcode"
        PROVE  k < Len(todo') /\ todo'[k + 1].reg = "idcode2"
    <3>1. k + 1 < Len(todo) /\ todo[k + 1 + 1].reg = "idcode2"
      BY <1>1, <2>1, <2>3 DEF Shape
    <3>2. k < Len(todo') /\ k + 1 \in 1..Len(todo')
      BY <1>1, <3>1
    <3> QED BY <1>1, <3>1, <3>2
  <2> QED BY <2>2, <2>3
<1>3. ~At("reset")'
  <2> SUFFICES ASSUME At("reset")' PROVE FALSE
    OBVIOUS
  <2>1. todo' # << >> /\ Head(todo').reg = "reset" /\ todo' \in Seq(Accesses)
    BY RestOfCall DEF At
  <2>2. Head(todo') = todo'[1] /\ 1 \in 1..Len(todo')
    BY <2>1
  <2> QED BY <1>2, <2>1, <2>2
<1>4. phase' = "closed" => todo' = << >>
  BY RestOfCall DEF Shape
<1>5. phase' = "opening" => /\ csw' = [a \in APs |-> Unset]
                            /\ \A k \in 1..Len(todo') : todo'[k].reg \in OpeningSteps
  BY <1>1 DEF Shape
<1>6. phase' = "open" => \A k \in 1..Len(todo') : todo'[k].reg \notin OpeningSteps \ {"idr", "await"}
  <2>1. todo' = << >> => 1..Len(todo') = {}
    BY <1>1
  <2>2. CASE phase' = phase
    BY <1>1, <2>2, Zenon DEF Shape
  <2> QED BY <2>1, <2>2
<1> QED BY <1>2, <1>3, <1>4, <1>5, <1>6 DEF Shape

\* The next step of a call keeps the order of power and accesses.
LEMMA PoweredGoesOn ==
  ASSUME Types, Powered, todo # << >>, todo' = Tail(todo),
         Step1.reg = "poll" => hw.power = "on",
         phase' = "open" => hw'.power = "on", hw'.power = hw.power,
         (\E k \in 1..Len(queue') : IsAccess(queue'[k])) =>
           (\E k \in 1..Len(queue) : IsAccess(queue[k])) \/ IsAccess(Step1)
  PROVE  Powered'
<1>1. /\ Len(todo') = Len(todo) - 1 /\ Len(todo) \in Nat /\ Step1 = todo[1]
      /\ \A k \in 1..Len(todo') : todo'[k] = todo[k + 1] /\ k + 1 \in 1..Len(todo)
      /\ 1 \in 1..Len(todo)
  BY RestOfCall
<1>2. IsAccess(Step1) => hw.power = "on"
  BY <1>1 DEF Powered
<1>3. ASSUME hw'.power # "on", NEW k \in 1..Len(todo'), IsAccess(todo'[k]) \/ todo'[k].reg = "await"
      PROVE  \E j \in 1..k - 1 : todo'[j].reg = "poll"
  <2>1. IsAccess(todo[k + 1]) \/ todo[k + 1].reg = "await"
    BY <1>1, <1>3
  <2>2. PICK j \in 1..(k + 1) - 1 : todo[j].reg = "poll"
    BY <1>1, <1>3, <2>1 DEF Powered
  <2>3. j # 1
    BY <1>1, <1>3, <2>2
  <2>4. j - 1 \in 1..k - 1 /\ j - 1 \in 1..Len(todo') /\ (j - 1) + 1 = j
    BY <1>1, <2>2, <2>3
  <2>5. todo'[j - 1].reg = "poll"
    BY <1>1, <2>2, <2>4
  <2> QED BY <2>4, <2>5
<1>4. (\E k \in 1..Len(queue') : IsAccess(queue'[k])) => hw'.power = "on"
  BY <1>2 DEF Powered
<1>5. \A k \in 1..Len(todo') : IsAccess(todo[k + 1]) = IsAccess(todo'[k])
  BY <1>1
<1> HIDE <1>1
<1>6. hw'.power # "on" =>
        \A k \in 1..Len(todo') : IsAccess(todo'[k]) \/ todo'[k].reg = "await" =>
                                   \E j \in 1..k - 1 : todo'[j].reg = "poll"
  BY <1>3, Zenon
<1> QED BY <1>4, <1>6, Zenon DEF Powered, IsAccess

\* The transfers of the rest of a call find what they are for, when its first
\* step sets no register.
LEMMA TodoGoesOn ==
  ASSUME Types, TodoReady, todo # << >>, todo' = Tail(todo), csw' = csw,
         Step1.reg \notin {"csw", "tar", "drw"},
         \A a \in APs : \A v : TarReady(End, a, v) => TarReady(End, a, v)'
  PROVE  TodoReady'
<1>1. /\ Step1 = todo[1] /\ Len(todo) \in Nat
      /\ \A k \in 1..Len(todo') : todo'[k] = todo[k + 1] /\ k + 1 \in 1..Len(todo)
      /\ \A k \in 1..Len(todo') : k \in 1..Len(todo) /\ todo[k + 1] \in Accesses
  BY RestOfCall DEF Types
<1>2. \A r : ~Sets(todo[1], r)
  BY <1>1, RestOfCall DEF Sets
<1> SUFFICES ASSUME NEW k \in 1..Len(todo'), NEW e, e = todo'[k], e.reg = "drw"
             PROVE  ReadyInCall(k, e)'
  BY Zenon DEF TodoReady
<1>4. /\ todo[k + 1] = e /\ e.ap \in APs /\ k + 1 \in 1..Len(todo)
      /\ k \in 1..Len(todo)
  BY <1>1, AccessHasType
<1>5. ReadyInCall(k + 1, e)
  BY <1>4 DEF TodoReady
<1>6. \A r, v : /\ Latest(todo, k + 1, r, v) => Latest(todo', k, r, v)
                /\ Untouched(todo, k + 1, r) => Untouched(todo', k, r)
  BY <1>2, <1>4, LatestInTail DEF Types
<1> QED BY <1>4, <1>5, <1>6, Zenon DEF ReadyInCall

\* When a link is opened, nothing is transferred.
LEMMA NoTransfersInOpening ==
  ASSUME Types, Shape, todo # << >>,
         Step1.reg \in {"connect", "idcode", "idcode2", "clear", "select0", "power", "poll"}
  PROVE  /\ phase = "opening" /\ csw = [a \in APs |-> Unset]
         /\ \A k \in 1..Len(todo) : todo[k].reg \in OpeningSteps /\ todo[k].reg # "drw"
<1>1. Step1 = todo[1] /\ 1 \in 1..Len(todo)
  BY RestOfCall
<1>2. phase # "open" /\ phase # "closed" /\ phase \in {"closed", "opening", "open"}
  BY <1>1 DEF Shape, OpeningSteps, Types, TypeOK
<1>3. phase = "opening"
  BY <1>2
<1> QED BY <1>3 DEF Shape, OpeningSteps

\* The IDCODE was read: the second attempt is left out.
LEMMA TailOfTail ==
  ASSUME Types, Shape, todo # << >>, Step1.reg = "idcode"
  PROVE  /\ Tail(Tail(todo)) \in Seq(Accesses) /\ Len(Tail(Tail(todo))) = Len(todo) - 2
         /\ Len(todo) - 2 \in Nat
         /\ \A k \in 1..Len(todo) - 2 : /\ Tail(Tail(todo))[k] = todo[k + 2]
                                        /\ k + 2 \in 1..Len(todo)
<1>1. /\ Step1 = todo[1] /\ 1 \in 1..Len(todo) /\ Len(todo) \in Nat /\ Tail(todo) \in Seq(Accesses)
      /\ Len(Tail(todo)) = Len(todo) - 1 /\ \A k \in 1..Len(todo) - 1 : Tail(todo)[k] = todo[k + 1]
  BY RestOfCall
<1>2. 1 < Len(todo)
  BY <1>1 DEF Shape
<1>3. /\ Tail(Tail(todo)) \in Seq(Accesses) /\ Len(Tail(Tail(todo))) = Len(todo) - 2
      /\ \A k \in 1..Len(todo) - 2 : Tail(Tail(todo))[k] = Tail(todo)[k + 1]
  <2>1. Tail(todo) # << >>
    <3>1. Len(Tail(todo)) # 0
      BY <1>1, <1>2
    <3> QED BY <3>1, NotEmpty, Zenon
  <2>2. /\ Tail(Tail(todo)) \in Seq(Accesses) /\ Len(Tail(Tail(todo))) = Len(Tail(todo)) - 1
        /\ \A k \in 1..Len(Tail(todo)) - 1 : Tail(Tail(todo))[k] = Tail(todo)[k + 1]
    BY <1>1, <2>1, DropHead
  <2> QED BY <1>1, <2>2
<1>4. \A k \in 1..Len(todo) - 2 : /\ k + 1 \in 1..Len(todo) - 1 /\ (k + 1) + 1 = k + 2
                                  /\ k + 2 \in 1..Len(todo)
  BY <1>1
<1> QED BY <1>1, <1>2, <1>3, <1>4

-----------------------------------------------------------------------------
(* What the registers will hold, as the queue changes.                     *)

\* An access is queued: what is ready for those before it stays so, and after
\* it the registers it sets are as it sets them.
LEMMA Queueing ==
  ASSUME Types, NEW e \in Accesses, queue' = Append(queue, e),
         hw' = hw, lost' = lost, dropped' = dropped
  PROVE  /\ \A k \in 1..End : \A a, v : /\ SelectReady(k, v) => SelectReady(k, v)'
                                        /\ CswReady(k, a, v) => CswReady(k, a, v)'
                                        /\ TarReady(k, a, v) => TarReady(k, a, v)'
         /\ \A v : (Sets(e, Select) /\ Value(e) = v) \/ (~Sets(e, Select) /\ SelectReady(End, v))
                     => SelectReady(End, v)'
         /\ \A a, v : (Sets(e, CSW(a)) /\ Value(e) = v) \/ (~Sets(e, CSW(a)) /\ CswReady(End, a, v))
                        => CswReady(End, a, v)'
         /\ \A a, v : (Sets(e, TAR(a)) /\ Value(e) = v) \/ (~Sets(e, TAR(a)) /\ TarReady(End, a, v))
                        => TarReady(End, a, v)'
<1>1. queue \in Seq(Accesses) /\ End \in Nat /\ End' = Len(queue) + 2 /\ End = Len(queue) + 1
  BY DEF Types, End
<1>2. \A k \in 1..End : k \in Nat /\ \A i \in 1..k - 1 : queue'[i] = queue[i]
  BY <1>1
<1>3. \A k \in 1..End : \A r, v : /\ Latest(queue, k, r, v) => Latest(queue', k, r, v)
                                  /\ Untouched(queue, k, r) => Untouched(queue', k, r)
  BY <1>2, LatestInFront
<1>4. \A r, v : /\ Sets(e, r) /\ Value(e) = v => Latest(queue', End', r, v)
                /\ ~Sets(e, r) /\ Latest(queue, End, r, v) => Latest(queue', End', r, v)
                /\ ~Sets(e, r) /\ Untouched(queue, End, r) => Untouched(queue', End', r)
  BY <1>1, LatestAtEnd
<1>5. ASSUME NEW k \in 1..End, NEW a, NEW v
      PROVE  /\ SelectReady(k, v) => SelectReady(k, v)'
             /\ CswReady(k, a, v) => CswReady(k, a, v)'
             /\ TarReady(k, a, v) => TarReady(k, a, v)'
  <2>1. SelectReady(k, v) => SelectReady(k, v)'
    BY <1>3, Zenon DEF SelectReady, Gone
  <2>2. CswReady(k, a, v) => CswReady(k, a, v)'
    BY <1>3, Zenon DEF CswReady, Gone
  <2>3. TarReady(k, a, v) => TarReady(k, a, v)'
    BY <1>3, Zenon DEF TarReady, Gone
  <2> QED BY <2>1, <2>2, <2>3
<1>6. \A v : (Sets(e, Select) /\ Value(e) = v) \/ (~Sets(e, Select) /\ SelectReady(End, v))
               => SelectReady(End, v)'
  BY <1>4, Zenon DEF SelectReady, Gone
<1>7. \A a, v : (Sets(e, CSW(a)) /\ Value(e) = v) \/ (~Sets(e, CSW(a)) /\ CswReady(End, a, v))
                  => CswReady(End, a, v)'
  BY <1>4, Zenon DEF CswReady, Gone
<1>8. \A a, v : (Sets(e, TAR(a)) /\ Value(e) = v) \/ (~Sets(e, TAR(a)) /\ TarReady(End, a, v))
                  => TarReady(End, a, v)'
  BY <1>4, Zenon DEF TarReady, Gone
<1> QED BY <1>5, <1>6, <1>7, <1>8

\* The first access leaves the queue, executed or not: if each register is
\* then as it set it, or as it was, or known to be lost, all stays ready.
LEMMA Unqueueing ==
  ASSUME Types, queue # << >>, queue' = Tail(queue), NEW e, e = Head(queue)
  PROVE  /\ End' \in 1..Len(queue) /\ End = End' + 1
         /\ \A k \in 1..Len(queue') : queue'[k] = queue[k + 1] /\ k + 1 \in 1..Len(queue)
                                      /\ k \in 1..Len(queue)
         /\ (Sets(e, Select) => Select \in Gone' \/ hw'.select = Value(e))
            /\ (~Sets(e, Select) => Select \in Gone' \/ (Select \notin Gone /\ hw'.select = hw.select))
            => \A k \in 1..Len(queue) : \A v : SelectReady(k + 1, v) => SelectReady(k, v)'
         /\ \A a \in APs :
              /\ Sets(e, CSW(a)) => CSW(a) \in Gone' \/ hw'.csw[a] = Value(e)
              /\ ~Sets(e, CSW(a)) => CSW(a) \in Gone' \/ (CSW(a) \notin Gone /\ hw'.csw[a] = hw.csw[a])
              => \A k \in 1..Len(queue) : \A v : CswReady(k + 1, a, v) => CswReady(k, a, v)'
         /\ \A a \in APs :
              /\ Sets(e, TAR(a)) => TAR(a) \in Gone' \/ hw'.tar[a] = Value(e)
              /\ ~Sets(e, TAR(a)) => TAR(a) \in Gone' \/ (TAR(a) \notin Gone /\ hw'.tar[a] = hw.tar[a])
              => \A k \in 1..Len(queue) : \A v : TarReady(k + 1, a, v) => TarReady(k, a, v)'
<1>1. /\ queue \in Seq(Accesses) /\ e = queue[1] /\ Len(queue) \in Nat
      /\ Len(queue') = Len(queue) - 1
      /\ \A k \in 1..Len(queue) - 1 : queue'[k] = queue[k + 1]
  BY DropHead DEF Types
<1>2. /\ End' \in 1..Len(queue) /\ End = End' + 1
      /\ \A k \in 1..Len(queue') : queue'[k] = queue[k + 1] /\ k + 1 \in 1..Len(queue)
                                   /\ k \in 1..Len(queue)
  <2>1. Len(queue) # 0
    BY <1>1
  <2> QED BY <1>1, <2>1 DEF End
<1>3. \A k \in 1..Len(queue) : \A r, v :
        /\ Latest(queue, k + 1, r, v) =>
             \/ Latest(queue', k, r, v)
             \/ Untouched(queue', k, r) /\ Sets(e, r) /\ Value(e) = v
        /\ Untouched(queue, k + 1, r) => Untouched(queue', k, r) /\ ~Sets(e, r)
  BY <1>1, LatestInTail
<1>4. ASSUME Sets(e, Select) => Select \in Gone' \/ hw'.select = Value(e),
             ~Sets(e, Select) => Select \in Gone' \/ (Select \notin Gone /\ hw'.select = hw.select)
      PROVE  \A k \in 1..Len(queue) : \A v : SelectReady(k + 1, v) => SelectReady(k, v)'
  BY <1>3, <1>4, Zenon DEF SelectReady
<1>5. ASSUME NEW a \in APs,
             Sets(e, CSW(a)) => CSW(a) \in Gone' \/ hw'.csw[a] = Value(e),
             ~Sets(e, CSW(a)) => CSW(a) \in Gone' \/ (CSW(a) \notin Gone /\ hw'.csw[a] = hw.csw[a])
      PROVE  \A k \in 1..Len(queue) : \A v : CswReady(k + 1, a, v) => CswReady(k, a, v)'
  BY <1>3, <1>5, Zenon DEF CswReady
<1>6. ASSUME NEW a \in APs,
             Sets(e, TAR(a)) => TAR(a) \in Gone' \/ hw'.tar[a] = Value(e),
             ~Sets(e, TAR(a)) => TAR(a) \in Gone' \/ (TAR(a) \notin Gone /\ hw'.tar[a] = hw.tar[a])
      PROVE  \A k \in 1..Len(queue) : \A v : TarReady(k + 1, a, v) => TarReady(k, a, v)'
  BY <1>3, <1>6, Zenon DEF TarReady
<1> QED BY <1>2, <1>4, <1>5, <1>6, Zenon

-----------------------------------------------------------------------------
(* The target executes an access.                                          *)

\* The AP that is selected, if its registers of bank 0 are.
LEMMA SelectedBank ==
  ASSUME Types
  PROVE  /\ hw.select \in Selections
         /\ Bank0 => hw.select[1] \in APs /\ hw.select = <<hw.select[1], 0>>
         /\ \A a \in APs : hw.select = <<a, 0>> => Bank0 /\ hw.select[1] = a
<1>1. hw.select \in Selections
  BY DEF Types, HwType
<1>2. ASSUME Bank0
      PROVE  hw.select[1] \in APs /\ hw.select = <<hw.select[1], 0>>
  <2>1. hw.select[2] = 0 /\ hw.select[1] \in APs
    BY <1>2 DEF Bank0
  <2>2. hw.select # Unknown
    BY <2>1, AccessPortAssumption DEF Unknown
  <2>3. hw.select \in APs \X {0, 15}
    BY <1>1, <2>2 DEF Selections
  <2> QED BY <2>1, <2>3
<1> QED BY <1>1, <1>2 DEF Bank0

\* What executing an access does to the registers.
LEMMA ExecutedRegisters ==
  ASSUME Types, NEW e \in Accesses, NEW h, h = AfterExecution(e), NEW ap, ap = hw.select[1]
  PROVE  /\ e.reg = "select" => h = [hw EXCEPT !.select = <<e.ap, e.addr>>]
         /\ e.reg = "csw" => h = IF Bank0 THEN [hw EXCEPT !.csw[ap] = e.size] ELSE hw
         /\ e.reg = "tar" => h = IF Bank0 THEN [hw EXCEPT !.tar[ap] = e.addr] ELSE hw
         /\ e.reg = "drw" =>
              h = IF Bank0 THEN [hw EXCEPT !.tar[ap] = Incremented(hw.tar[ap], hw.csw[ap])] ELSE hw
         /\ e.reg \notin {"select", "csw", "tar", "drw"} =>
              \/ h = hw \/ h = [hw EXCEPT !.sticky = FALSE]
              \/ h = [hw EXCEPT !.power = IF hw.power = "on" THEN "on" ELSE "asked"]
<1>1. e.reg = "select" => h = [hw EXCEPT !.select = <<e.ap, e.addr>>]
  BY DEF AfterExecution
<1>2. e.reg = "csw" => h = IF Bank0 THEN [hw EXCEPT !.csw[ap] = e.size] ELSE hw
  BY DEF AfterExecution
<1>3. e.reg = "tar" => h = IF Bank0 THEN [hw EXCEPT !.tar[ap] = e.addr] ELSE hw
  BY DEF AfterExecution
<1>4. e.reg = "drw" =>
        h = IF Bank0 THEN [hw EXCEPT !.tar[ap] = Incremented(hw.tar[ap], hw.csw[ap])] ELSE hw
  BY DEF AfterExecution
<1>5. e.reg \notin {"select", "csw", "tar", "drw"} =>
        \/ h = hw \/ h = [hw EXCEPT !.sticky = FALSE]
        \/ h = [hw EXCEPT !.power = IF hw.power = "on" THEN "on" ELSE "asked"]
  BY DEF AfterExecution
<1> QED BY <1>1, <1>2, <1>3, <1>4, <1>5

\* Quotient and remainder.
LEMMA Division ==
  ASSUME NEW p \in Nat, p # 0, NEW a \in Nat
  PROVE  a \div p \in Nat /\ a % p \in 0..p - 1 /\ a = p * (a \div p) + (a % p) /\ p * (a \div p) \in Nat
OBVIOUS

\* Quotient and remainder of a number given as a multiple and a rest.
LEMMA DivisionOf ==
  ASSUME NEW p \in Nat, p # 0, NEW q \in Nat, NEW r \in 0..p - 1
  PROVE  (p * q + r) \div p = q /\ (p * q + r) % p = r
OBVIOUS

\* TAR is a natural number, and within its page the next address.
LEMMA IncrementedType ==
  ASSUME NEW addr \in Nat, NEW size \in Sizes
  PROVE  Incremented(addr, size) \in Nat
<1>1. Page \in Nat /\ Page # 0 /\ addr + size \in Nat
  BY AccessPortAssumption DEF Sizes
<1>2. /\ Page * (addr \div Page) \in Nat
      /\ (addr + size) % Page \in 0..Page - 1
  BY <1>1, Division
<1>3. \A m \in Nat, n \in 0..Page - 1 : m + n \in Nat
  BY <1>1
<1>4. Page * (addr \div Page) + ((addr + size) % Page) \in Nat
  BY <1>2, <1>3, Zenon
<1> QED BY <1>4 DEF Incremented

\* The registers after an access, one by one.
LEMMA RegistersAfter ==
  ASSUME Types, NEW e \in Accesses, NEW h, h = AfterExecution(e), NEW ap, ap = hw.select[1]
  PROVE  /\ h \in HwType
         /\ h.select = IF e.reg = "select" THEN <<e.ap, e.addr>> ELSE hw.select
         /\ h.csw = IF e.reg = "csw" /\ Bank0 THEN [hw.csw EXCEPT ![ap] = e.size] ELSE hw.csw
         /\ h.tar = IF e.reg = "tar" /\ Bank0 THEN [hw.tar EXCEPT ![ap] = e.addr]
                    ELSE IF e.reg = "drw" /\ Bank0
                      THEN [hw.tar EXCEPT ![ap] = Incremented(hw.tar[ap], hw.csw[ap])] ELSE hw.tar
         /\ hw.power = "on" => h.power = "on"
         /\ e.reg # "power" => h.power = hw.power
<1>1. /\ hw \in HwType /\ hw.csw \in [APs -> Sizes] /\ hw.tar \in [APs -> Nat]
      /\ e.reg \in Registers /\ e.ap \in APs /\ e.addr \in Nat /\ e.size \in Sizes
      /\ Bank0 => ap \in APs
  BY AccessHasType, SelectedBank DEF Types, HwType
<1>2. CASE e.reg = "select"
  <2>1. h = [hw EXCEPT !.select = <<e.ap, e.addr>>]
    BY <1>2, ExecutedRegisters
  <2>2. <<e.ap, e.addr>> \in Selections
    BY <1>1, <1>2, AccessHasType DEF WellFormed, Selections
  <2> QED BY <1>1, <1>2, <2>1, <2>2 DEF HwType
<1>3. CASE e.reg = "csw"
  <2>1. h = IF Bank0 THEN [hw EXCEPT !.csw[ap] = e.size] ELSE hw
    BY <1>3, ExecutedRegisters
  <2> QED BY <1>1, <1>3, <2>1 DEF HwType
<1>4. CASE e.reg = "tar"
  <2>1. h = IF Bank0 THEN [hw EXCEPT !.tar[ap] = e.addr] ELSE hw
    BY <1>4, ExecutedRegisters
  <2> QED BY <1>1, <1>4, <2>1 DEF HwType
<1>5. CASE e.reg = "drw"
  <2>1. h = IF Bank0 THEN [hw EXCEPT !.tar[ap] = Incremented(hw.tar[ap], hw.csw[ap])] ELSE hw
    BY <1>5, ExecutedRegisters
  <2>2. PICK n : n = Incremented(hw.tar[ap], hw.csw[ap])
    OBVIOUS
  <2>3. Bank0 => n \in Nat
    BY <1>1, <2>2, IncrementedType
  <2> QED BY <1>1, <1>5, <2>1, <2>2, <2>3 DEF HwType
<1>6. CASE e.reg \notin {"select", "csw", "tar", "drw"}
  <2>1. \/ h = hw \/ h = [hw EXCEPT !.sticky = FALSE]
        \/ h = [hw EXCEPT !.power = IF hw.power = "on" THEN "on" ELSE "asked"]
    BY <1>6, ExecutedRegisters
  <2>2. e.reg # "power" => h = hw \/ h = [hw EXCEPT !.sticky = FALSE]
    BY <1>6 DEF AfterExecution
  <2> QED BY <1>1, <1>6, <2>1, <2>2 DEF HwType
<1> QED BY <1>2, <1>3, <1>4, <1>5, <1>6

\* An access that finds what it is for.
LEMMA NothingAmiss ==
  ASSUME Types, NEW e \in Accesses, Amiss(e) = {}
  PROVE  /\ IsAccess(e) => hw.select = <<e.ap, BankOf(e)>>
         /\ e.reg \in {"csw", "tar", "drw"} => Bank0 /\ hw.select[1] = e.ap
         /\ e.reg = "drw" => hw.csw[e.ap] = e.size /\ hw.tar[e.ap] = e.addr
<1>1. IsAccess(e) => hw.select = <<e.ap, BankOf(e)>>
  BY DEF Amiss
<1>2. e.reg = "drw" => hw.csw[e.ap] = e.size /\ hw.tar[e.ap] = e.addr
  BY DEF Amiss
<1>3. e.reg \in {"csw", "tar", "drw"} => IsAccess(e) /\ BankOf(e) = 0
  BY DEF IsAccess, BankOf
<1> QED BY <1>1, <1>2, <1>3, SelectedBank, AccessHasType

\* What is lost and dropped after an execution.
LEMMA ExecutedIs ==
  ASSUME Types, Execute, NEW e, e = Head(queue), NEW ap, ap = hw.select[1]
  PROVE  /\ e \in Accesses /\ hw' = AfterExecution(e)
         /\ lost' = IF e.reg = "select" THEN lost \ {Select}
                    ELSE IF e.reg \in {"csw", "tar"}
                      THEN IF Amiss(e) = {} THEN lost \ {<<e.reg, e.ap>>}
                           ELSE lost \cup {<<e.reg, e.ap>>, <<e.reg, ap>>}
                    ELSE IF e.reg = "drw" /\ Amiss(e) # {}
                      THEN lost \cup {<<"tar", e.ap>>, <<"tar", ap>>}
                    ELSE lost
         /\ dropped' = IF e.reg = "select" THEN dropped \ {Select} ELSE dropped \ {<<e.reg, e.ap>>}
         /\ wrong' = wrong \cup (Amiss(e) \ Gone)
<1>1. e \in Accesses
  BY DropHead DEF Types, Execute
<1>2. /\ hw' = AfterExecution(e)
      /\ lost' = IF e.reg = "select" THEN lost \ {Select}
                 ELSE IF e.reg \in {"csw", "tar"}
                   THEN IF Amiss(e) = {} THEN lost \ {<<e.reg, e.ap>>}
                        ELSE lost \cup {<<e.reg, e.ap>>, <<e.reg, ap>>}
                 ELSE IF e.reg = "drw" /\ Amiss(e) # {}
                   THEN lost \cup {<<"tar", e.ap>>, <<"tar", ap>>}
                 ELSE lost
      /\ dropped' = IF e.reg = "select" THEN dropped \ {Select} ELSE dropped \ {<<e.reg, e.ap>>}
      /\ wrong' = wrong \cup (Amiss(e) \ Gone)
  BY Zenon DEF Execute, Gone
<1> QED BY <1>1, <1>2

\* The registers after it.
LEMMA ExecutedHw ==
  ASSUME Types, Execute, NEW e, e = Head(queue), NEW ap, ap = hw.select[1]
  PROVE  /\ hw' \in HwType
         /\ hw'.select = IF e.reg = "select" THEN <<e.ap, e.addr>> ELSE hw.select
         /\ hw'.csw = IF e.reg = "csw" /\ Bank0 THEN [hw.csw EXCEPT ![ap] = e.size] ELSE hw.csw
         /\ hw'.tar = IF e.reg = "tar" /\ Bank0 THEN [hw.tar EXCEPT ![ap] = e.addr]
                      ELSE IF e.reg = "drw" /\ Bank0
                        THEN [hw.tar EXCEPT ![ap] = Incremented(hw.tar[ap], hw.csw[ap])] ELSE hw.tar
         /\ hw.power = "on" => hw'.power = "on"
         /\ e.reg # "power" => hw'.power = hw.power
<1>1. e \in Accesses /\ hw' = AfterExecution(e)
  BY ExecutedIs
<1>2. PICK h : h = AfterExecution(e)
  OBVIOUS
<1>3. /\ h \in HwType
      /\ h.select = IF e.reg = "select" THEN <<e.ap, e.addr>> ELSE hw.select
      /\ h.csw = IF e.reg = "csw" /\ Bank0 THEN [hw.csw EXCEPT ![ap] = e.size] ELSE hw.csw
      /\ h.tar = IF e.reg = "tar" /\ Bank0 THEN [hw.tar EXCEPT ![ap] = e.addr]
                 ELSE IF e.reg = "drw" /\ Bank0
                   THEN [hw.tar EXCEPT ![ap] = Incremented(hw.tar[ap], hw.csw[ap])] ELSE hw.tar
      /\ hw.power = "on" => h.power = "on"
      /\ e.reg # "power" => h.power = hw.power
  BY <1>1, <1>2, RegistersAfter
<1>4. hw' = h
  BY <1>1, <1>2
<1> HIDE <1>1, <1>2
<1> QED BY <1>3, <1>4

\* What the first access of the queue leaves in SELECT.
LEMMA ExecutedSelect ==
  ASSUME Types, Execute, NEW e, e = Head(queue)
  PROVE  /\ Sets(e, Select) => Select \in Gone' \/ hw'.select = Value(e)
         /\ ~Sets(e, Select) => Select \in Gone' \/ (Select \notin Gone /\ hw'.select = hw.select)
<1>1. PICK ap : ap = hw.select[1]
  OBVIOUS
<1>2. /\ e \in Accesses /\ hw'.select = IF e.reg = "select" THEN <<e.ap, e.addr>> ELSE hw.select
      /\ Sets(e, Select) <=> e.reg = "select"
      /\ e.reg = "select" => Value(e) = <<e.ap, e.addr>>
  BY <1>1, ExecutedIs, RegistersAfter, WhatIsSet DEF Value
<1>3. ASSUME e.reg # "select"
      PROVE  /\ Select \in lost => Select \in lost'
             /\ Select \in dropped => Select \in dropped'
  <2>1. /\ \A a : <<"csw", a>> # Select /\ <<"tar", a>> # Select
        /\ <<e.reg, e.ap>> # Select
    BY <1>3 DEF Select
  <2>2. Select \in dropped => Select \in dropped'
    BY <1>1, <1>3, <2>1, ExecutedIs
  <2>3. Select \in lost => Select \in lost'
    BY <1>1, <1>3, <2>1, ExecutedIs
  <2> QED BY <2>2, <2>3
<1> QED BY <1>2, <1>3 DEF Gone

\* What it leaves in the CSW of an AP: the CSW of the AP that SELECT selects
\* changes when bank 0 is selected.
LEMMA ExecutedCsw ==
  ASSUME Types, Execute, NEW e, e = Head(queue), NEW a \in APs
  PROVE  /\ Sets(e, CSW(a)) => CSW(a) \in Gone' \/ hw'.csw[a] = Value(e)
         /\ ~Sets(e, CSW(a)) => CSW(a) \in Gone' \/ (CSW(a) \notin Gone /\ hw'.csw[a] = hw.csw[a])
<1>1. PICK ap : ap = hw.select[1]
  OBVIOUS
<1>0. e \in Accesses /\ hw' = AfterExecution(e)
  BY <1>1, ExecutedIs, Zenon
<1>2. /\ e.ap \in APs /\ e.size \in Sizes /\ hw.csw \in [APs -> Sizes]
      /\ hw'.csw = IF e.reg = "csw" /\ Bank0 THEN [hw.csw EXCEPT ![ap] = e.size] ELSE hw.csw
      /\ Sets(e, CSW(a)) <=> e.reg = "csw" /\ e.ap = a
      /\ e.reg = "csw" => Value(e) = e.size
      /\ Bank0 => ap \in APs
  <2>1. hw'.csw = IF e.reg = "csw" /\ Bank0 THEN [hw.csw EXCEPT ![ap] = e.size] ELSE hw.csw
    BY <1>1, ExecutedHw, Zenon
  <2>2. e.ap \in APs /\ e.size \in Sizes /\ hw.csw \in [APs -> Sizes]
    BY <1>0, AccessHasType DEF Types, HwType
  <2>3. Sets(e, CSW(a)) <=> e.reg = "csw" /\ e.ap = a
    BY WhatIsSet
  <2>4. e.reg = "csw" => Value(e) = e.size
    BY DEF Value
  <2>5. Bank0 => ap \in APs
    BY <1>1, SelectedBank
  <2> QED BY <2>1, <2>2, <2>3, <2>4, <2>5
<1>3. CASE e.reg = "csw"
  <2>1. /\ lost' = IF Amiss(e) = {} THEN lost \ {CSW(e.ap)} ELSE lost \cup {CSW(e.ap), CSW(ap)}
        /\ dropped' = dropped \ {CSW(e.ap)}
        /\ hw'.csw = IF Bank0 THEN [hw.csw EXCEPT ![ap] = e.size] ELSE hw.csw
    BY <1>0, <1>1, <1>2, <1>3, ExecutedIs DEF CSW
  <2>2. \A b : CSW(a) = CSW(b) <=> a = b
    BY Names
  <2>3. CASE Amiss(e) = {}
    <3>1. Bank0 /\ ap = e.ap
      BY <1>0, <1>1, <1>2, <1>3, <2>3, NothingAmiss
    <3>2. hw'.csw[e.ap] = e.size /\ (a # e.ap => hw'.csw[a] = hw.csw[a])
      BY <1>2, <2>1, <3>1
    <3>3. a # e.ap => (CSW(a) \in Gone <=> CSW(a) \in Gone')
      BY <2>1, <2>2, <2>3 DEF Gone
    <3> QED BY <1>2, <1>3, <3>2, <3>3, Zenon
  <2>4. CASE Amiss(e) # {}
    <3>1. CSW(e.ap) \in Gone' /\ CSW(ap) \in Gone' /\ \A x \in Gone : x \in Gone'
      BY <2>1, <2>4 DEF Gone
    <3>2. a # ap => hw'.csw[a] = hw.csw[a]
      BY <1>2, <2>1
    <3> QED BY <1>2, <1>3, <3>1, <3>2, Zenon
  <2> QED BY <2>3, <2>4
<1>4. CASE e.reg # "csw"
  <2>1. hw'.csw = hw.csw
    BY <1>2, <1>4
  <2>2. <<e.reg, e.ap>> # CSW(a) /\ CSW(a) # Select /\ \A b : <<"tar", b>> # CSW(a)
    BY <1>4 DEF CSW, Select
  <2>3. CSW(a) \in lost => CSW(a) \in lost'
    BY <1>1, <1>4, <2>2, ExecutedIs
  <2>4. CSW(a) \in dropped => CSW(a) \in dropped'
    BY <1>1, <1>4, <2>2, ExecutedIs
  <2> QED BY <1>2, <1>4, <2>1, <2>3, <2>4 DEF Gone
<1> QED BY <1>3, <1>4

\* What it leaves in the TAR of an AP, which a transfer advances.
LEMMA ExecutedTar ==
  ASSUME Types, Execute, NEW e, e = Head(queue), NEW a \in APs
  PROVE  /\ Sets(e, TAR(a)) => TAR(a) \in Gone' \/ hw'.tar[a] = Value(e)
         /\ ~Sets(e, TAR(a)) => TAR(a) \in Gone' \/ (TAR(a) \notin Gone /\ hw'.tar[a] = hw.tar[a])
<1>1. PICK ap : ap = hw.select[1]
  OBVIOUS
<1>2. PICK new : new = IF e.reg = "tar" THEN e.addr ELSE Incremented(hw.tar[ap], hw.csw[ap])
  OBVIOUS
<1>0. e \in Accesses /\ hw' = AfterExecution(e)
  BY <1>1, ExecutedIs, Zenon
<1>3. /\ e.ap \in APs /\ hw.tar \in [APs -> Nat]
      /\ Sets(e, TAR(a)) <=> e.reg \in {"tar", "drw"} /\ e.ap = a
      /\ Bank0 => ap \in APs
  BY <1>0, <1>1, AccessHasType, WhatIsSet, SelectedBank DEF Types, HwType
<1>4. hw'.tar = IF e.reg \in {"tar", "drw"} /\ Bank0 THEN [hw.tar EXCEPT ![ap] = new] ELSE hw.tar
  <2>1. hw'.tar = IF e.reg = "tar" /\ Bank0 THEN [hw.tar EXCEPT ![ap] = e.addr]
                  ELSE IF e.reg = "drw" /\ Bank0
                    THEN [hw.tar EXCEPT ![ap] = Incremented(hw.tar[ap], hw.csw[ap])] ELSE hw.tar
    BY <1>1, ExecutedHw, Zenon
  <2>2. e.reg = "tar" => new = e.addr
    BY <1>2
  <2>3. e.reg # "tar" => new = Incremented(hw.tar[ap], hw.csw[ap])
    BY <1>2
  <2> HIDE <1>2
  <2> QED BY <2>1, <2>2, <2>3
<1>5. CASE e.reg \in {"tar", "drw"}
  <2>1. dropped' = dropped \ {<<e.reg, e.ap>>}
    BY <1>1, <1>5, ExecutedIs
  <2>2. \A b : TAR(a) = TAR(b) <=> a = b
    BY Names
  <2>3. CASE Amiss(e) = {}
    <3>1. Bank0 /\ ap = e.ap
      BY <1>0, <1>1, <1>3, <1>5, <2>3, NothingAmiss
    <3>2. new = Value(e)
      <4>1. e.reg = "drw" => hw.csw[ap] = e.size /\ hw.tar[ap] = e.addr
        BY <1>0, <1>3, <2>3, <3>1, NothingAmiss
      <4> QED BY <1>2, <1>5, <4>1 DEF Value
    <3>3. hw'.tar[e.ap] = new /\ (a # e.ap => hw'.tar[a] = hw.tar[a])
      BY <1>3, <1>4, <1>5, <3>1
    <3>4. a # e.ap => TAR(a) # <<e.reg, e.ap>>
      BY <2>2 DEF TAR
    <3>5. a # e.ap => (TAR(a) \in lost => TAR(a) \in lost')
      BY <1>1, <1>5, <2>3, <3>4, ExecutedIs
    <3>6. a # e.ap => (TAR(a) \in Gone => TAR(a) \in Gone')
      BY <2>1, <3>4, <3>5 DEF Gone
    <3> QED BY <1>3, <1>5, <3>2, <3>3, <3>6, Zenon
  <2>4. CASE Amiss(e) # {}
    <3>1. lost' = lost \cup {TAR(e.ap), TAR(ap)}
      BY <1>1, <1>5, <2>4, ExecutedIs DEF TAR
    <3>2. a \notin {e.ap, ap} => TAR(a) # <<e.reg, e.ap>>
      BY <2>2 DEF TAR
    <3>3. /\ TAR(e.ap) \in Gone' /\ TAR(ap) \in Gone'
          /\ a \notin {e.ap, ap} => (TAR(a) \in Gone => TAR(a) \in Gone')
      BY <2>1, <3>1, <3>2 DEF Gone
    <3>4. a # ap => hw'.tar[a] = hw.tar[a]
      BY <1>3, <1>4
    <3> QED BY <1>3, <1>5, <3>3, <3>4
  <2> QED BY <2>3, <2>4
<1>6. CASE e.reg \notin {"tar", "drw"}
  <2>1. hw'.tar = hw.tar
    BY <1>4, <1>6
  <2>2. <<e.reg, e.ap>> # TAR(a) /\ TAR(a) # Select /\ \A b : <<"csw", b>> # TAR(a)
    BY <1>6 DEF TAR, Select
  <2>3. TAR(a) \in lost => TAR(a) \in lost'
    BY <1>1, <1>6, <2>2, ExecutedIs
  <2>4. TAR(a) \in dropped => TAR(a) \in dropped'
    BY <1>1, <1>6, <2>2, ExecutedIs
  <2> QED BY <1>3, <1>6, <2>1, <2>3, <2>4 DEF Gone
<1> QED BY <1>5, <1>6

-----------------------------------------------------------------------------
(* The copies of SELECT and CSW, and what accesses find: action by action. *)

\* What is ready stays so after an access was executed.
LEMMA ExecuteReady ==
  ASSUME Types, Execute
  PROVE  /\ \A k \in 1..Len(queue) : \A v : SelectReady(k + 1, v) => SelectReady(k, v)'
         /\ \A a \in APs : \A k \in 1..Len(queue) : \A v :
              /\ CswReady(k + 1, a, v) => CswReady(k, a, v)'
              /\ TarReady(k + 1, a, v) => TarReady(k, a, v)'
<1>1. PICK e : e = Head(queue)
  OBVIOUS
<1>2. queue # << >> /\ queue' = Tail(queue)
  BY DEF Execute
<1>3. \A k \in 1..Len(queue) : \A v : SelectReady(k + 1, v) => SelectReady(k, v)'
  <2>1. /\ Sets(e, Select) => Select \in Gone' \/ hw'.select = Value(e)
        /\ ~Sets(e, Select) => Select \in Gone' \/ (Select \notin Gone /\ hw'.select = hw.select)
    BY <1>1, ExecutedSelect
  <2> QED BY <1>1, <1>2, <2>1, Unqueueing, Zenon
<1>4. ASSUME NEW a \in APs
      PROVE  \A k \in 1..Len(queue) : \A v : CswReady(k + 1, a, v) => CswReady(k, a, v)'
  <2>1. /\ Sets(e, CSW(a)) => CSW(a) \in Gone' \/ hw'.csw[a] = Value(e)
        /\ ~Sets(e, CSW(a)) => CSW(a) \in Gone' \/ (CSW(a) \notin Gone /\ hw'.csw[a] = hw.csw[a])
    BY <1>1, ExecutedCsw
  <2> QED BY <1>1, <1>2, <2>1, Unqueueing, Zenon
<1>5. ASSUME NEW a \in APs
      PROVE  \A k \in 1..Len(queue) : \A v : TarReady(k + 1, a, v) => TarReady(k, a, v)'
  <2>1. /\ Sets(e, TAR(a)) => TAR(a) \in Gone' \/ hw'.tar[a] = Value(e)
        /\ ~Sets(e, TAR(a)) => TAR(a) \in Gone' \/ (TAR(a) \notin Gone /\ hw'.tar[a] = hw.tar[a])
    BY <1>1, ExecutedTar
  <2> QED BY <1>1, <1>2, <2>1, Unqueueing, Zenon
<1> QED BY <1>3, <1>4, <1>5, Zenon

\* Before the first access of the queue nothing sets a register.
LEMMA FirstFinds ==
  ASSUME Types, queue # << >>, NEW a, NEW v
  PROVE  /\ SelectReady(1, v) => Select \in Gone \/ hw.select = v
         /\ CswReady(1, a, v) => CSW(a) \in Gone \/ hw.csw[a] = v
         /\ TarReady(1, a, v) => TAR(a) \in Gone \/ hw.tar[a] = v
<1>1. 1..1 - 1 = {}
  OBVIOUS
<1>2. \A r : ~Latest(queue, 1, r, v)
  BY <1>1, Zenon DEF Latest
<1> QED BY <1>2, Zenon DEF SelectReady, CswReady, TarReady

\* An access of the queue finds what it is for, as far as that is not lost and
\* no access before it was dropped.
LEMMA HeadFinds ==
  ASSUME Types, Powered, QueueReady, queue # << >>
  PROVE  Amiss(Head(queue)) \subseteq Gone
<1>1. PICK e : e = Head(queue)
  OBVIOUS
<1>2. e = queue[1] /\ e \in Accesses /\ 1 \in 1..Len(queue)
  <2>1. queue \in Seq(Accesses) /\ Len(queue) \in Nat /\ Len(queue) # 0
    BY DEF Types
  <2> QED BY <1>1, <2>1, DropHead
<1>3. Finds(1, e)
  BY <1>2 DEF QueueReady
<1>4. IsAccess(e) => hw.select = <<e.ap, BankOf(e)>> \/ Select \in Gone
  BY <1>3, FirstFinds, Zenon DEF Finds
<1>5. e.reg = "drw" => /\ hw.csw[e.ap] = e.size \/ <<"csw", e.ap>> \in Gone
                       /\ hw.tar[e.ap] = e.addr \/ <<"tar", e.ap>> \in Gone
  BY <1>3, FirstFinds, Zenon DEF Finds, CSW, TAR
<1>6. IsAccess(e) => hw.power = "on"
  BY <1>2 DEF Powered
<1>7. \A x \in Amiss(e) : x \in Gone
  BY <1>4, <1>5, <1>6, Zenon DEF Amiss
<1> QED BY <1>1, <1>7

\* The queue is the same, and what of the registers changed is known to be lost.
LEMMA KeptCopies ==
  ASSUME Types, Copies, queue' = queue,
         wrong' \subseteq wrong \cup {<<"answer", 0>>},
         dpSelect' \in {dpSelect, Unknown}, \A a \in APs : csw'[a] \in {csw[a], Unset},
         Gone \subseteq Gone', Select \in Gone' \/ hw'.select = hw.select,
         \A a \in APs : /\ CSW(a) \in Gone' \/ hw'.csw[a] = hw.csw[a]
                        /\ TAR(a) \in Gone' \/ hw'.tar[a] = hw.tar[a]
  PROVE  /\ SelectKnown' /\ CswKnown' /\ QueueReady' /\ AccessRight'
         /\ \A a \in APs : \A v : TarReady(End, a, v) => TarReady(End, a, v)'
<1>1. SelectKnown /\ CswKnown /\ QueueReady /\ AccessRight /\ End' = End
  BY DEF Copies, End
<1>2. \A r : r \in Gone => r \in Gone'
  OBVIOUS
<1>3. \A k, v : SelectReady(k, v) => SelectReady(k, v)'
  BY <1>2, Zenon DEF SelectReady
<1>4. \A a \in APs : \A k, v : /\ CswReady(k, a, v) => CswReady(k, a, v)'
                               /\ TarReady(k, a, v) => TarReady(k, a, v)'
  BY <1>2, Zenon DEF CswReady, TarReady
<1>5. \A a \in APs : \A v : TarReady(End, a, v) => TarReady(End, a, v)'
  BY <1>1, <1>4, Zenon DEF TarReady
<1>6. SelectKnown'
  <2>1. \A v : SelectReady(End, v) => SelectReady(End, v)'
    BY <1>1, <1>3, Zenon DEF SelectReady
  <2> QED BY <1>1, <2>1 DEF SelectKnown
<1>7. CswKnown'
  <2>1. \A a \in APs : \A v : CswReady(End, a, v) => CswReady(End, a, v)'
    BY <1>1, <1>4, Zenon DEF CswReady
  <2> QED BY <1>1, <2>1 DEF CswKnown
<1>8. QueueReady'
  <2> SUFFICES ASSUME NEW k \in 1..Len(queue), NEW x, x = queue[k]
               PROVE  Finds(k, x)'
    BY Zenon DEF QueueReady
  <2>1. Finds(k, x) /\ x.ap \in APs
    BY <1>1, AccessHasType DEF QueueReady, Types
  <2> QED BY <1>3, <1>4, <2>1, Zenon DEF Finds
<1>9. AccessRight'
  BY <1>1 DEF AccessRight
<1> QED BY <1>5, <1>6, <1>7, <1>8, <1>9

\* The same call is in progress.
LEMMA SameCall ==
  ASSUME Types, TodoReady, todo' = todo, csw' = csw,
         \A a \in APs : \A v : TarReady(End, a, v) => TarReady(End, a, v)'
  PROVE  TodoReady'
<1> SUFFICES ASSUME NEW k \in 1..Len(todo), NEW x, x = todo[k], x.reg = "drw"
             PROVE  ReadyInCall(k, x)'
  BY Zenon DEF TodoReady
<1>1. ReadyInCall(k, x) /\ x.ap \in APs
  BY AccessHasType DEF TodoReady, Types
<1> QED BY <1>1, Zenon DEF ReadyInCall

\* The first access leaves the queue, executed or dropped, and what was ready for
\* an access behind it still is: the copies are right for what is left.
LEMMA HeadLeaves ==
  ASSUME Types, SelectKnown, CswKnown, QueueReady, TodoReady,
         NEW e, e = Head(queue), queue # << >>, queue' = Tail(queue),
         dpSelect' = dpSelect, csw' = csw, todo' = todo,
         \A k \in 1..Len(queue) : \A v : SelectReady(k + 1, v) => SelectReady(k, v)',
         \A a \in APs : \A k \in 1..Len(queue) : \A v :
           /\ CswReady(k + 1, a, v) => CswReady(k, a, v)'
           /\ TarReady(k + 1, a, v) => TarReady(k, a, v)'
  PROVE  SelectKnown' /\ CswKnown' /\ QueueReady' /\ TodoReady'
<1>1. /\ End' \in 1..Len(queue) /\ End = End' + 1
      /\ \A k \in 1..Len(queue') : queue'[k] = queue[k + 1] /\ k + 1 \in 1..Len(queue)
                                   /\ k \in 1..Len(queue)
  BY Unqueueing
<1>2. /\ \A v : SelectReady(End, v) => SelectReady(End, v)'
      /\ \A a \in APs : \A v : /\ CswReady(End, a, v) => CswReady(End, a, v)'
                               /\ TarReady(End, a, v) => TarReady(End, a, v)'
  <2>1. \E l \in 1..Len(queue) : l = End' /\ l + 1 = End
    BY <1>1
  <2>2. PICK l \in 1..Len(queue) : l = End' /\ l + 1 = End
    BY <2>1
  <2>3. /\ \A v : SelectReady(End, v) => SelectReady(l, v)'
        /\ \A a \in APs : \A v : /\ CswReady(End, a, v) => CswReady(l, a, v)'
                                 /\ TarReady(End, a, v) => TarReady(l, a, v)'
    BY <2>2
  <2> QED BY <2>2, <2>3, Zenon DEF SelectReady, CswReady, TarReady
<1>3. SelectKnown'
  BY <1>2 DEF SelectKnown
<1>4. CswKnown'
  BY <1>2, Zenon DEF CswKnown
<1>5. QueueReady'
  <2> SUFFICES ASSUME NEW k \in 1..Len(queue'), NEW x, x = queue'[k]
               PROVE  Finds(k, x)'
    BY Zenon DEF QueueReady
  <2>1. x = queue[k + 1] /\ k + 1 \in 1..Len(queue) /\ k \in 1..Len(queue)
    BY <1>1
  <2>2. x \in Accesses /\ Finds(k + 1, x)
    BY <2>1 DEF QueueReady, Types
  <2>3. x.ap \in APs
    BY <2>2, AccessHasType
  <2> QED BY <2>1, <2>2, <2>3, Zenon DEF Finds
<1>6. TodoReady'
  BY <1>2, SameCall
<1> QED BY <1>3, <1>4, <1>5, <1>6

\* An executed access leaves the copies right for what is queued behind it.
LEMMA ExecuteCopies ==
  ASSUME Control, Copies, Execute
  PROVE  Copies'
<1>1. Types /\ Powered /\ SelectKnown /\ CswKnown /\ QueueReady /\ TodoReady
      /\ AccessRight
  BY DEF Control, Copies
<1>2. PICK e : e = Head(queue)
  OBVIOUS
<1>3. /\ queue # << >> /\ queue' = Tail(queue)
      /\ dpSelect' = dpSelect /\ csw' = csw /\ todo' = todo
      /\ wrong' = wrong \cup (Amiss(e) \ Gone)
  BY <1>2 DEF Execute, host, Gone
<1>4. /\ \A k \in 1..Len(queue) : \A v : SelectReady(k + 1, v) => SelectReady(k, v)'
      /\ \A a \in APs : \A k \in 1..Len(queue) : \A v :
           /\ CswReady(k + 1, a, v) => CswReady(k, a, v)'
           /\ TarReady(k + 1, a, v) => TarReady(k, a, v)'
  BY <1>1, ExecuteReady
<1>5. SelectKnown' /\ CswKnown' /\ QueueReady' /\ TodoReady'
  BY <1>1, <1>2, <1>3, <1>4, HeadLeaves
<1>6. AccessRight'
  <2>1. Amiss(e) \subseteq Gone
    BY <1>1, <1>2, <1>3, HeadFinds
  <2> QED BY <1>1, <1>3, <2>1 DEF AccessRight
<1> QED BY <1>5, <1>6 DEF Copies

\* An access that finds what it is for is queued, and the copies follow what it
\* sets.
LEMMA EnqueueCopies ==
  ASSUME Types, Copies, NEW e \in Accesses, queue' = Append(queue, e), hw' = hw, lost' = lost,
         dropped' = dropped, wrong' = wrong, Finds(End, e),
         dpSelect' = IF e.reg = "select" THEN <<e.ap, e.addr>> ELSE dpSelect,
         csw' = IF e.reg = "csw" THEN [csw EXCEPT ![e.ap] = e.size] ELSE csw
  PROVE  SelectKnown' /\ CswKnown' /\ QueueReady' /\ AccessRight'
<1>1. SelectKnown /\ CswKnown /\ QueueReady /\ AccessRight
  BY DEF Copies
<1>2. /\ \A k \in 1..End : \A a, v : /\ SelectReady(k, v) => SelectReady(k, v)'
                                     /\ CswReady(k, a, v) => CswReady(k, a, v)'
                                     /\ TarReady(k, a, v) => TarReady(k, a, v)'
      /\ \A v : (Sets(e, Select) /\ Value(e) = v) \/ (~Sets(e, Select) /\ SelectReady(End, v))
                  => SelectReady(End, v)'
      /\ \A a, v : (Sets(e, CSW(a)) /\ Value(e) = v) \/ (~Sets(e, CSW(a)) /\ CswReady(End, a, v))
                     => CswReady(End, a, v)'
  BY Queueing
<1>3. /\ Sets(e, Select) <=> e.reg = "select"
      /\ \A a : Sets(e, CSW(a)) <=> e.reg = "csw" /\ e.ap = a
      /\ e.reg = "select" => Value(e) = <<e.ap, e.addr>>
      /\ e.reg = "csw" => Value(e) = e.size
      /\ e.ap \in APs /\ csw \in [APs -> {Unset, 1, 2, 4}]
  BY WhatIsSet, AccessHasType DEF Value, Types, TypeOK
<1>4. SelectKnown'
  BY <1>1, <1>2, <1>3 DEF SelectKnown
<1>5. CswKnown'
  <2> SUFFICES ASSUME NEW a \in APs, csw'[a] # Unset
               PROVE  CswReady(End, a, csw[a])'
    BY DEF CswKnown
  <2>1. CASE e.reg = "csw" /\ e.ap = a
    <3>1. csw'[a] = e.size
      BY <1>3, <2>1
    <3> QED BY <1>2, <1>3, <2>1, <3>1
  <2>2. CASE ~(e.reg = "csw" /\ e.ap = a)
    <3>1. csw'[a] = csw[a]
      BY <1>3, <2>2
    <3>2. CswReady(End, a, csw[a])
      BY <1>1, <3>1 DEF CswKnown
    <3> QED BY <1>2, <1>3, <2>2, <3>1, <3>2
  <2> QED BY <2>1, <2>2
<1>6. QueueReady'
  <2> SUFFICES ASSUME NEW k \in 1..Len(queue'), NEW x, x = queue'[k]
               PROVE  Finds(k, x)'
    BY Zenon DEF QueueReady
  <2>1. queue \in Seq(Accesses) /\ End = Len(queue) + 1
    BY DEF Types, End
  <2>2. Finds(k, x) /\ k \in 1..End /\ x \in Accesses
    <3>1. CASE k \in 1..Len(queue)
      <4>1. x = queue[k] /\ k \in 1..End /\ queue[k] \in Accesses
        BY <2>1, <3>1
      <4> QED BY <1>1, <3>1, <4>1 DEF QueueReady
    <3>2. CASE k = Len(queue) + 1
      BY <2>1, <3>2
    <3> QED BY <2>1, <3>1, <3>2
  <2> QED BY <1>2, <2>2, Zenon DEF Finds
<1>7. AccessRight'
  BY <1>1 DEF AccessRight
<1> QED BY <1>4, <1>5, <1>6, <1>7

\* A write of SELECT is queued.
LEMMA SelectCopies ==
  ASSUME Types, Copies, NEW e \in Accesses, e.reg = "select", queue' = Append(queue, e),
         hw' = hw, lost' = lost, dropped' = dropped, wrong' = wrong,
         dpSelect' = <<e.ap, e.addr>>, csw' = csw
  PROVE  /\ SelectKnown' /\ CswKnown' /\ QueueReady' /\ AccessRight'
         /\ \A a \in APs : \A v : TarReady(End, a, v) => TarReady(End, a, v)'
<1>1. Finds(End, e)
  BY DEF Finds, IsAccess
<1>2. SelectKnown' /\ CswKnown' /\ QueueReady' /\ AccessRight'
  BY <1>1, EnqueueCopies
<1>3. \A a : ~Sets(e, TAR(a))
  BY WhatIsSet
<1> QED BY <1>2, <1>3, Queueing

\* _select_ap: the SELECT write that an access needs is queued before it.
LEMMA IssueSelectCopies ==
  ASSUME Control, Copies, IssueSelect
  PROVE  Copies'
<1>1. Types /\ todo # << >> /\ IsAccess(Step1) /\ TodoReady
  BY DEF Control, Copies, IssueSelect
<1>2. Step1 \in Accesses /\ Step1.ap \in APs
  BY <1>1, RestOfCall, AccessHasType
<1>3. PICK e : e = Step("select", Step1.ap, BankOf(Step1), 0, TRUE, FALSE)
  OBVIOUS
<1>4. e \in Accesses /\ e.reg = "select" /\ e.ap = Step1.ap /\ e.addr = BankOf(Step1)
  BY <1>2, <1>3, QueuedSelect
<1>5. /\ queue' = Append(queue, e) /\ dpSelect' = <<e.ap, e.addr>> /\ csw' = csw /\ todo' = todo
      /\ hw' = hw /\ lost' = lost /\ dropped' = dropped /\ wrong' = wrong
  BY <1>3, <1>4 DEF IssueSelect, Enqueue, target, history
<1>6. /\ SelectKnown' /\ CswKnown' /\ QueueReady' /\ AccessRight'
      /\ \A a \in APs : \A v : TarReady(End, a, v) => TarReady(End, a, v)'
  BY <1>1, <1>4, <1>5, SelectCopies
<1>7. TodoReady'
  BY <1>1, <1>5, <1>6, SameCall
<1> QED BY <1>6, <1>7 DEF Copies

\* write_ap and read_ap behind the selection: the access joins the queue.
LEMMA IssueCopies ==
  ASSUME Control, Copies, Issue
  PROVE  Copies'
<1>1. Types /\ todo # << >> /\ SelectKnown /\ CswKnown /\ TodoReady
  BY DEF Control, Copies, Issue
<1>2. PICK e : e = Step1
  OBVIOUS
<1>3. /\ IsAccess(e) /\ dpSelect = <<e.ap, BankOf(e)>> /\ queue' = Append(queue, e)
      /\ csw' = IF e.reg = "csw" THEN [csw EXCEPT ![e.ap] = e.size] ELSE csw
      /\ dpSelect' = dpSelect /\ todo' = Tail(todo)
      /\ hw' = hw /\ lost' = lost /\ dropped' = dropped /\ wrong' = wrong
  BY <1>2, Zenon DEF Issue, MustSelect, Enqueue, Return, target, history
<1>4. /\ e \in Accesses /\ e = todo[1] /\ e.reg # "select" /\ e.ap \in APs
      /\ 1 \in 1..Len(todo) /\ WellFormed(e) /\ csw \in [APs -> {Unset, 1, 2, 4}]
  BY <1>1, <1>2, RestOfCall, AccessHasType DEF Types, TypeOK
<1>5. Finds(End, e)
  <2>1. <<e.ap, BankOf(e)>> # Unknown
    BY <1>4, AccessPortAssumption DEF Unknown
  <2>2. SelectReady(End, <<e.ap, BankOf(e)>>)
    BY <1>1, <1>3, <2>1, Zenon DEF SelectKnown
  <2>3. ASSUME e.reg = "drw"
        PROVE  CswReady(End, e.ap, e.size) /\ TarReady(End, e.ap, e.addr)
    <3>1. ReadyInCall(1, e)
      BY <1>1, <1>4, <2>3 DEF TodoReady
    <3>2. 1..1 - 1 = {}
      OBVIOUS
    <3>3. \A r, v : ~Latest(todo, 1, r, v)
      BY <3>2, Zenon DEF Latest
    <3>4. csw[e.ap] = e.size /\ TarReady(End, e.ap, e.addr)
      BY <3>1, <3>3, Zenon DEF ReadyInCall
    <3>5. csw[e.ap] # Unset
      BY <1>4, <2>3, <3>4 DEF WellFormed, Unset
    <3> QED BY <1>1, <1>4, <3>4, <3>5 DEF CswKnown
  <2> QED BY <2>2, <2>3 DEF Finds
<1>6. SelectKnown' /\ CswKnown' /\ QueueReady' /\ AccessRight'
  BY <1>1, <1>3, <1>4, <1>5, EnqueueCopies
<1>7. TodoReady'
  <2>1. /\ \A k \in 1..Len(todo') : todo'[k] = todo[k + 1] /\ k + 1 \in 1..Len(todo)
        /\ \A k \in 1..Len(todo') : k \in 1..Len(todo) /\ todo[k + 1] \in Accesses
    BY <1>1, <1>3, RestOfCall DEF Types
  <2> SUFFICES ASSUME NEW k \in 1..Len(todo'), NEW x, x = todo'[k], x.reg = "drw"
               PROVE  ReadyInCall(k, x)'
    BY Zenon DEF TodoReady
  <2>2. x = todo[k + 1] /\ x.ap \in APs /\ k + 1 \in 1..Len(todo) /\ k \in 1..Len(todo)
    BY <2>1, AccessHasType
  <2>3. ReadyInCall(k + 1, x)
    BY <1>1, <2>2 DEF TodoReady
  <2>4. \A r, v : /\ Latest(todo, k + 1, r, v) =>
                       \/ Latest(todo', k, r, v)
                       \/ Untouched(todo', k, r) /\ Sets(e, r) /\ Value(e) = v
                  /\ Untouched(todo, k + 1, r) => Untouched(todo', k, r) /\ ~Sets(e, r)
    BY <1>1, <1>3, <1>4, <2>2, LatestInTail DEF Types
  <2>5. /\ \A a : Sets(e, CSW(a)) <=> e.reg = "csw" /\ e.ap = a
        /\ e.reg = "csw" => Value(e) = e.size
    BY WhatIsSet DEF Value
  <2>6. /\ Sets(e, CSW(x.ap)) => csw'[x.ap] = Value(e)
        /\ ~Sets(e, CSW(x.ap)) => csw'[x.ap] = csw[x.ap]
    BY <1>3, <1>4, <2>2, <2>5
  <2>7. \A v : (Sets(e, TAR(x.ap)) /\ Value(e) = v) \/ (~Sets(e, TAR(x.ap)) /\ TarReady(End, x.ap, v))
                 => TarReady(End, x.ap, v)'
    BY <1>1, <1>3, <1>4, Queueing
  <2>8. \/ Latest(todo', k, CSW(x.ap), x.size)
        \/ Untouched(todo', k, CSW(x.ap)) /\ csw'[x.ap] = x.size
    BY <2>3, <2>4, <2>6, Zenon DEF ReadyInCall
  <2>9. \/ Latest(todo', k, TAR(x.ap), x.addr)
        \/ Untouched(todo', k, TAR(x.ap)) /\ TarReady(End, x.ap, x.addr)'
    BY <1>3, <2>3, <2>4, <2>7, Zenon DEF ReadyInCall
  <2> QED BY <2>8, <2>9, Zenon DEF ReadyInCall
<1> QED BY <1>6, <1>7 DEF Copies

\* A CSW write that _write_csw leaves out finds the value in CSW.
LEMMA IssueCswCachedCopies ==
  ASSUME Control, Copies, IssueCswCached
  PROVE  Copies'
<1>1. Types /\ TodoReady
  BY DEF Control, Copies
<1>2. PICK e : e = Step1
  OBVIOUS
<1>3. /\ todo # << >> /\ e.reg = "csw" /\ csw[e.ap] = e.size
      /\ todo' = Tail(todo) /\ UNCHANGED <<dpSelect, csw, queue, hw, lost, dropped, wrong>>
  BY <1>2, Zenon DEF IssueCswCached, At, Step1, Return, target, history
<1>4. /\ SelectKnown' /\ CswKnown' /\ QueueReady' /\ AccessRight'
      /\ \A a \in APs : \A v : TarReady(End, a, v) => TarReady(End, a, v)'
  BY <1>1, <1>3, KeptCopies DEF Gone
<1>5. TodoReady'
  <2>1. /\ \A k \in 1..Len(todo') : todo'[k] = todo[k + 1] /\ k + 1 \in 1..Len(todo)
        /\ \A k \in 1..Len(todo') : k \in 1..Len(todo) /\ todo[k + 1] \in Accesses
        /\ e = todo[1]
    BY <1>1, <1>2, <1>3, RestOfCall DEF Types
  <2> SUFFICES ASSUME NEW k \in 1..Len(todo'), NEW x, x = todo'[k], x.reg = "drw"
               PROVE  ReadyInCall(k, x)'
    BY Zenon DEF TodoReady
  <2>2. x = todo[k + 1] /\ x.ap \in APs /\ k + 1 \in 1..Len(todo) /\ k \in 1..Len(todo)
    BY <2>1, AccessHasType
  <2>3. ReadyInCall(k + 1, x)
    BY <1>1, <2>2 DEF TodoReady
  <2>4. \A r, v : /\ Latest(todo, k + 1, r, v) =>
                       \/ Latest(todo', k, r, v)
                       \/ Untouched(todo', k, r) /\ Sets(e, r) /\ Value(e) = v
                  /\ Untouched(todo, k + 1, r) => Untouched(todo', k, r) /\ ~Sets(e, r)
    BY <1>1, <1>3, <2>1, <2>2, LatestInTail DEF Types
  <2>5. /\ Sets(e, CSW(x.ap)) => Value(e) = csw[x.ap]
        /\ ~Sets(e, TAR(x.ap))
    BY <1>3, WhatIsSet DEF Value
  <2>6. \/ Latest(todo', k, CSW(x.ap), x.size)
        \/ Untouched(todo', k, CSW(x.ap)) /\ csw'[x.ap] = x.size
    BY <1>3, <2>3, <2>4, <2>5, Zenon DEF ReadyInCall
  <2>7. \/ Latest(todo', k, TAR(x.ap), x.addr)
        \/ Untouched(todo', k, TAR(x.ap)) /\ TarReady(End, x.ap, x.addr)'
    BY <1>3, <1>4, <2>2, <2>3, <2>4, <2>5, Zenon DEF ReadyInCall
  <2> QED BY <2>6, <2>7, Zenon DEF ReadyInCall
<1> QED BY <1>4, <1>5 DEF Copies

\* The writes of the debug port that open the link.
LEMMA DpWriteCopies ==
  ASSUME Control, Copies, DpWrite
  PROVE  Copies'
<1>1. Types /\ TodoReady /\ WellFormed(Step1) /\ Step1 \in Accesses /\ todo # << >>
  BY RestOfCall, AccessHasType DEF Control, Copies, DpWrite, At
<1>2. /\ Step1.reg \in {"clear", "select0", "power"} /\ todo' = Tail(todo)
      /\ UNCHANGED <<csw, hw, lost, dropped, wrong>>
  BY DEF DpWrite, At, Step1, Return, target, history
<1>3. /\ SelectKnown' /\ CswKnown' /\ QueueReady' /\ AccessRight'
      /\ \A a \in APs : \A v : TarReady(End, a, v) => TarReady(End, a, v)'
  <2>1. CASE Step1.reg = "select0" /\ dpSelect = <<0, 0>>
    <3>1. queue' = queue /\ dpSelect' = dpSelect
      BY <1>2, <2>1 DEF DpWrite, At, Step1
    <3> QED BY <1>1, <1>2, <3>1, KeptCopies DEF Gone
  <2>2. CASE Step1.reg = "select0" /\ dpSelect # <<0, 0>>
    <3>1. PICK e : e = [Step1 EXCEPT !.reg = "select"]
      OBVIOUS
    <3>2. e \in Accesses /\ e.reg = "select" /\ e.ap = 0 /\ e.addr = 0
      BY <1>1, <2>2, <3>1 DEF WellFormed, Accesses, StepType, Registers
    <3>3. queue' = Append(queue, e) /\ dpSelect' = <<e.ap, e.addr>>
      BY <1>1, <2>2, <3>1, <3>2 DEF DpWrite, At, Step1, Enqueue
    <3> QED BY <1>1, <1>2, <3>2, <3>3, SelectCopies
  <2>3. CASE Step1.reg \in {"clear", "power"}
    <3>1. PICK e : e = Step1
      OBVIOUS
    <3>2. queue' = Append(queue, e) /\ dpSelect' = dpSelect
      BY <2>3, <3>1 DEF DpWrite, At, Step1, Enqueue
    <3>3. e \in Accesses /\ e.reg \in {"clear", "power"}
      BY <1>1, <2>3, <3>1
    <3>4. Finds(End, e)
      BY <3>3 DEF Finds, IsAccess
    <3>5. SelectKnown' /\ CswKnown' /\ QueueReady' /\ AccessRight'
      BY <1>1, <1>2, <3>2, <3>3, <3>4, EnqueueCopies
    <3>6. \A a : ~Sets(e, TAR(a))
      BY <3>3, WhatIsSet
    <3> QED BY <1>1, <1>2, <3>2, <3>3, <3>5, <3>6, Queueing
  <2> QED BY <1>2, <2>1, <2>2, <2>3
<1>4. TodoReady'
  BY <1>1, <1>2, <1>3, TodoGoesOn
<1> QED BY <1>3, <1>4 DEF Copies

\* Steps of a call that leave the queue and the target alone.
LEMMA QuietStepCopies ==
  ASSUME Control, Copies, Completed \/ ResultThere \/ ReadIdCode \/ ReadIdCodeFails \/ Poll
  PROVE  Copies'
<1>1. Types /\ TodoReady /\ Shape
  BY DEF Control, Copies
<1>2. /\ UNCHANGED <<dpSelect, csw, queue, hw, lost, dropped>>
      /\ wrong' \subseteq wrong \cup {<<"answer", 0>>}
  <2>1. CASE Completed
    BY <2>1 DEF Completed, target
  <2>2. CASE ResultThere
    BY <2>2 DEF ResultThere, target, history
  <2>3. CASE ReadIdCode
    BY <2>3 DEF ReadIdCode, target, history
  <2>4. CASE ReadIdCodeFails
    BY <2>4 DEF ReadIdCodeFails, target, history
  <2>5. CASE Poll
    BY <2>5 DEF Poll, target, history
  <2> QED BY <2>1, <2>2, <2>3, <2>4, <2>5
<1>3. /\ SelectKnown' /\ CswKnown' /\ QueueReady' /\ AccessRight'
      /\ \A a \in APs : \A v : TarReady(End, a, v) => TarReady(End, a, v)'
  BY <1>1, <1>2, KeptCopies DEF Gone
<1>4. TodoReady'
  <2>1. CASE Completed \/ ResultThere \/ Poll
    <3>1. todo # << >> /\ todo' = Tail(todo) /\ Step1.reg \in {"await", "flush", "result", "poll"}
      BY <2>1 DEF Completed, ResultThere, Poll, At, Return, Step1
    <3> QED BY <1>1, <1>2, <1>3, <3>1, TodoGoesOn
  <2>2. CASE ReadIdCode \/ ReadIdCodeFails
    <3>1. todo # << >> /\ Step1.reg \in {"idcode", "idcode2"}
      BY <2>2 DEF ReadIdCode, ReadIdCodeFails, At, Step1
    <3>2. \A k \in 1..Len(todo) : todo[k].reg # "drw"
      BY <1>1, <3>1, NoTransfersInOpening
    <3>3. \/ todo' = Tail(todo) \/ todo' = << >>
          \/ todo' = Tail(Tail(todo)) /\ Step1.reg = "idcode"
      BY <2>2 DEF ReadIdCode, ReadIdCodeFails, At, Return, Step1
    <3>4. \A k \in 1..Len(todo') : todo'[k].reg # "drw"
      <4>1. CASE todo' = << >>
        BY <4>1
      <4>2. CASE todo' = Tail(todo)
        BY <1>1, <3>1, <3>2, <4>2, RestOfCall
      <4>3. CASE todo' = Tail(Tail(todo)) /\ Step1.reg = "idcode"
        BY <1>1, <3>1, <3>2, <4>3, TailOfTail
      <4> QED BY <3>3, <4>1, <4>2, <4>3
    <3> QED BY <3>4, Zenon DEF TodoReady
  <2> QED BY <2>1, <2>2
<1> QED BY <1>3, <1>4 DEF Copies

\* An access that is dropped leaves the register behind that it would have set.
LEMMA MissingIs ==
  ASSUME NEW e
  PROVE  /\ Sets(e, Select) => Missing(e) = Select
         /\ \A a : Sets(e, CSW(a)) => Missing(e) = CSW(a)
         /\ \A a : Sets(e, TAR(a)) => Missing(e) = TAR(a)
BY WhatIsSet DEF Missing, CSW, TAR

\* An access leaves the queue and is not executed.
LEMMA DroppedCopies ==
  ASSUME Control, Copies, Fail \/ Refuse \/ SkipRest
  PROVE  Copies'
<1>1. Types /\ SelectKnown /\ CswKnown /\ QueueReady /\ TodoReady /\ AccessRight
  BY DEF Control, Copies
<1>2. PICK e : e = Head(queue)
  OBVIOUS
<1>3. /\ queue # << >> /\ queue' = Tail(queue) /\ dropped' = dropped \cup {Missing(e)}
      /\ UNCHANGED <<dpSelect, csw, todo, lost, wrong>>
      /\ hw'.select = hw.select /\ hw'.csw = hw.csw /\ hw'.tar = hw.tar
  <2>1. CASE Fail
    <3>1. hw' = [hw EXCEPT !.sticky = (failure' = "fault")] /\ hw \in HwType
      BY <1>1, <2>1 DEF Fail, Types
    <3>2. hw'.select = hw.select /\ hw'.csw = hw.csw /\ hw'.tar = hw.tar
      BY <3>1 DEF HwType
    <3> QED BY <1>2, <2>1, <3>2 DEF Fail, Dropped, host
  <2>2. CASE Refuse
    BY <1>2, <2>2 DEF Refuse, Dropped, host, target
  <2>3. CASE SkipRest
    BY <1>2, <2>3 DEF SkipRest, Dropped, host, target
  <2> QED BY <2>1, <2>2, <2>3
<1>4. /\ Sets(e, Select) => Missing(e) = Select
      /\ \A a : Sets(e, CSW(a)) => Missing(e) = CSW(a)
      /\ \A a : Sets(e, TAR(a)) => Missing(e) = TAR(a)
  BY MissingIs
<1>5. (\A x : x \in Gone => x \in Gone') /\ Missing(e) \in Gone'
  BY <1>3 DEF Gone
<1>6. \A k \in 1..Len(queue) : \A v : SelectReady(k + 1, v) => SelectReady(k, v)'
  <2>1. /\ Sets(e, Select) => Select \in Gone' \/ hw'.select = Value(e)
        /\ ~Sets(e, Select) => Select \in Gone' \/ (Select \notin Gone /\ hw'.select = hw.select)
    BY <1>3, <1>4, <1>5
  <2> QED BY <1>1, <1>2, <1>3, <2>1, Unqueueing, Zenon
<1>7. \A a \in APs : \A k \in 1..Len(queue) : \A v : CswReady(k + 1, a, v) => CswReady(k, a, v)'
  <2> SUFFICES ASSUME NEW a \in APs
               PROVE  \A k \in 1..Len(queue) : \A v : CswReady(k + 1, a, v) => CswReady(k, a, v)'
    OBVIOUS
  <2>1. /\ Sets(e, CSW(a)) => CSW(a) \in Gone' \/ hw'.csw[a] = Value(e)
        /\ ~Sets(e, CSW(a)) => CSW(a) \in Gone' \/ (CSW(a) \notin Gone /\ hw'.csw[a] = hw.csw[a])
    <3>1. Sets(e, CSW(a)) => CSW(a) \in Gone'
      <4>1. Sets(e, CSW(a)) => Missing(e) = CSW(a)
        BY <1>4, Zenon
      <4> QED BY <1>5, <4>1
    <3> QED BY <1>3, <1>5, <3>1, Zenon
  <2> QED BY <1>1, <1>2, <1>3, <2>1, Unqueueing, Zenon
<1>8. \A a \in APs : \A k \in 1..Len(queue) : \A v : TarReady(k + 1, a, v) => TarReady(k, a, v)'
  <2> SUFFICES ASSUME NEW a \in APs
               PROVE  \A k \in 1..Len(queue) : \A v : TarReady(k + 1, a, v) => TarReady(k, a, v)'
    OBVIOUS
  <2>1. /\ Sets(e, TAR(a)) => TAR(a) \in Gone' \/ hw'.tar[a] = Value(e)
        /\ ~Sets(e, TAR(a)) => TAR(a) \in Gone' \/ (TAR(a) \notin Gone /\ hw'.tar[a] = hw.tar[a])
    <3>1. Sets(e, TAR(a)) => TAR(a) \in Gone'
      <4>1. Sets(e, TAR(a)) => Missing(e) = TAR(a)
        BY <1>4, Zenon
      <4> QED BY <1>5, <4>1
    <3> QED BY <1>3, <1>5, <3>1, Zenon
  <2> QED BY <1>1, <1>2, <1>3, <2>1, Unqueueing, Zenon
<1>9. Copies' <=> AccessRight'
  <2>1. \A a \in APs : \A k \in 1..Len(queue) : \A v :
          /\ CswReady(k + 1, a, v) => CswReady(k, a, v)'
          /\ TarReady(k + 1, a, v) => TarReady(k, a, v)'
    BY <1>7, <1>8, Zenon
  <2>2. SelectKnown' /\ CswKnown' /\ QueueReady' /\ TodoReady'
    BY <1>1, <1>2, <1>3, <1>6, <2>1, HeadLeaves
  <2> QED BY <2>2, Zenon DEF Copies
<1>10. AccessRight'
  BY <1>1, <1>3 DEF AccessRight
<1> QED BY <1>9, <1>10

\* An error is raised: what the queue held is lost, or no copy of it is kept.
LEMMA RaiseCopies ==
  ASSUME Control, Copies, Raise
  PROVE  Copies'
<1>1. Types /\ SelectKnown /\ CswKnown /\ AccessRight
  BY DEF Control, Copies
<1>2. PICK reg, ap, guarded : Step1.reg = reg /\ Step1.ap = ap /\ Step1.guarded = guarded
  OBVIOUS
<1>3. PICK gone : gone = dropped \cup {Missing(queue[k]) : k \in DOMAIN queue}
  OBVIOUS
<1>4. /\ todo' = << >> /\ hw' = hw /\ wrong' = wrong
      /\ dpSelect' = IF ForgetsSelect THEN Unknown ELSE dpSelect
      /\ csw' = IF guarded THEN [csw EXCEPT ![ap] = Unset] ELSE csw
      /\ queue' = Handled
      /\ lost' = lost \cup (gone \ ((IF ForgetsSelect THEN {Select} ELSE {})
                                      \cup (IF guarded THEN {CSW(ap)} ELSE {})))
  BY <1>2, <1>3, Zenon DEF Raise, AfterError, CSW, target
<1>5. /\ Len(queue') \in {0, 1} /\ End' \in Nat /\ End' = Len(queue') + 1
      /\ \A k \in 1..Len(queue') : queue'[k].reg \in {"clear", "abort"}
  <2>1. queue' = << >> \/ queue' = <<Plain("clear")>> \/ queue' = <<Plain("abort")>>
    BY <1>4 DEF Handled
  <2>2. Plain("clear").reg = "clear" /\ Plain("abort").reg = "abort"
    BY SimpleSteps DEF Registers
  <2> QED BY <2>1, <2>2 DEF End
<1>6. \A r : Untouched(queue', End', r)
  <2>1. End' - 1 = Len(queue')
    BY <1>5
  <2>2. \A i \in 1..Len(queue') : \A r : ~Sets(queue'[i], r)
    BY <1>5, Zenon DEF Sets
  <2> QED BY <2>1, <2>2, Zenon DEF Untouched
<1>7. /\ queue \in Seq(Accesses) /\ End - 1 = Len(queue) /\ DOMAIN queue = 1..Len(queue)
      /\ csw \in [APs -> {Unset, 1, 2, 4}]
  BY <1>1 DEF Types, TypeOK, End
<1>8. /\ \A r : r \in dropped => r \in gone
      /\ \A k \in 1..Len(queue) : /\ queue[k].reg = "select" => Select \in gone
                                  /\ queue[k].reg = "csw" => CSW(queue[k].ap) \in gone
  BY <1>3, <1>7 DEF CSW, Missing
<1>9. ASSUME NEW v, SelectReady(End, v), ~ForgetsSelect
      PROVE  SelectReady(End, v)'
  <2>1. Select \in gone => Select \in lost'
    BY <1>4, <1>9, Names
  <2>2. Latest(queue, End, Select, v) => Select \in gone
    <3>1. \A j \in 1..Len(queue) : Sets(queue[j], Select) => Select \in gone
      BY <1>8, WhatIsSet
    <3> QED BY <1>7, <3>1, Zenon DEF Latest
  <2>3. Select \in Gone => Select \in lost'
    BY <1>4, <1>8, <2>1 DEF Gone
  <2>4. Select \in lost' \/ hw'.select = v
    BY <1>4, <1>9, <2>1, <2>2, <2>3, Zenon DEF SelectReady
  <2> QED BY <1>6, <2>4 DEF SelectReady, Gone
<1>10. ASSUME NEW a \in APs, NEW v, CswReady(End, a, v), ~(guarded /\ a = ap)
       PROVE  CswReady(End, a, v)'
  <2>1. CSW(a) \in gone => CSW(a) \in lost'
    <3>1. CSW(a) # Select /\ (CSW(a) = CSW(ap) <=> a = ap)
      BY Names
    <3> QED BY <1>4, <1>10, <3>1
  <2>2. Latest(queue, End, CSW(a), v) => CSW(a) \in gone
    <3>1. \A j \in 1..Len(queue) : Sets(queue[j], CSW(a)) => CSW(a) \in gone
      BY <1>8, WhatIsSet
    <3> QED BY <1>7, <3>1, Zenon DEF Latest
  <2>3. CSW(a) \in Gone => CSW(a) \in lost'
    BY <1>4, <1>8, <2>1 DEF Gone
  <2>4. CSW(a) \in lost' \/ hw'.csw[a] = v
    BY <1>4, <1>10, <2>1, <2>2, <2>3, Zenon DEF CswReady
  <2> QED BY <1>6, <2>4 DEF CswReady, Gone
<1>11. SelectKnown'
  BY <1>1, <1>4, <1>9 DEF SelectKnown
<1>12. CswKnown'
  <2> SUFFICES ASSUME NEW a \in APs, csw'[a] # Unset
               PROVE  CswReady(End, a, csw[a])'
    BY DEF CswKnown
  <2>1. ~(guarded /\ a = ap) /\ csw'[a] = csw[a]
    BY <1>4, <1>7
  <2>2. CswReady(End, a, csw[a])
    BY <1>1, <2>1 DEF CswKnown
  <2> QED BY <1>10, <2>1, <2>2
<1>13. QueueReady'
  <2>1. \A k \in 1..Len(queue') : Finds(k, queue[k])'
    BY <1>5, Zenon DEF Finds, IsAccess
  <2> QED BY <2>1 DEF QueueReady
<1>14. TodoReady' /\ AccessRight'
  BY <1>1, <1>4 DEF TodoReady, AccessRight
<1> QED BY <1>11, <1>12, <1>13, <1>14 DEF Copies

\* connect forgets the copy of SELECT and empties the queue.
LEMMA ConnectCopies ==
  ASSUME Control, Copies, Connect
  PROVE  Copies'
<1>1. Types /\ Shape /\ AccessRight /\ todo # << >> /\ Step1.reg = "connect"
  BY DEF Control, Copies, Connect, At, Step1
<1>2. /\ csw = [a \in APs |-> Unset]
      /\ \A k \in 1..Len(todo) : todo[k].reg # "drw"
  BY <1>1, NoTransfersInOpening
<1>3. /\ dpSelect' = Unknown /\ queue' = << >> /\ csw' = csw /\ todo' = Tail(todo)
      /\ wrong' = wrong
  BY DEF Connect, Return, history
<1>4. \A k \in 1..Len(todo') : todo'[k].reg # "drw"
  BY <1>1, <1>2, <1>3, RestOfCall
<1>5. SelectKnown' /\ CswKnown' /\ AccessRight'
  BY <1>1, <1>2, <1>3 DEF SelectKnown, CswKnown, AccessRight
<1>6. QueueReady'
  <2>1. 1..Len(queue') = {}
    BY <1>3
  <2> QED BY <2>1, Zenon DEF QueueReady
<1> QED BY <1>4, <1>5, <1>6, Zenon DEF Copies, TodoReady

\* A reset of the target changes CSW, which is unset in the APs the DebugPort
\* knows and lost in the others.
LEMMA ProbeCommandCopies ==
  ASSUME Control, Copies, ProbeCommand
  PROVE  Copies'
<1>1. Types /\ Shape /\ SelectKnown /\ CswKnown /\ AccessRight /\ TodoReady
  BY DEF Control, Copies
<1>2. /\ todo # << >> /\ Step1.reg \in {"clock", "reset", "close"} /\ todo' = Tail(todo)
      /\ queue = << >> /\ queue' = << >>
      /\ UNCHANGED <<dpSelect, csw, dropped, wrong>>
  BY DEF ProbeCommand, At, Step1, Return
<1>3. 1..Len(todo') = {}
  <2>1. Step1 = todo[1] /\ 1 \in 1..Len(todo) /\ Len(todo') = Len(todo) - 1
    BY <1>1, <1>2, RestOfCall
  <2>2. Len(todo) = 1
    BY <1>1, <1>2, <2>1 DEF Shape
  <2> QED BY <2>1, <2>2
<1>4. /\ hw'.select = hw.select /\ lost \subseteq lost'
      /\ \A a \in APs : csw[a] # Unset => CSW(a) \in lost' \/ hw'.csw[a] = hw.csw[a]
  <2>1. CASE At("reset")
    <3>1. PICK set \in SUBSET APs :
            /\ hw' = [hw EXCEPT !.csw = [b \in APs |-> IF b \in set THEN Unset ELSE hw.csw[b]]]
            /\ lost' = lost \cup {<<"csw", b>> : b \in set \ Registered}
      BY <2>1 DEF ProbeCommand
    <3>2. /\ hw'.select = hw.select
          /\ hw'.csw = [b \in APs |-> IF b \in set THEN Unset ELSE hw.csw[b]]
      BY <1>1, <3>1 DEF Types, HwType
    <3>3. ASSUME NEW a \in APs, csw[a] # Unset
          PROVE  CSW(a) \in lost' \/ hw'.csw[a] = hw.csw[a]
      <4>1. a \notin Registered
        BY <1>1, <2>1, <3>3 DEF Shape
      <4> QED BY <3>1, <3>2, <4>1 DEF CSW
    <3> QED BY <3>1, <3>2, <3>3
  <2>2. CASE ~At("reset")
    BY <2>2 DEF ProbeCommand
  <2> QED BY <2>1, <2>2
<1>5. \A r : Gone \subseteq Gone' /\ End' = End /\ Untouched(queue, End, r) = Untouched(queue', End', r)
                /\ \A v : ~Latest(queue, End, r, v)
  <2>1. Gone \subseteq Gone'
    BY <1>2, <1>4 DEF Gone
  <2>2. queue' = queue /\ End' = End /\ 1..End - 1 = {}
    BY <1>2 DEF End
  <2>3. \A r, v : ~Latest(queue, End, r, v)
    BY <2>2, Zenon DEF Latest
  <2> QED BY <2>1, <2>2, <2>3, Zenon
<1>6. SelectKnown'
  <2>1. ASSUME dpSelect # Unknown PROVE SelectReady(End, dpSelect)'
    <3>1. SelectReady(End, dpSelect)
      BY <1>1, <2>1 DEF SelectKnown
    <3> QED BY <1>2, <1>4, <1>5, <3>1 DEF SelectReady
  <2> QED BY <1>2, <2>1 DEF SelectKnown
<1>7. CswKnown'
  <2> SUFFICES ASSUME NEW a \in APs, csw[a] # Unset
               PROVE  CswReady(End, a, csw[a])'
    BY <1>2 DEF CswKnown
  <2>1. CswReady(End, a, csw[a])
    BY <1>1 DEF CswKnown
  <2>2. CSW(a) \in Gone' \/ (CSW(a) \notin Gone /\ hw'.csw[a] = hw.csw[a])
    BY <1>4, <1>5 DEF Gone
  <2> QED BY <1>2, <1>5, <2>1, <2>2 DEF CswReady
<1>8. QueueReady' /\ TodoReady'
  <2>1. 1..Len(queue') = {}
    BY <1>2
  <2> QED BY <1>3, <2>1, Zenon DEF QueueReady, TodoReady
<1> QED BY <1>1, <1>2, <1>6, <1>7, <1>8 DEF Copies, AccessRight

\* Another debugger writes the registers, or the target powers up.
LEMMA OutsideCopies ==
  ASSUME Control, Copies, ForeignAccess \/ PowersUp \/ InvalidateCache
  PROVE  Copies'
<1>1. Types /\ TodoReady
  BY DEF Control, Copies
<1>2. /\ UNCHANGED <<csw, queue, todo, dropped, wrong>>
      /\ dpSelect' \in {dpSelect, Unknown} /\ lost \subseteq lost'
      /\ Select \in lost' \/ hw'.select = hw.select
      /\ \A a \in APs : /\ CSW(a) \in lost' \/ hw'.csw[a] = hw.csw[a]
                        /\ TAR(a) \in lost' \/ hw'.tar[a] = hw.tar[a]
  <2>1. CASE ForeignAccess
    BY <2>1 DEF ForeignAccess, host, CSW, TAR
  <2>2. CASE PowersUp
    <3>1. hw' = [hw EXCEPT !.power = "on"] /\ hw \in HwType
      BY <1>1, <2>2 DEF PowersUp, Types
    <3>2. hw'.select = hw.select /\ hw'.csw = hw.csw /\ hw'.tar = hw.tar
      BY <3>1 DEF HwType
    <3> QED BY <2>2, <3>2 DEF PowersUp, host, history
  <2>3. CASE InvalidateCache
    BY <2>3 DEF InvalidateCache, target, history
  <2> QED BY <2>1, <2>2, <2>3
<1>3. /\ SelectKnown' /\ CswKnown' /\ QueueReady' /\ AccessRight'
      /\ \A a \in APs : \A v : TarReady(End, a, v) => TarReady(End, a, v)'
  <2>1. Gone \subseteq Gone' /\ lost' \subseteq Gone'
    BY <1>2 DEF Gone
  <2>2. /\ Select \in Gone' \/ hw'.select = hw.select
        /\ \A a \in APs : /\ CSW(a) \in Gone' \/ hw'.csw[a] = hw.csw[a]
                          /\ TAR(a) \in Gone' \/ hw'.tar[a] = hw.tar[a]
    BY <1>2, <2>1
  <2> QED BY <1>1, <1>2, <2>1, <2>2, KeptCopies
<1>4. TodoReady'
  BY <1>1, <1>2, <1>3, SameCall
<1> QED BY <1>3, <1>4 DEF Copies

\* A call begins.
LEMMA CallCopies ==
  ASSUME Types, Copies, SelfContained(todo'), queue' = queue, wrong' = wrong,
         dpSelect' \in {dpSelect, Unknown}, \A a \in APs : csw'[a] \in {csw[a], Unset},
         lost' = lost, dropped' = dropped, hw' = hw
  PROVE  Copies'
<1>1. SelectKnown' /\ CswKnown' /\ QueueReady' /\ AccessRight'
  BY KeptCopies DEF Gone
<1>2. TodoReady'
  BY Zenon DEF TodoReady, SelfContained, ReadyInCall
<1> QED BY <1>1, <1>2 DEF Copies

-----------------------------------------------------------------------------
(* Intervals in a row.                                                     *)

\* Bounds that never fall from one to the next are sorted.
LEMMA UpToSorted ==
  ASSUME NEW n \in Nat, NEW b \in [1..n + 1 -> Nat], \A i \in 1..n : b[i] <= b[i + 1]
  PROVE  \A i, j \in 1..n + 1 : i <= j => b[i] <= b[j]
<1> DEFINE S == {d \in Nat : \A i, j \in 1..n + 1 : j = i + d => b[i] <= b[j]}
<1>1. 0 \in S
  OBVIOUS
<1>2. ASSUME NEW d \in Nat, d \in S PROVE d + 1 \in S
  <2> SUFFICES ASSUME NEW i \in 1..n + 1, NEW j \in 1..n + 1, j = i + (d + 1)
               PROVE  b[i] <= b[j]
    OBVIOUS
  <2>1. /\ j - 1 \in 1..n + 1 /\ j - 1 \in 1..n /\ (j - 1) + 1 = j /\ j - 1 = i + d
    OBVIOUS
  <2>2. b[i] <= b[j - 1] /\ b[j - 1] <= b[j]
    BY <1>2, <2>1
  <2>3. b[i] \in Nat /\ b[j - 1] \in Nat /\ b[j] \in Nat
    BY <2>1
  <2> QED BY <2>2, <2>3
<1> HIDE DEF S
<1>3. \A d \in Nat : d \in S
  BY <1>1, <1>2, InductionInSet
<1> SUFFICES ASSUME NEW i \in 1..n + 1, NEW j \in 1..n + 1, i <= j
             PROVE  b[i] <= b[j]
  OBVIOUS
<1>4. j - i \in Nat /\ j = i + (j - i)
  OBVIOUS
<1> QED BY <1>3, <1>4 DEF S

\* Together they are one interval.
LEMMA IntervalsInARow ==
  ASSUME NEW n \in Nat \ {0}, NEW b \in [1..n + 1 -> Nat], \A i \in 1..n : b[i] <= b[i + 1]
  PROVE  UNION {b[i]..(b[i + 1] - 1) : i \in 1..n} = b[1]..(b[n + 1] - 1)
<1>1. \A i, j \in 1..n + 1 : i <= j => b[i] <= b[j]
  BY UpToSorted
<1>2. ASSUME NEW i \in 1..n, NEW x \in b[i]..(b[i + 1] - 1)
      PROVE  x \in b[1]..(b[n + 1] - 1)
  <2>1. 1 \in 1..n + 1 /\ i \in 1..n + 1 /\ i + 1 \in 1..n + 1 /\ n + 1 \in 1..n + 1
    OBVIOUS
  <2>2. b[1] <= b[i] /\ b[i + 1] <= b[n + 1]
    BY <1>1, <2>1
  <2>3. b[1] \in Nat /\ b[i] \in Nat /\ b[i + 1] \in Nat /\ b[n + 1] \in Nat
    BY <2>1
  <2> QED BY <2>2, <2>3
<1>3. ASSUME NEW x \in b[1]..(b[n + 1] - 1)
      PROVE  \E i \in 1..n : x \in b[i]..(b[i + 1] - 1)
  <2> DEFINE S == {m \in Nat : m <= n => x >= b[m + 1] \/ \E i \in 1..n : x \in b[i]..(b[i + 1] - 1)}
  <2>0. b[1] \in Nat /\ b[n + 1] \in Nat /\ x \in Int
    OBVIOUS
  <2>1. 0 \in S
    BY <2>0
  <2>2. ASSUME NEW m \in Nat, m \in S PROVE m + 1 \in S
    <3> SUFFICES ASSUME m + 1 <= n, x >= b[m + 1], ~(x >= b[(m + 1) + 1])
                 PROVE  \E i \in 1..n : x \in b[i]..(b[i + 1] - 1)
      BY <2>2
    <3>1. m + 1 \in 1..n /\ m + 1 \in 1..n + 1 /\ (m + 1) + 1 \in 1..n + 1
      OBVIOUS
    <3>2. b[m + 1] \in Nat /\ b[(m + 1) + 1] \in Nat
      BY <3>1
    <3>3. x \in b[m + 1]..(b[(m + 1) + 1] - 1)
      BY <2>0, <3>2
    <3> QED BY <3>1, <3>3
  <2> HIDE DEF S
  <2>3. n \in S
    BY <2>1, <2>2, InductionInSet
  <2>4. ~(x >= b[n + 1])
    BY <2>0
  <2> QED BY <2>3, <2>4 DEF S
<1> QED BY <1>2, <1>3

-----------------------------------------------------------------------------
(* The steps of a transfer.                                                *)

\* The lists a read or a write of the memory of an AP is made of: every access
\* to DRW finds the size and the address the list has set, and what reads is
\* waited for.
CallStep(e, ap, write) ==
  /\ e.reg \in {"csw", "tar", "drw", "await"}
  /\ e.reg = "drw" => e.ap = ap /\ e.write = write
Parts(ap, write) ==
  {s \in Seq(Accesses) : /\ s # << >> /\ SelfContained(s)
                         /\ \A e \in Range(s) : CallStep(e, ap, write)}
Lists(ap, write) == {s \in Parts(ap, write) : write \/ s[Len(s)].reg = "await"}

\* The bytes a list transfers, and pairs of accesses that transfer them upwards.
Bytes(steps) == UNION {RangeOf(e) : e \in Range(steps)}
Upwards ==
  {p \in Accesses \X Accesses :
     p[1].reg = "drw" /\ p[2].reg = "drw" => p[1].addr + p[1].size <= p[2].addr}

\* A list that transfers the bytes from low to before high.
IsList(steps, ap, write, low, high) ==
  steps \in Lists(ap, write) /\ Bytes(steps) = low..(high - 1) /\ InRelation(steps, Upwards)

\* What holds at a place of a list holds when other steps go before it.
LEMMA LatestBehind ==
  ASSUME NEW S, NEW s \in Seq(S), NEW t \in Seq(S), NEW k \in 1..Len(t), NEW r, NEW v,
         Latest(t, k, r, v)
  PROVE  Latest(s \o t, Len(s) + k, r, v)
<1> DEFINE n == Len(s)
           u == s \o t
<1>1. n \in Nat /\ Len(t) \in Nat /\ \A i \in 1..Len(t) : u[n + i] = t[i]
  OBVIOUS
<1>2. PICK j \in 1..k - 1 : /\ Sets(t[j], r) /\ Value(t[j]) = v
                            /\ \A i \in j + 1..k - 1 : ~Sets(t[i], r)
  BY Zenon DEF Latest
<1> HIDE DEF n, u
<1>3. n + j \in 1..(n + k) - 1 /\ j \in 1..Len(t) /\ u[n + j] = t[j]
  BY <1>1
<1>4. ASSUME NEW i \in (n + j) + 1..(n + k) - 1
      PROVE  ~Sets(u[i], r)
  <2>1. i - n \in j + 1..k - 1 /\ i - n \in 1..Len(t) /\ n + (i - n) = i
    BY <1>1
  <2>2. u[i] = t[i - n]
    BY <1>1, <2>1
  <2> QED BY <1>2, <2>1, <2>2
<1>5. Latest(u, n + k, r, v)
  BY <1>2, <1>3, <1>4, Zenon DEF Latest
<1> QED BY <1>5 DEF n, u

\* One such list after the other is one.
LEMMA ListsConcat ==
  ASSUME NEW ap \in APs, NEW write \in BOOLEAN, NEW s \in Lists(ap, write), NEW t \in Lists(ap, write)
  PROVE  s \o t \in Lists(ap, write)
<1> DEFINE u == s \o t
<1>1. /\ s \in Seq(Accesses) /\ s # << >> /\ SelfContained(s)
      /\ \A e \in Range(s) : CallStep(e, ap, write)
      /\ t \in Seq(Accesses) /\ t # << >> /\ SelfContained(t)
      /\ \A e \in Range(t) : CallStep(e, ap, write)
      /\ write \/ t[Len(t)].reg = "await"
  BY DEF Lists, Parts
<1>2. /\ u \in Seq(Accesses) /\ Len(s) \in Nat /\ Len(t) \in Nat /\ Len(u) = Len(s) + Len(t)
      /\ Len(t) # 0
      /\ \A i \in 1..Len(s) : u[i] = s[i]
      /\ \A i \in 1..Len(t) : u[Len(s) + i] = t[i]
  BY <1>1
<1>3. u # << >> /\ (write \/ u[Len(u)].reg = "await")
  <2>1. Len(t) \in 1..Len(t)
    BY <1>2
  <2>2. u[Len(u)] = t[Len(t)]
    BY <1>2, <2>1
  <2> QED BY <1>1, <1>2, <2>2
<1>4. \A e \in Range(u) : CallStep(e, ap, write)
  BY <1>1, RangeOfConcat
<1>5. SelfContained(u)
  <2> SUFFICES ASSUME NEW k \in 1..Len(u), NEW e, e = u[k], e.reg = "drw"
               PROVE  Latest(u, k, CSW(e.ap), e.size) /\ Latest(u, k, TAR(e.ap), e.addr)
    BY Zenon DEF SelfContained
  <2>1. CASE k \in 1..Len(s)
    <3>1. e = s[k]
      BY <1>2, <2>1
    <3>2. Latest(s, k, CSW(e.ap), e.size) /\ Latest(s, k, TAR(e.ap), e.addr)
      BY <1>1, <2>1, <3>1, Zenon DEF SelfContained
    <3>3. k \in Nat /\ \A i \in 1..k - 1 : u[i] = s[i]
      BY <1>2, <2>1
    <3> HIDE DEF u
    <3> QED BY <3>2, <3>3, LatestInFront
  <2>2. CASE k \notin 1..Len(s)
    <3>1. \E i \in 1..Len(t) : k = Len(s) + i
      <4>1. k - Len(s) \in 1..Len(t) /\ k = Len(s) + (k - Len(s))
        BY <1>2, <2>2
      <4> QED BY <4>1
    <3>2. PICK i \in 1..Len(t) : k = Len(s) + i
      BY <3>1
    <3>3. e = t[i]
      BY <1>2, <3>2
    <3>4. Latest(t, i, CSW(e.ap), e.size) /\ Latest(t, i, TAR(e.ap), e.addr)
      BY <1>1, <3>3, Zenon DEF SelfContained
    <3>5. Latest(u, Len(s) + i, CSW(e.ap), e.size) /\ Latest(u, Len(s) + i, TAR(e.ap), e.addr)
      BY <1>1, <3>4, LatestBehind
    <3> QED BY <3>2, <3>5
  <2> QED BY <2>1, <2>2
<1> QED BY <1>2, <1>3, <1>4, <1>5 DEF Lists, Parts

\* What is before an element that was added.
LEMMA FrontOfOneMore ==
  ASSUME NEW S, NEW s \in Seq(S), NEW x \in S
  PROVE  Front(s \o <<x>>) = s
<1>1. /\ s \o <<x>> \in Seq(S) /\ Len(s \o <<x>>) = Len(s) + 1 /\ Len(s) \in Nat
      /\ \A i \in 1..Len(s) : (s \o <<x>>)[i] = s[i]
  BY OneMore
<1>2. PICK u : u = s \o <<x>>
  OBVIOUS
<1>3. /\ u \in Seq(S) /\ Len(u) = Len(s) + 1 /\ Len(s) \in 0..Len(u)
      /\ \A i \in 1..Len(s) : u[i] = s[i]
  BY <1>1, <1>2
<1>4. /\ SubSeq(u, 1, Len(s)) \in Seq(S) /\ Len(SubSeq(u, 1, Len(s))) = Len(s)
      /\ \A i \in 1..Len(s) : SubSeq(u, 1, Len(s))[i] = s[i]
  BY <1>3, TakeFirst
<1>5. SubSeq(u, 1, Len(s)) = s
  BY <1>4
<1>6. Front(u) = s
  BY <1>1, <1>3, <1>5 DEF Front
<1> QED BY <1>2, <1>6

\* A sequence whose elements are all of a set.
LEMMA OfOtherSet ==
  ASSUME NEW S, NEW T, NEW s \in Seq(S), \A i \in 1..Len(s) : s[i] \in T
  PROVE  s \in Seq(T)
OBVIOUS

\* A transfer ends after it began.
LEMMA TransferSize ==
  ASSUME NEW e \in Accesses, e.reg = "drw"
  PROVE  /\ e.addr \in Nat /\ e.size \in {1, 2, 4} /\ RangeOf(e) = e.addr..(e.addr + e.size - 1)
         /\ e.addr \in RangeOf(e) /\ e.addr + e.size - 1 \in RangeOf(e)
<1>1. /\ e.addr \in Nat /\ e.size \in {1, 2, 4}
  BY AccessHasType DEF WellFormed, Sizes
<1> QED BY <1>1 DEF RangeOf

\* Lists of consecutive parts of the memory, one after the other.
ListsOfParts(seqs, n, b, ap, write) ==
  /\ ap \in APs /\ write \in BOOLEAN /\ n \in Nat \ {0}
  /\ seqs \in Seq(Lists(ap, write)) /\ Len(seqs) = n
  /\ b \in [1..n + 1 -> Nat] /\ \A i \in 1..n : b[i] <= b[i + 1]
  /\ \A i \in 1..n : /\ Bytes(seqs[i]) = b[i]..(b[i + 1] - 1)
                     /\ InRelation(seqs[i], Upwards)
ListOfAll(seqs, n, b, ap, write) ==
  /\ FlattenSeq(seqs) \in Lists(ap, write)
  /\ Bytes(FlattenSeq(seqs)) = b[1]..(b[n + 1] - 1)
  /\ InRelation(FlattenSeq(seqs), Upwards)

\* Lists that transfer one after the other, each behind the one before, as one.
LEMMA ListsInARow ==
  ASSUME NEW ap, NEW write, NEW n, NEW seqs, NEW b, ListsOfParts(seqs, n, b, ap, write)
  PROVE  ListOfAll(seqs, n, b, ap, write)
<1> SUFFICES ASSUME ap \in APs, write \in BOOLEAN, n \in Nat \ {0},
                    seqs \in Seq(Lists(ap, write)), Len(seqs) = n,
                    b \in [1..n + 1 -> Nat], \A i \in 1..n : b[i] <= b[i + 1],
                    \A i \in 1..n : /\ Bytes(seqs[i]) = b[i]..(b[i + 1] - 1)
                                    /\ InRelation(seqs[i], Upwards)
             PROVE  /\ FlattenSeq(seqs) \in Lists(ap, write)
                    /\ Bytes(FlattenSeq(seqs)) = b[1]..(b[n + 1] - 1)
                    /\ InRelation(FlattenSeq(seqs), Upwards)
  BY Zenon DEF ListsOfParts, ListOfAll
<1> DEFINE W == Lists(ap, write)
<1>1. \A s \in W : s \in Seq(Accesses)
  BY DEF Lists, Parts
<1> HIDE DEF W
<1>10. seqs \in Seq(W) /\ Len(seqs) = n
  BY DEF W
<1>2. \A i \in 1..n : seqs[i] \in W
  BY <1>10
<1>11. seqs \in Seq(Seq(Accesses)) /\ seqs[1] \in W /\ seqs # << >>
  <2>1. \A i \in 1..n : seqs[i] \in Seq(Accesses)
    BY <1>1, <1>2
  <2>2. seqs \in Seq(Seq(Accesses))
    BY <1>10, <2>1, OfOtherSet
  <2>3. 1 \in 1..n
    OBVIOUS
  <2>4. seqs # << >>
    BY <1>10, DifferentLengths
  <2> QED BY <1>2, <2>2, <2>3, <2>4
<1>3. FlattenSeq(seqs) \in W
  <2>1. \A u \in W : \A i \in 2..Len(seqs) : u \o seqs[i] \in W
    BY <1>10, ListsConcat DEF W
  <2> QED BY <1>10, <1>11, <2>1, FlattenIn
<1>4. \A i, j \in 1..n + 1 : i <= j => b[i] <= b[j]
  BY UpToSorted
<1>5. ASSUME NEW i \in 1..n, NEW j \in 1..n, i < j, NEW x \in Range(seqs[i]), NEW y \in Range(seqs[j])
      PROVE  <<x, y>> \in Upwards
  <2>1. x \in Accesses /\ y \in Accesses
    <3>1. seqs[i] \in Seq(Accesses) /\ seqs[j] \in Seq(Accesses)
      BY <1>1, <1>2
    <3> QED BY <3>1, RangeWithin
  <2>2. ASSUME x.reg = "drw", y.reg = "drw"
        PROVE  x.addr + x.size <= y.addr
    <3>1. /\ x.addr \in Nat /\ x.size \in {1, 2, 4} /\ y.addr \in Nat
          /\ x.addr + x.size - 1 \in RangeOf(x) /\ y.addr \in RangeOf(y)
      BY <2>1, <2>2, TransferSize
    <3>2. x.addr + x.size - 1 \in b[i]..(b[i + 1] - 1) /\ y.addr \in b[j]..(b[j + 1] - 1)
      <4>1. x.addr + x.size - 1 \in Bytes(seqs[i]) /\ y.addr \in Bytes(seqs[j])
        BY <3>1, Zenon DEF Bytes
      <4>2. Bytes(seqs[i]) = b[i]..(b[i + 1] - 1) /\ Bytes(seqs[j]) = b[j]..(b[j + 1] - 1)
        OBVIOUS
      <4> QED BY <4>1, <4>2, Zenon
    <3>3. i + 1 \in 1..n + 1 /\ j \in 1..n + 1 /\ j + 1 \in 1..n + 1 /\ i + 1 <= j /\ i \in 1..n + 1
      BY <1>5
    <3>4. b[i] \in Nat /\ b[i + 1] \in Nat /\ b[j] \in Nat /\ b[j + 1] \in Nat /\ b[i + 1] <= b[j]
      BY <1>4, <3>3
    <3>5. PICK p \in Nat, q \in Nat, r \in Nat : p = b[i + 1] /\ q = b[j] /\ r = b[i]
      BY <3>4
    <3>6. x.addr + x.size - 1 <= p - 1
      BY ONLY <3>1, <3>2, <3>5
    <3>7. y.addr >= q
      BY ONLY <3>1, <3>2, <3>4, <3>5
    <3>8. p <= q
      BY <3>4, <3>5
    <3>9. PICK a \in Nat, s \in Nat, c \in Nat : a = x.addr /\ s = x.size /\ c = y.addr
      BY <3>1
    <3>10. a + s - 1 <= p - 1 /\ c >= q
      BY <3>6, <3>7, <3>9, Zenon
    <3>11. a + s <= c
      BY ONLY <3>8, <3>10, a \in Nat, s \in Nat, c \in Nat, p \in Nat, q \in Nat
    <3> QED BY <3>9, <3>11, Zenon
  <2> QED BY <2>1, <2>2 DEF Upwards
<1>6. /\ Range(FlattenSeq(seqs)) = UNION {Range(seqs[i]) : i \in 1..n}
      /\ InRelation(FlattenSeq(seqs), Upwards)
  <2>1. \A i, j \in 1..Len(seqs) :
          i < j => \A x \in Range(seqs[i]), y \in Range(seqs[j]) : <<x, y>> \in Upwards
    BY <1>5, <1>10, Zenon
  <2>2. \A i \in 1..Len(seqs) : InRelation(seqs[i], Upwards)
    BY <1>10, Zenon
  <2>3. Len(seqs) = n
    BY <1>10
  <2> HIDE <1>10
  <2> QED BY <1>11, <2>1, <2>2, <2>3, FlattenRelated
<1>7. Bytes(FlattenSeq(seqs)) = UNION {Bytes(seqs[i]) : i \in 1..n}
  BY <1>6 DEF Bytes
<1>8. UNION {Bytes(seqs[i]) : i \in 1..n} = UNION {b[i]..(b[i + 1] - 1) : i \in 1..n}
  OBVIOUS
<1>9. UNION {b[i]..(b[i + 1] - 1) : i \in 1..n} = b[1]..(b[n + 1] - 1)
  BY IntervalsInARow
<1> QED BY <1>3, <1>6, <1>7, <1>8, <1>9 DEF W

AreLists(seqs, n, b, ap, write, low, high) ==
  /\ n \in Nat \ {0} /\ seqs \in Seq(Seq(Accesses)) /\ Len(seqs) = n
  /\ b \in [1..n + 1 -> Nat] /\ low = b[1] /\ high = b[n + 1]
  /\ \A i \in 1..n : b[i] <= b[i + 1] /\ IsList(seqs[i], ap, write, b[i], b[i + 1])

\* The same for the sequences the model concatenates.
LEMMA FlattenedLists ==
  ASSUME NEW ap \in APs, NEW write \in BOOLEAN, NEW seqs, NEW n, NEW b, NEW low, NEW high,
         AreLists(seqs, n, b, ap, write, low, high)
  PROVE  IsList(FlattenSeq(seqs), ap, write, low, high)
<1>1. /\ n \in Nat \ {0} /\ seqs \in Seq(Seq(Accesses)) /\ Len(seqs) = n
      /\ b \in [1..n + 1 -> Nat] /\ low = b[1] /\ high = b[n + 1]
      /\ \A i \in 1..n : b[i] <= b[i + 1]
  BY Zenon DEF AreLists
<1>2. \A i \in 1..n : /\ seqs[i] \in Lists(ap, write) /\ Bytes(seqs[i]) = b[i]..(b[i + 1] - 1)
                      /\ InRelation(seqs[i], Upwards)
  BY Zenon DEF AreLists, IsList
<1>3. seqs \in Seq(Lists(ap, write))
  <2>1. \A i \in 1..Len(seqs) : seqs[i] \in Lists(ap, write)
    BY <1>1, <1>2, Zenon
  <2>2. PICK L : L = Lists(ap, write)
    OBVIOUS
  <2>3. seqs \in Seq(Seq(Accesses)) /\ \A i \in 1..Len(seqs) : seqs[i] \in L
    BY <1>1, <2>1, <2>2, Zenon
  <2>4. seqs \in Seq(L)
    BY ONLY <2>3, OfOtherSet
  <2> QED BY <2>2, <2>4, Zenon
<1>4. /\ FlattenSeq(seqs) \in Lists(ap, write)
      /\ Bytes(FlattenSeq(seqs)) = b[1]..(b[n + 1] - 1)
      /\ InRelation(FlattenSeq(seqs), Upwards)
  <2>1. ListsOfParts(seqs, n, b, ap, write)
    BY <1>1, <1>2, <1>3, Zenon DEF ListsOfParts
  <2>2. ListOfAll(seqs, n, b, ap, write)
    BY ONLY <2>1, ListsInARow
  <2> QED BY <2>2, Zenon DEF ListOfAll
<1>5. b[1]..(b[n + 1] - 1) = low..(high - 1)
  <2>1. b[n + 1] \in Nat
    BY <1>1
  <2> QED BY ONLY <1>1, <2>1
<1> QED BY ONLY <1>4, <1>5, Zenon DEF IsList

\* Accesses that transfer nothing are added to a list.
LEMMA SameBytes ==
  ASSUME NEW s, NEW u, NEW set, Range(u) = Range(s) \cup set, \A e \in set : RangeOf(e) = {}
  PROVE  Bytes(u) = Bytes(s)
<1>1. \A x : x \in Bytes(u) => x \in Bytes(s)
  BY Zenon DEF Bytes
<1>2. \A x : x \in Bytes(s) => x \in Bytes(u)
  BY Zenon DEF Bytes
<1> QED BY <1>1, <1>2

\* Within a page TAR is incremented to the next address.
LEMMA IncrementedInPage ==
  ASSUME NEW q \in Nat, NEW a \in Nat, NEW size \in {1, 2, 4},
         Page * q <= a, a + size < Page * q + Page
  PROVE  Incremented(a, size) = a + size
<1>1. Page \in Nat /\ Page # 0 /\ Page * q \in Nat
  <2>1. Page \in Nat /\ Page # 0
    BY AccessPortAssumption
  <2> QED BY <2>1
<1>2. PICK m \in Nat : m = Page * q
  BY <1>1
<1>3. a - m \in 0..Page - 1 /\ (a - m) + size \in 0..Page - 1
      /\ a = m + (a - m) /\ a + size = m + ((a - m) + size)
  BY <1>1, <1>2
<1>4. PICK r \in 0..Page - 1 : r = a - m
  BY <1>3
<1>5. r + size \in 0..Page - 1 /\ a = Page * q + r /\ a + size = Page * q + (r + size)
  BY <1>2, <1>3, <1>4
<1>6. a \div Page = q /\ (a + size) % Page = r + size
  <2>1. \A x \in 0..Page - 1 : (Page * q + x) \div Page = q /\ (Page * q + x) % Page = x
    BY <1>1, DivisionOf
  <2>2. PICK x \in 0..Page - 1 : x = r + size
    BY <1>5
  <2>3. a = Page * q + r /\ a + size = Page * q + x
    BY <1>5, <2>2
  <2> QED BY <2>1, <2>2, <2>3, Zenon
<1>7. size # Unset
  BY DEF Unset
<1> QED BY <1>5, <1>6, <1>7 DEF Incremented

\* A write of CSW and one of TAR, and the transfers they are for.
SetUp(c, t, ap, addr, size) ==
  /\ ap \in APs /\ size \in Sizes
  /\ c \in Accesses /\ c.reg = "csw" /\ c.ap = ap /\ c.size = size
  /\ t \in Accesses /\ t.reg = "tar" /\ t.ap = ap /\ t.addr = addr
Transfers(d, ap, write, addr, size) ==
  /\ write \in BOOLEAN
  /\ d \in Seq(Accesses) /\ d # << >> /\ d[1].addr = addr
  /\ \A k \in 1..Len(d) : /\ d[k].reg = "drw" /\ d[k].ap = ap
                          /\ d[k].write = write /\ d[k].size = size
  /\ \A k \in 1..Len(d) - 1 : Value(d[k]) = d[k + 1].addr
  /\ InRelation(d, Upwards)

\* CSW, TAR and the transfers they are for make a part of a call.
LEMMA PartIs ==
  ASSUME NEW ap, NEW write, NEW addr, NEW size, NEW c, NEW t, NEW d,
         SetUp(c, t, ap, addr, size), Transfers(d, ap, write, addr, size)
  PROVE  /\ <<c, t>> \o d \in Parts(ap, write) /\ Bytes(<<c, t>> \o d) = Bytes(d)
         /\ InRelation(<<c, t>> \o d, Upwards) /\ Len(<<c, t>> \o d) = Len(d) + 2
<1> SUFFICES ASSUME ap \in APs, size \in Sizes, write \in BOOLEAN,
                    c \in Accesses, c.reg = "csw", c.ap = ap, c.size = size,
                    t \in Accesses, t.reg = "tar", t.ap = ap, t.addr = d[1].addr,
                    d \in Seq(Accesses), d # << >>,
                    \A k \in 1..Len(d) : /\ d[k].reg = "drw" /\ d[k].ap = ap
                                         /\ d[k].write = write /\ d[k].size = size,
                    \A k \in 1..Len(d) - 1 : Value(d[k]) = d[k + 1].addr,
                    InRelation(d, Upwards),
                    NEW s, s = <<c, t>> \o d
             PROVE  /\ s \in Parts(ap, write) /\ Bytes(s) = Bytes(d) /\ InRelation(s, Upwards)
                    /\ Len(s) = Len(d) + 2
  BY Zenon DEF SetUp, Transfers
<1>1. /\ s \in Seq(Accesses) /\ Len(d) \in Nat /\ Len(d) # 0 /\ Len(s) = Len(d) + 2
      /\ s[1] = c /\ s[2] = t
      /\ \A k \in 1..Len(d) : s[k + 2] = d[k] /\ d[k] \in Accesses
  OBVIOUS
<1>9. PICK p : p = <<c, t>>
  OBVIOUS
<1>2. /\ p \in Seq(Accesses) /\ DOMAIN p = 1..2 /\ p[1] = c /\ p[2] = t /\ s = p \o d
      /\ Range(p) = {c, t}
  <2>1. p \in Seq(Accesses) /\ DOMAIN p = 1..2 /\ p[1] = c /\ p[2] = t /\ s = p \o d
    BY <1>9
  <2> HIDE <1>9
  <2>2. 1..2 = {1, 2}
    OBVIOUS
  <2>3. Range(p) = {c, t}
    BY <2>1, <2>2 DEF Range
  <2> QED BY <2>1, <2>3
<1> HIDE <1>9
<1>3. Range(s) = {c, t} \cup Range(d)
  <2>1. Range(p \o d) = Range(p) \cup Range(d)
    BY <1>2, RangeOfConcat
  <2> QED BY <1>2, <2>1, Zenon
<1>4. \A e \in Range(s) : CallStep(e, ap, write)
  <2>1. \A e \in Range(d) : CallStep(e, ap, write)
    BY DEF Range, CallStep
  <2> QED BY <1>3, <2>1 DEF CallStep
<1>5. Bytes(s) = Bytes(d)
  <2>1. \A e \in {c, t} : RangeOf(e) = {}
    BY DEF RangeOf
  <2>2. Range(s) = Range(d) \cup {c, t}
    BY <1>3
  <2> QED BY <2>1, <2>2, SameBytes
<1>6. InRelation(s, Upwards)
  <2>1. InRelation(p, Upwards)
    <3>1. <<c, t>> \in Upwards
      BY DEF Upwards
    <3>2. \A i, j \in 1..2 : i < j => i = 1 /\ j = 2
      OBVIOUS
    <3> QED BY <1>2, <3>1, <3>2, Zenon DEF InRelation
  <2>2. \A x \in Range(p), y \in Range(d) : <<x, y>> \in Upwards
    <3>1. \A x \in {c, t} : x \in Accesses /\ x.reg # "drw"
      OBVIOUS
    <3>2. \A y \in Range(d) : y \in Accesses
      BY RangeWithin
    <3> QED BY <1>2, <3>1, <3>2 DEF Upwards
  <2>3. InRelation(p \o d, Upwards)
    BY <1>2, <2>1, <2>2, ConcatRelated
  <2> QED BY <1>2, <2>3, Zenon
<1>7. SelfContained(s)
  <2> SUFFICES ASSUME NEW k \in 1..Len(s), NEW e, e = s[k], e.reg = "drw"
               PROVE  Latest(s, k, CSW(e.ap), e.size) /\ Latest(s, k, TAR(e.ap), e.addr)
    BY Zenon DEF SelfContained
  <2>1. k # 1 /\ k # 2
    BY <1>1
  <2>2. k - 2 \in 1..Len(d) /\ (k - 2) + 2 = k /\ k \in Nat
    BY <1>1, <2>1
  <2>3. e = d[k - 2] /\ e.ap = ap /\ e.size = size
    BY <1>1, <2>2
  <2>4. \A i \in 3..k - 1 : s[i].reg = "drw" /\ s[i].ap = ap
    <3>1. \A i \in 3..k - 1 : i - 2 \in 1..Len(d) /\ (i - 2) + 2 = i
      BY <2>2
    <3> QED BY <1>1, <3>1
  <2>5. Latest(s, k, CSW(e.ap), e.size)
    <3>1. 1 \in 1..k - 1 /\ 1 + 1 = 2
      BY <2>2
    <3>2. Sets(s[1], CSW(ap)) /\ Value(s[1]) = size
      BY <1>1, WhatIsSet DEF Value
    <3>3. \A i \in 2..k - 1 : i = 2 \/ i \in 3..k - 1
      BY <2>2
    <3>4. \A i \in 2..k - 1 : ~Sets(s[i], CSW(ap))
      BY <1>1, <2>4, <3>3, WhatIsSet
    <3> QED BY <2>3, <3>1, <3>2, <3>4, Zenon DEF Latest
  <2>6. Latest(s, k, TAR(e.ap), e.addr)
    <3>1. k - 1 \in 1..k - 1 /\ (k - 1) + 1..k - 1 = {}
      BY <2>2
    <3>2. Sets(s[k - 1], TAR(ap)) /\ Value(s[k - 1]) = e.addr
      <4>1. CASE k = 3
        <5>1. s[k - 1] = t /\ e.addr = t.addr
          BY <1>1, <2>2, <2>3, <4>1
        <5> QED BY <5>1, WhatIsSet DEF Value
      <4>2. CASE k # 3
        <5>1. k - 3 \in 1..Len(d) - 1 /\ (k - 3) + 1 = k - 2 /\ (k - 3) + 2 = k - 1
              /\ k - 3 \in 1..Len(d)
          BY <2>1, <2>2, <4>2
        <5>2. s[k - 1] = d[k - 3] /\ Value(d[k - 3]) = e.addr
          BY <1>1, <2>3, <5>1
        <5> QED BY <5>1, <5>2, WhatIsSet
      <4> QED BY <4>1, <4>2
    <3> QED BY <2>3, <3>1, <3>2, Zenon DEF Latest
  <2> QED BY <2>5, <2>6
<1>8. s # << >>
  BY <1>1
<1> QED BY <1>1, <1>4, <1>5, <1>6, <1>7, <1>8 DEF Parts

\* A read waits for what it reads.
Completing(u, s, ap, write) == (write => u = s) /\ (~write => u = s \o <<Await(ap, TRUE)>>)

\* A part of a call becomes a call: a read waits for its last transfer.
LEMMA PartWithAwait ==
  ASSUME NEW ap \in APs, NEW write \in BOOLEAN, NEW s \in Parts(ap, write),
         InRelation(s, Upwards), NEW u, Completing(u, s, ap, write)
  PROVE  u \in Lists(ap, write) /\ Bytes(u) = Bytes(s) /\ InRelation(u, Upwards)
<1> SUFFICES ASSUME write => u = s, ~write => u = s \o <<Await(ap, TRUE)>>
             PROVE  u \in Lists(ap, write) /\ Bytes(u) = Bytes(s) /\ InRelation(u, Upwards)
  BY Zenon DEF Completing
<1>1. /\ s \in Seq(Accesses) /\ s # << >> /\ SelfContained(s)
      /\ \A e \in Range(s) : CallStep(e, ap, write)
  BY DEF Parts
<1>2. CASE write
  <2>1. u = s
    BY <1>1, <1>2
  <2> QED BY <1>2, <2>1 DEF Lists
<1>3. CASE ~write
  <2>1. PICK w : w = Await(ap, TRUE)
    OBVIOUS
  <2>2. w \in Accesses /\ w.reg = "await"
    BY <2>1, SimpleSteps
  <2>3. PICK l : l = <<w>>
    OBVIOUS
  <2>4. /\ l \in Seq(Accesses) /\ l[1] = w /\ DOMAIN l = {1}
        /\ u = s \o l /\ u = s \o <<w>>
    <3>1. u = s \o l
      BY <1>3, <2>1, <2>3
    <3>2. l \in Seq(Accesses) /\ l[1] = w /\ DOMAIN l = {1}
      BY <2>2, <2>3
    <3> QED BY <2>3, <3>1, <3>2
  <2> HIDE <2>3
  <2>5. /\ u \in Seq(Accesses) /\ Len(u) = Len(s) + 1 /\ Len(s) \in Nat
        /\ u[Len(u)] = w /\ \A i \in 1..Len(s) : u[i] = s[i]
    <3>1. /\ s \o <<w>> \in Seq(Accesses) /\ Len(s \o <<w>>) = Len(s) + 1
          /\ (s \o <<w>>)[Len(s) + 1] = w
          /\ \A i \in 1..Len(s) : (s \o <<w>>)[i] = s[i]
      BY <1>1, <2>2, OneMore
    <3>2. u = s \o <<w>> /\ Len(s) \in Nat
      BY <1>1, <2>4
    <3> QED BY <3>1, <3>2, Zenon
  <2>11. u # << >>
    <3>1. \A n \in Nat : n + 1 # 0
      OBVIOUS
    <3>2. Len(u) # 0
      BY <2>5, <3>1, Zenon
    <3> QED BY <3>2, NotEmpty, Zenon
  <2>6. Range(l) = {w} /\ Range(u) = Range(s) \cup {w}
    <3>1. Range(l) = {w}
      BY <2>4 DEF Range
    <3>2. Range(s \o l) = Range(s) \cup Range(l)
      BY <1>1, <2>4, RangeOfConcat
    <3> QED BY <2>4, <3>1, <3>2
  <2>7. \A e \in Range(u) : CallStep(e, ap, write)
    BY <1>1, <2>2, <2>6 DEF CallStep
  <2>8. Bytes(u) = Bytes(s)
    <3>1. RangeOf(w) = {}
      BY <2>2 DEF RangeOf
    <3>2. \A e \in {w} : RangeOf(e) = {}
      BY <3>1
    <3> QED BY <2>6, <3>2, SameBytes
  <2>9. InRelation(u, Upwards)
    <3>1. InRelation(l, Upwards)
      BY <2>4 DEF InRelation
    <3>2. \A x \in Range(s), y \in Range(l) : <<x, y>> \in Upwards
      <4>1. \A x \in Range(s) : x \in Accesses
        BY <1>1, RangeWithin
      <4> QED BY <2>2, <2>6, <4>1 DEF Upwards
    <3>3. InRelation(s \o l, Upwards)
      BY <1>1, <2>4, <3>1, <3>2, ConcatRelated
    <3> QED BY <2>4, <3>3, Zenon
  <2>10. SelfContained(u)
    <3> SUFFICES ASSUME NEW k \in 1..Len(u), NEW e, e = u[k], e.reg = "drw"
                 PROVE  Latest(u, k, CSW(e.ap), e.size) /\ Latest(u, k, TAR(e.ap), e.addr)
      BY Zenon DEF SelfContained
    <3>1. k \in 1..Len(s) /\ e = s[k] /\ k \in Nat /\ \A i \in 1..k - 1 : u[i] = s[i]
      <4>1. k # Len(u)
        BY <2>2, <2>5
      <4>2. k \in 1..Len(s)
        BY <2>5, <4>1
      <4> QED BY <2>5, <4>2
    <3>2. Latest(s, k, CSW(e.ap), e.size) /\ Latest(s, k, TAR(e.ap), e.addr)
      BY <1>1, <3>1, Zenon DEF SelfContained
    <3> QED BY <3>1, <3>2, LatestInFront
  <2> QED BY <2>2, <2>5, <2>7, <2>8, <2>9, <2>10, <2>11 DEF Lists, Parts
<1> QED BY <1>2, <1>3

\* CSW and TAR are set before the transfers they are for.
LEMMA CswAndTar ==
  ASSUME NEW ap \in APs, NEW addr \in Nat, NEW size \in Widths
  PROVE  /\ SetUp(Step("csw", ap, 0, size, TRUE, TRUE), Step("tar", ap, addr, 0, TRUE, TRUE),
                  ap, addr, size)
         /\ SetUp(Step("csw", ap, 0, size, TRUE, TRUE), Step("tar", ap, addr, 0, TRUE, FALSE),
                  ap, addr, size)
<1>1. /\ "csw" \in Registers /\ "tar" \in Registers /\ size \in Sizes /\ 0 \in Nat /\ 0 \in Sizes
      /\ TRUE \in BOOLEAN /\ FALSE \in BOOLEAN
  BY DEF Registers, Sizes, Widths
<1>2. PICK c, t, u : /\ c = Step("csw", ap, 0, size, TRUE, TRUE)
                     /\ t = Step("tar", ap, addr, 0, TRUE, TRUE)
                     /\ u = Step("tar", ap, addr, 0, TRUE, FALSE)
  OBVIOUS
<1>3. c \in StepType /\ c.reg = "csw" /\ c.ap = ap /\ c.size = size
  BY <1>1, <1>2 DEF Step, StepType
<1>4. t \in StepType /\ t.reg = "tar" /\ t.ap = ap /\ t.addr = addr
  BY <1>1, <1>2 DEF Step, StepType
<1>5. u \in StepType /\ u.reg = "tar" /\ u.ap = ap /\ u.addr = addr
  BY <1>1, <1>2 DEF Step, StepType
<1>6. c \in Accesses
  BY ONLY <1>3, size \in Widths DEF Accesses, WellFormed, Widths
<1>7. t \in Accesses /\ u \in Accesses
  BY ONLY <1>4, <1>5 DEF Accesses, WellFormed
<1>8. SetUp(c, t, ap, addr, size) /\ SetUp(c, u, ap, addr, size)
  BY ONLY ap \in APs, <1>1, <1>3, <1>4, <1>5, <1>6, <1>7, Zenon DEF SetUp
<1> QED BY <1>2, <1>8, Zenon

\* A transfer of one, two or four bytes.
Possible(ap, addr, size, write) ==
  /\ ap \in APs /\ addr \in Nat /\ size \in Widths /\ write \in BOOLEAN
  /\ addr % size = 0 /\ addr..(addr + size - 1) \subseteq Memory

IsTransfer(e, ap, addr, size, write) ==
  /\ e = Step("drw", ap, addr, size, write, TRUE) /\ e \in Accesses
  /\ e.reg = "drw" /\ e.ap = ap /\ e.addr = addr /\ e.size = size /\ e.write = write

\* A transfer of one, two or four bytes is an access.
LEMMA DrwStep ==
  ASSUME NEW ap, NEW addr, NEW size, NEW write, Possible(ap, addr, size, write)
  PROVE  \E e : IsTransfer(e, ap, addr, size, write)
<1> SUFFICES ASSUME ap \in APs, addr \in Nat, size \in Widths, write \in BOOLEAN,
                    addr % size = 0, addr..(addr + size - 1) \subseteq Memory
             PROVE  \E e : IsTransfer(e, ap, addr, size, write)
  BY Zenon DEF Possible
<1>1. "drw" \in Registers /\ size \in Sizes /\ TRUE \in BOOLEAN
  BY DEF Registers, Sizes, Widths
<1>2. PICK e : e = Step("drw", ap, addr, size, write, TRUE)
  OBVIOUS
<1>3. /\ e \in StepType /\ e.reg = "drw" /\ e.ap = ap /\ e.addr = addr /\ e.size = size
      /\ e.write = write
  BY <1>1, <1>2 DEF Step, StepType
<1>4. RangeOf(e) = addr..(addr + size - 1)
  BY ONLY <1>3 DEF RangeOf
<1>5. e.addr % e.size = 0 /\ RangeOf(e) \subseteq Memory /\ e.size # 0
  BY <1>3, <1>4 DEF Widths
<1>6. e \in Accesses
  BY ONLY <1>3, <1>5 DEF Accesses, WellFormed
<1> QED BY <1>2, <1>3, <1>6, Zenon DEF IsTransfer

\* What follows a transfer of memory that its page holds.
LEMMA ValueOfTransfer ==
  ASSUME NEW e, e.reg = "drw"
  PROVE  Value(e) = Incremented(e.addr, e.size)
BY DEF Value

\* The bytes of a transfer, from where it begins to where it ends.
LEMMA RangeIs ==
  ASSUME NEW e \in Accesses, e.reg = "drw", NEW lo, NEW hi, e.addr = lo, e.addr + e.size = hi
  PROVE  RangeOf(e) = lo..(hi - 1)
<1>1. e.addr \in Nat /\ e.size \in Nat
  BY AccessHasType DEF Sizes
<1>2. PICK m : m = e.addr + e.size - 1
  OBVIOUS
<1>3. hi - 1 = m
  BY <1>1, <1>2
<1>4. RangeOf(e) = e.addr..m
  BY <1>2, Zenon DEF RangeOf
<1> QED BY ONLY <1>3, <1>4, e.addr = lo, Zenon

\* Transfers of which each begins where the one before it ends.
Covers(d, n, b, low, high) ==
  /\ low = b[1] /\ high = b[n + 1]
  /\ n \in Nat \ {0} /\ b \in [1..n + 1 -> Nat] /\ d \in Seq(Accesses) /\ Len(d) = n
  /\ \A k \in 1..n : /\ d[k].reg = "drw" /\ d[k].addr = b[k]
                      /\ d[k].addr + d[k].size = b[k + 1]

\* Transfers each of which begins where the one before it ends cover the bytes
\* from the first's first to the last's last.
LEMMA Consecutive ==
  ASSUME NEW n, NEW b, NEW d, NEW low, NEW high, Covers(d, n, b, low, high)
  PROVE  Bytes(d) = low..(high - 1) /\ InRelation(d, Upwards)
<1> SUFFICES ASSUME low = b[1], high = b[n + 1],
                    n \in Nat \ {0}, b \in [1..n + 1 -> Nat], d \in Seq(Accesses), Len(d) = n,
                    \A k \in 1..n : /\ d[k].reg = "drw" /\ d[k].addr = b[k]
                                    /\ d[k].addr + d[k].size = b[k + 1]
             PROVE  Bytes(d) = low..(high - 1) /\ InRelation(d, Upwards)
  BY Zenon DEF Covers
<1>1. \A k \in 1..n : d[k] \in Accesses
  OBVIOUS
<1>2. \A k \in 1..n : b[k] <= b[k + 1]
  <2> SUFFICES ASSUME NEW k \in 1..n PROVE b[k] <= b[k + 1]
    OBVIOUS
  <2>1. d[k].addr \in Nat /\ d[k].size \in Nat
    <3>1. d[k] \in Accesses
      BY <1>1, Zenon
    <3>2. d[k].addr \in Nat /\ d[k].size \in Sizes
      BY ONLY <3>1, AccessHasType, Zenon
    <3>3. \A x \in Sizes : x \in Nat
      BY DEF Sizes
    <3> QED BY ONLY <3>2, <3>3, Zenon
  <2>2. PICK x, y, z : x = d[k].addr /\ y = d[k].size /\ z = b[k + 1]
    OBVIOUS
  <2>3. x + y = z /\ b[k] = x
    BY <2>2
  <2>4. x <= z
    <3>1. x \in Nat /\ y \in Nat
      BY <2>1, <2>2, Zenon
    <3> QED BY ONLY <2>3, <3>1
  <2> QED BY ONLY <2>2, <2>3, <2>4, Zenon
<1>3. \A k \in 1..n : RangeOf(d[k]) = b[k]..(b[k + 1] - 1)
  <2> SUFFICES ASSUME NEW k \in 1..n PROVE RangeOf(d[k]) = b[k]..(b[k + 1] - 1)
    OBVIOUS
  <2>1. d[k] \in Accesses /\ d[k].reg = "drw" /\ d[k].addr = b[k] /\ d[k].addr + d[k].size = b[k + 1]
    BY <1>1, Zenon
  <2>2. PICK e, hi : e = d[k] /\ hi = b[k + 1]
    OBVIOUS
  <2>3. e \in Accesses /\ e.reg = "drw" /\ e.addr = b[k] /\ e.addr + e.size = hi
    BY ONLY <2>1, <2>2, Zenon
  <2>4. RangeOf(e) = b[k]..(hi - 1)
    BY ONLY <2>3, RangeIs, Zenon
  <2> QED BY ONLY <2>2, <2>4, Zenon
<1>4. Bytes(d) = low..(high - 1)
  <2>1. Range(d) = {d[k] : k \in 1..n}
    BY ONLY d \in Seq(Accesses), Len(d) = n DEF Range
  <2>2. Bytes(d) = UNION {RangeOf(d[k]) : k \in 1..n}
    BY ONLY <2>1 DEF Bytes
  <2>3. {RangeOf(d[k]) : k \in 1..n} = {b[k]..(b[k + 1] - 1) : k \in 1..n}
    BY ONLY <1>3, Zenon
  <2>4. UNION {b[k]..(b[k + 1] - 1) : k \in 1..n} = b[1]..(b[n + 1] - 1)
    BY ONLY <1>2, n \in Nat \ {0}, b \in [1..n + 1 -> Nat], IntervalsInARow
  <2>5. b[1]..(b[n + 1] - 1) = low..(high - 1)
    <3>1. b[n + 1] \in Nat
      OBVIOUS
    <3> QED BY ONLY <3>1, low = b[1], high = b[n + 1]
  <2> QED BY ONLY <2>2, <2>3, <2>4, <2>5, Zenon
<1>5. InRelation(d, Upwards)
  <2>1. \A i, j \in 1..n + 1 : i <= j => b[i] <= b[j]
    BY ONLY <1>2, n \in Nat \ {0}, b \in [1..n + 1 -> Nat], UpToSorted
  <2>2. ASSUME NEW i \in 1..n, NEW j \in 1..n, i < j
        PROVE  <<d[i], d[j]>> \in Upwards
    <3>1. i + 1 \in 1..n + 1 /\ j \in 1..n + 1 /\ i + 1 <= j
      BY <2>2
    <3>2. b[i + 1] <= b[j]
      BY <2>1, <3>1, Zenon
    <3>3. d[i].addr + d[i].size = b[i + 1] /\ d[j].addr = b[j]
      BY <2>2, Zenon
    <3>4. d[i].addr + d[i].size <= d[j].addr
      BY ONLY <3>2, <3>3
    <3>5. d[i] \in Accesses /\ d[j] \in Accesses
      BY <1>1
    <3> QED BY ONLY <3>4, <3>5 DEF Upwards
  <2>3. DOMAIN d = 1..n
    OBVIOUS
  <2> QED BY ONLY <2>2, <2>3, Zenon DEF InRelation
<1> QED BY <1>4, <1>5

\* Transfers of a size at consecutive addresses.
LEMMA TransfersInARow ==
  ASSUME NEW n \in Nat \ {0}, NEW addr \in Nat, NEW size \in Widths,
         NEW d \in Seq(Accesses), Len(d) = n,
         \A k \in 1..n : /\ d[k].reg = "drw" /\ d[k].size = size
                         /\ d[k].addr = addr + size * (k - 1),
         NEW high, high = addr + size * n
  PROVE  Bytes(d) = addr..(high - 1) /\ InRelation(d, Upwards)
<1>1. \A k \in 1..n + 1 : addr + size * (k - 1) \in Nat
  BY DEF Widths
<1>2. PICK b : b \in [1..n + 1 -> Nat] /\ \A k \in 1..n + 1 : b[k] = addr + size * (k - 1)
  <2>1. PICK f : f = [k \in 1..n + 1 |-> addr + size * (k - 1)]
    OBVIOUS
  <2>2. f \in [1..n + 1 -> Nat] /\ \A k \in 1..n + 1 : f[k] = addr + size * (k - 1)
    BY <1>1, <2>1
  <2> QED BY <2>2, Zenon
<1>3. \A k \in 1..n : /\ d[k].reg = "drw" /\ d[k].addr = b[k]
                      /\ d[k].addr + d[k].size = b[k + 1]
  <2> SUFFICES ASSUME NEW k \in 1..n
               PROVE  /\ d[k].reg = "drw" /\ d[k].addr = b[k]
                      /\ d[k].addr + d[k].size = b[k + 1]
    BY Zenon
  <2>1. k \in 1..n + 1 /\ k + 1 \in 1..n + 1 /\ (k + 1) - 1 = k
    OBVIOUS
  <2>2. addr + size * k = addr + size * (k - 1) + size /\ addr + size * (k - 1) \in Nat /\ size # 0
    BY DEF Widths
  <2>3. b[k + 1] = addr + size * k /\ b[k] = addr + size * (k - 1)
    BY ONLY <1>2, <2>1
  <2>4. d[k].reg = "drw" /\ d[k].size = size /\ d[k].addr = addr + size * (k - 1)
    BY Zenon
  <2> QED BY ONLY <2>2, <2>3, <2>4
<1>4. b[1] = addr /\ b[n + 1] = addr + size * n
  <2>1. 1 \in 1..n + 1 /\ n + 1 \in 1..n + 1
    OBVIOUS
  <2>2. b[1] = addr + size * (1 - 1) /\ b[n + 1] = addr + size * ((n + 1) - 1)
    BY <1>2, <2>1, Zenon
  <2>3. addr + size * (1 - 1) = addr /\ (n + 1) - 1 = n
    BY DEF Widths
  <2> QED BY ONLY <2>2, <2>3, Zenon
<1>5. Covers(d, n, b, addr, high)
  BY <1>2, <1>3, <1>4, Zenon DEF Covers
<1> QED BY ONLY <1>5, Consecutive

\* A list of CSW, TAR and transfers, without and with the wait for them.
InARow(d, n, ap, write, addr, size, high) ==
  /\ n \in Nat \ {0} /\ write \in BOOLEAN /\ addr \in Nat /\ size \in Widths
  /\ high = addr + size * n
  /\ d \in Seq(Accesses) /\ Len(d) = n
  /\ \A k \in 1..n : /\ d[k].reg = "drw" /\ d[k].ap = ap /\ d[k].write = write
                      /\ d[k].size = size /\ d[k].addr = addr + size * (k - 1)
  /\ \A k \in 1..n - 1 : Value(d[k]) = d[k + 1].addr

\* CSW, TAR and a row of transfers transfer the bytes of that row.
LEMMA ListIs ==
  ASSUME NEW ap, NEW write, NEW addr, NEW size, NEW c, NEW t, SetUp(c, t, ap, addr, size),
         NEW n, NEW d, NEW high, InARow(d, n, ap, write, addr, size, high),
         NEW u, Completing(u, <<c, t>> \o d, ap, write)
  PROVE  /\ IsList(u, ap, write, addr, high)
         /\ ~write => Front(u) \in Parts(ap, write)
<1>0. ap \in APs /\ n \in Nat \ {0} /\ write \in BOOLEAN /\ addr \in Nat /\ size \in Widths
  BY Zenon DEF InARow, SetUp
<1>1. PICK s : s = <<c, t>> \o d
  OBVIOUS
<1>2. Bytes(d) = addr..(high - 1) /\ InRelation(d, Upwards)
  <2>1. /\ d \in Seq(Accesses) /\ Len(d) = n /\ high = addr + size * n
        /\ \A k \in 1..n : /\ d[k].reg = "drw" /\ d[k].size = size
                            /\ d[k].addr = addr + size * (k - 1)
    BY Zenon DEF InARow
  <2> QED BY ONLY <1>0, <2>1, TransfersInARow
<1>3. Transfers(d, ap, write, addr, size)
  <2>1. Len(d) = n /\ d # << >> /\ 1 \in 1..n
    BY <1>0, NotEmpty DEF InARow
  <2>2. d[1].addr = addr
    <3>1. d[1].addr = addr + size * (1 - 1)
      BY <2>1, Zenon DEF InARow
    <3>2. addr + size * (1 - 1) = addr
      BY <1>0 DEF Widths
    <3> QED BY ONLY <3>1, <3>2, Zenon
  <2> QED BY <1>2, <2>1, <2>2, Zenon DEF InARow, Transfers
<1>4. s \in Parts(ap, write) /\ Bytes(s) = Bytes(d) /\ InRelation(s, Upwards)
  <2>2. /\ <<c, t>> \o d \in Parts(ap, write) /\ Bytes(<<c, t>> \o d) = Bytes(d)
        /\ InRelation(<<c, t>> \o d, Upwards)
    BY ONLY <1>3, SetUp(c, t, ap, addr, size), PartIs
  <2> QED BY ONLY <1>1, <2>2, Zenon
<1>5. PICK w \in Accesses : w = Await(ap, TRUE)
  <2>1. Await(ap, TRUE) \in Accesses
    BY <1>0, SimpleSteps
  <2> QED BY <2>1, Zenon
<1>6. (write => u = s) /\ (~write => u = s \o <<Await(ap, TRUE)>>)
  BY <1>1, Zenon DEF Completing
<1>7. u \in Lists(ap, write) /\ Bytes(u) = Bytes(s) /\ InRelation(u, Upwards)
  <2>1. Completing(u, s, ap, write)
    BY <1>6, Zenon DEF Completing
  <2> QED BY ONLY <1>0, <1>4, <2>1, PartWithAwait
<1>8. ~write => Front(u) = s
  <2>1. s \in Seq(Accesses)
    BY <1>4, Zenon DEF Parts
  <2>2. Front(s \o <<w>>) = s
    BY ONLY <2>1, FrontOfOneMore, w \in Accesses
  <2> QED BY ONLY <1>5, <1>6, <2>2, Zenon
<1> QED BY <1>2, <1>4, <1>7, <1>8, Zenon DEF IsList

\* A sequence of three.
LEMMA ThreeSteps ==
  ASSUME NEW S, NEW c \in S, NEW t \in S, NEW d \in S
  PROVE  <<c, t>> \o <<d>> = <<c, t, d>>
<1>1. <<c, t>> \in Seq(S) /\ Len(<<c, t>>) = 2 /\ <<c, t>>[1] = c /\ <<c, t>>[2] = t
  OBVIOUS
<1>2. /\ <<c, t>> \o <<d>> \in Seq(S) /\ Len(<<c, t>> \o <<d>>) = Len(<<c, t>>) + 1
      /\ (<<c, t>> \o <<d>>)[Len(<<c, t>>) + 1] = d
      /\ \A i \in 1..Len(<<c, t>>) : (<<c, t>> \o <<d>>)[i] = <<c, t>>[i]
  BY <1>1, OneMore
<1>3. PICK u : u = <<c, t>> \o <<d>>
  OBVIOUS
<1>4. u \in Seq(S) /\ Len(u) = 3 /\ u[1] = c /\ u[2] = t /\ u[3] = d
  BY ONLY <1>1, <1>2, <1>3
<1>5. PICK q : q = <<c, t, d>>
  OBVIOUS
<1>6. q \in Seq(S) /\ Len(q) = 3 /\ q[1] = c /\ q[2] = t /\ q[3] = d
  BY <1>5
<1>7. u = q
  BY ONLY <1>4, <1>6
<1> QED BY ONLY <1>3, <1>5, <1>7, Zenon

\* _write_memory and _read_memory.
LEMMA SingleIs ==
  ASSUME NEW ap, NEW addr, NEW size, NEW write, Possible(ap, addr, size, write),
         NEW high, high = addr + size
  PROVE  /\ IsList(Single(ap, addr, size, write), ap, write, addr, high)
         /\ ~write => Front(Single(ap, addr, size, write)) \in Parts(ap, write)
<1>0. ap \in APs /\ addr \in Nat /\ size \in Widths /\ write \in BOOLEAN
  BY Zenon DEF Possible
<1>1. PICK c, t : /\ c = Step("csw", ap, 0, size, TRUE, TRUE)
                  /\ t = Step("tar", ap, addr, 0, TRUE, TRUE)
                  /\ SetUp(c, t, ap, addr, size)
  BY ONLY <1>0, CswAndTar, Zenon
<1>2. c \in Accesses /\ t \in Accesses
  BY <1>1, Zenon DEF SetUp
<1>3. PICK d : IsTransfer(d, ap, addr, size, write)
  BY DrwStep, Zenon
<1>9. /\ d = Step("drw", ap, addr, size, write, TRUE) /\ d \in Accesses
      /\ d.reg = "drw" /\ d.ap = ap /\ d.addr = addr /\ d.size = size /\ d.write = write
  BY <1>3, Zenon DEF IsTransfer
<1>10. d \in Accesses
  BY <1>9
<1>5. Completing(Single(ap, addr, size, write), <<c, t>> \o <<d>>, ap, write)
  <2>1. <<c, t, d>> \in Seq(Accesses)
    BY ONLY <1>2, <1>10
  <2>2. <<c, t, d>> \o << >> = <<c, t, d>>
    BY ONLY <2>1
  <2>3. <<c, t>> \o <<d>> = <<c, t, d>>
    BY ONLY <1>2, <1>10, ThreeSteps
  <2>4. Single(ap, addr, size, write) = <<c, t, d>> \o (IF write THEN << >> ELSE <<Await(ap, TRUE)>>)
    BY <1>1, <1>9, Zenon DEF Single
  <2> QED BY <2>2, <2>3, <2>4, Zenon DEF Completing
<1>7. InARow(<<d>>, 1, ap, write, addr, size, high)
  <2>3. high = addr + size * 1
    BY <1>0 DEF Widths
  <2>1. <<d>> \in Seq(Accesses) /\ Len(<<d>>) = 1 /\ <<d>>[1] = d
    BY ONLY <1>10
  <2>2. 1 \in Nat \ {0} /\ 1..1 = {1} /\ 1..1 - 1 = {} /\ addr + size * (1 - 1) = addr
    BY <1>0 DEF Widths
  <2> QED BY <1>0, <1>9, <2>1, <2>2, <2>3, Zenon DEF InARow
<1>8. SetUp(c, t, ap, addr, size)
  BY <1>1, Zenon
<1> QED BY ONLY <1>5, <1>7, <1>8, ListIs

\* _write_block32 and _read_block32: words that a page holds.
InPage(addr, high) == \E q \in Nat : Page * q <= addr /\ high <= Page * q + Page
WordsOfPage(ap, addr, n, write, high) ==
  /\ ap \in APs /\ addr \in Nat /\ n \in Nat \ {0} /\ write \in BOOLEAN
  /\ high = addr + 4 * n /\ addr % 4 = 0 /\ addr..(high - 1) \subseteq Memory
  /\ InPage(addr, high)

\* The words of a page are a row of transfers.
LEMMA WordsInARow ==
  ASSUME NEW ap, NEW addr, NEW n, NEW write, NEW high, WordsOfPage(ap, addr, n, write, high),
         NEW d, d = [k \in 1..n |-> Step("drw", ap, addr + 4 * (k - 1), 4, write, TRUE)]
  PROVE  InARow(d, n, ap, write, addr, 4, high)
<1>1. /\ ap \in APs /\ addr \in Nat /\ n \in Nat \ {0} /\ write \in BOOLEAN
      /\ high = addr + 4 * n /\ addr % 4 = 0 /\ addr..(high - 1) \subseteq Memory
  BY Zenon DEF WordsOfPage
<1>2. \A k \in 1..n : Possible(ap, addr + 4 * (k - 1), 4, write)
  <2> SUFFICES ASSUME NEW k \in 1..n PROVE Possible(ap, addr + 4 * (k - 1), 4, write)
    BY Zenon
  <2>1. PICK a \in Nat : a = addr + 4 * (k - 1) /\ a % 4 = 0 /\ addr <= a /\ a + 4 <= high
    <3>1. k \in Nat /\ k - 1 \in Nat /\ k <= n
      BY <1>1
    <3>2. /\ addr + 4 * (k - 1) \in Nat /\ (addr + 4 * (k - 1)) % 4 = 0
          /\ addr <= addr + 4 * (k - 1) /\ addr + 4 * (k - 1) + 4 <= high
      BY ONLY <1>1, <3>1
    <3> QED BY <3>2
  <2>2. a..(a + 4 - 1) \subseteq Memory
    <3>1. \A x \in a..(a + 4 - 1) : x \in addr..(high - 1)
      BY ONLY <1>1, <2>1, a \in Nat
    <3> QED BY <1>1, <3>1, Zenon
  <2>3. 4 \in Widths
    BY DEF Widths
  <2>4. Possible(ap, a, 4, write)
    BY <1>1, <2>1, <2>2, <2>3, Zenon DEF Possible
  <2> QED BY <2>1, <2>4, Zenon
<1>3. \A k \in 1..n : IsTransfer(d[k], ap, addr + 4 * (k - 1), 4, write)
  <2> SUFFICES ASSUME NEW k \in 1..n
               PROVE  IsTransfer(d[k], ap, addr + 4 * (k - 1), 4, write)
    BY Zenon
  <2>1. PICK a : a = addr + 4 * (k - 1)
    OBVIOUS
  <2>2. PICK e : IsTransfer(e, ap, a, 4, write)
    <3>1. Possible(ap, a, 4, write)
      BY <1>2, <2>1, Zenon
    <3> QED BY <3>1, DrwStep, Zenon
  <2>3. e = d[k]
    <3>1. e = Step("drw", ap, a, 4, write, TRUE)
      BY <2>2, Zenon DEF IsTransfer
    <3> QED BY <2>1, <3>1, Zenon
  <2> QED BY <2>1, <2>2, <2>3, Zenon
<1>4. \A k \in 1..n : /\ d[k] \in Accesses /\ d[k].reg = "drw" /\ d[k].ap = ap
                      /\ d[k].write = write /\ d[k].size = 4 /\ d[k].addr = addr + 4 * (k - 1)
  BY <1>3, Zenon DEF IsTransfer
<1>5. d \in Seq(Accesses) /\ Len(d) = n
  <2>1. \A k \in 1..n : d[k] \in Accesses
    BY <1>4, Zenon
  <2>2. DOMAIN d = 1..n
    BY Zenon
  <2>3. d = [k \in 1..n |-> d[k]]
    BY Zenon
  <2> QED BY ONLY <1>1, <2>1, <2>2, <2>3
<1>6. \A k \in 1..n - 1 : Value(d[k]) = d[k + 1].addr
  <2> SUFFICES ASSUME NEW k \in 1..n - 1 PROVE Value(d[k]) = d[k + 1].addr
    BY Zenon
  <2>1. k \in 1..n /\ k + 1 \in 1..n
    BY <1>1
  <2>2. PICK a \in Nat : a = addr + 4 * (k - 1) /\ a + 4 = addr + 4 * ((k + 1) - 1) /\ a + 4 < high
                         /\ addr <= a
    <3>1. k \in Nat /\ k - 1 \in Nat /\ k + 1 <= n
      BY <1>1
    <3>2. /\ addr + 4 * (k - 1) \in Nat /\ (addr + 4 * (k - 1)) + 4 = addr + 4 * ((k + 1) - 1)
          /\ (addr + 4 * (k - 1)) + 4 < high /\ addr <= addr + 4 * (k - 1)
      BY ONLY <1>1, <3>1
    <3> QED BY <3>2
  <2>3. PICK q \in Nat : Page * q <= addr /\ high <= Page * q + Page
    BY Zenon DEF WordsOfPage, InPage
  <2>4. Page * q <= a /\ a + 4 < Page * q + Page
    <3>1. PICK m \in Nat : m = Page * q
      BY AccessPortAssumption
    <3>2. PICK p \in Nat : p = Page
      BY AccessPortAssumption
    <3>3. m <= addr /\ high <= m + p
      BY <2>3, <3>1, <3>2
    <3>4. m <= a /\ a + 4 < m + p
      BY ONLY <1>1, <2>2, <3>3, a \in Nat, m \in Nat, p \in Nat
    <3> QED BY ONLY <3>1, <3>2, <3>4
  <2>5. Incremented(a, 4) = a + 4
    BY <2>4, IncrementedInPage
  <2>6. Value(d[k]) = Incremented(d[k].addr, d[k].size)
    BY <1>4, <2>1, ValueOfTransfer, Zenon
  <2>7. d[k].addr = a /\ d[k].size = 4 /\ d[k + 1].addr = a + 4
    BY <1>4, <2>1, <2>2, Zenon
  <2> QED BY ONLY <2>5, <2>6, <2>7, Zenon
<1>7. 4 \in Widths
  BY DEF Widths
<1> QED BY <1>1, <1>4, <1>5, <1>6, <1>7, Zenon DEF InARow

\* _write_block32 and _read_block32 transfer the words of a page they are given.
LEMMA TransactionIs ==
  ASSUME NEW ap, NEW piece, NEW write, NEW high,
         WordsOfPage(ap, piece.addr, piece.count, write, high)
  PROVE  IsList(Transaction(ap, piece, write), ap, write, piece.addr, high)
<1>1. PICK addr, n : addr = piece.addr /\ n = piece.count
  OBVIOUS
<1>2. /\ WordsOfPage(ap, addr, n, write, high)
      /\ ap \in APs /\ addr \in Nat /\ n \in Nat \ {0} /\ write \in BOOLEAN
  BY <1>1, Zenon DEF WordsOfPage
<1>3. 4 \in Widths /\ 4 \in Sizes
  BY DEF Widths, Sizes
<1>4. PICK c, t : /\ c = Step("csw", ap, 0, 4, TRUE, TRUE)
                  /\ t = Step("tar", ap, addr, 0, TRUE, FALSE)
                  /\ SetUp(c, t, ap, addr, 4)
  <2>1. ap \in APs /\ addr \in Nat
    BY <1>2, Zenon
  <2> QED BY ONLY <1>3, <2>1, CswAndTar, Zenon
<1>5. c \in Accesses /\ t \in Accesses
  BY <1>4, Zenon DEF SetUp
<1>6. SetUp(c, t, ap, addr, 4)
  BY <1>4, Zenon
<1>7. PICK d : d = [k \in 1..n |-> Step("drw", ap, addr + 4 * (k - 1), 4, write, TRUE)]
  OBVIOUS
<1>8. InARow(d, n, ap, write, addr, 4, high)
  BY ONLY <1>2, <1>7, WordsInARow
<1>9. PICK u : u = Transaction(ap, piece, write)
  OBVIOUS
<1>10. Completing(u, <<c, t>> \o d, ap, write)
  <2>1. u = (<<c, t>> \o d) \o (IF write THEN << >> ELSE <<Await(ap, TRUE)>>)
    BY <1>1, <1>4, <1>7, <1>9, Zenon DEF Transaction
  <2>2. (<<c, t>> \o d) \o << >> = <<c, t>> \o d
    <3>1. d \in Seq(Accesses)
      BY <1>8, Zenon DEF InARow
    <3>2. PICK s : s = <<c, t>> \o d
      OBVIOUS
    <3>3. s \in Seq(Accesses)
      BY ONLY <1>5, <3>1, <3>2
    <3>4. s \o << >> = s
      BY ONLY <3>3
    <3> QED BY ONLY <3>2, <3>4, Zenon
  <2> QED BY <2>1, <2>2, Zenon DEF Completing
<1>11. IsList(u, ap, write, addr, high)
  BY ONLY <1>6, <1>8, <1>10, ListIs
<1> QED BY <1>1, <1>9, <1>11, Zenon

\* Where the transactions of a block of words begin and end.  Each is the part
\* of the block that is in one page.
Begin(addr, k) == Greater(addr, (addr \div Page + k - 1) * Page)
Finish(addr, high, k) == Smaller(high, (addr \div Page + k) * Page)
Pages(addr, high) == (high - 1) \div Page - addr \div Page + 1

OfPage(addr, high, k, q) ==
  /\ q = addr \div Page + k - 1
  /\ Begin(addr, k) \in Nat /\ Finish(addr, high, k) \in Nat
  /\ Page * q <= Begin(addr, k) /\ Finish(addr, high, k) <= Page * q + Page
  /\ addr <= Begin(addr, k) /\ Begin(addr, k) < Finish(addr, high, k)
  /\ Finish(addr, high, k) <= high
  /\ Begin(addr, k) = (IF k = 1 THEN addr ELSE Page * q)
  /\ Finish(addr, high, k) = (IF k = Pages(addr, high) THEN high ELSE Page * (q + 1))

\* The pages a block of words touches, each with a part of it.
LEMMA PagesOfBlock ==
  ASSUME NEW addr \in Nat, NEW high \in Nat, addr < high
  PROVE  /\ Pages(addr, high) \in Nat \ {0}
         /\ \A k \in 1..Pages(addr, high) : \E q \in Nat : OfPage(addr, high, k, q)
<1>1. PICK p \in Nat, first \in Nat, last \in Nat :
        /\ p = Page /\ first = addr \div Page /\ last = (high - 1) \div Page /\ p # 0
        /\ p * first <= addr /\ addr < p * first + p
        /\ p * last <= high - 1 /\ high - 1 < p * last + p
        /\ p * first \in Nat /\ p * last \in Nat
  <2>1. Page \in Nat /\ Page # 0 /\ high - 1 \in Nat
    BY AccessPortAssumption
  <2>2. \A a \in Nat : a \div Page \in Nat /\ Page * (a \div Page) \in Nat
                       /\ Page * (a \div Page) <= a /\ a < Page * (a \div Page) + Page
    BY <2>1
  <2> QED BY <2>1, <2>2, Zenon
<1>2. first <= last
  <2>1. last < first => p * last + p <= p * first
    BY <1>1
  <2> QED BY <1>1, <2>1
<1>3. Pages(addr, high) = last - first + 1
  BY <1>1 DEF Pages
<1>4. PICK n \in Nat : n = Pages(addr, high) /\ n = last - first + 1 /\ n # 0
  BY <1>2, <1>3
<1>5. ASSUME NEW k \in 1..n
      PROVE  \E q \in Nat : OfPage(addr, high, k, q)
  <2>1. PICK q \in Nat, m \in Nat, r \in Nat :
          /\ q = first + k - 1 /\ m = p * q /\ r = m + p /\ r = p * (q + 1)
          /\ first + k - 1 = q /\ first + k = q + 1
    <3>1. first + k - 1 \in Nat /\ k \in Nat
      OBVIOUS
    <3>2. PICK q \in Nat : q = first + k - 1 /\ first + k = q + 1
      BY <3>1
    <3>3. p * q \in Nat /\ p * q + p \in Nat /\ p * q + p = p * (q + 1)
      OBVIOUS
    <3> QED BY <3>2, <3>3
  <2>2. (first + k - 1) * p = m /\ (first + k) * p = r
    <3>1. q * p = p * q /\ (q + 1) * p = p * (q + 1)
      OBVIOUS
    <3> QED BY <2>1, <3>1
  <2>3. k = 1 => m = p * first
    <3>1. k = 1 => q = first
      BY <2>1
    <3> QED BY <2>1, <3>1
  <2>4. k # 1 => m >= p * first + p
    <3>1. k # 1 => q >= first + 1
      BY <2>1
    <3>2. q >= first + 1 => p * q >= p * first + p
      <4>1. q >= first + 1 => p * q >= p * (first + 1)
        OBVIOUS
      <4>2. p * (first + 1) = p * first + p
        OBVIOUS
      <4> QED BY <4>1, <4>2
    <3> QED BY <2>1, <3>1, <3>2
  <2>5. k = n => r = p * last + p
    <3>1. k = n => q = last
      BY <1>4, <2>1
    <3> QED BY <2>1, <3>1
  <2>6. k # n => r <= p * last
    <3>1. k # n => q + 1 <= last
      BY <1>4, <2>1
    <3>2. q + 1 <= last => p * (q + 1) <= p * last
      OBVIOUS
    <3> QED BY <2>1, <3>1, <3>2
  <2>10. PICK b, e : b = (IF k = 1 THEN addr ELSE m) /\ e = (IF k = n THEN high ELSE r)
    OBVIOUS
  <2>11. b = Greater(addr, m)
    BY <1>1, <2>3, <2>4, <2>10 DEF Greater
  <2>12. e = Smaller(high, r)
    BY <1>1, <2>5, <2>6, <2>10 DEF Smaller
  <2>13. b \in Nat /\ e \in Nat
    BY <2>10
  <2>7. /\ b = Greater(addr, m) /\ e = Smaller(high, r) /\ b \in Nat /\ e \in Nat
        /\ b = (IF k = 1 THEN addr ELSE m) /\ e = (IF k = n THEN high ELSE r)
    BY <2>10, <2>11, <2>12, <2>13
  <2>8. Begin(addr, k) = b /\ Finish(addr, high, k) = e
    <3>1. (addr \div Page + k - 1) * Page = m /\ (addr \div Page + k) * Page = r
      BY ONLY <1>1, <2>2
    <3> QED BY <2>7, <3>1, Zenon DEF Begin, Finish
  <2>9. m <= b /\ b < e /\ e <= m + p /\ addr <= b /\ e <= high
    BY <1>1, <2>1, <2>3, <2>4, <2>5, <2>6, <2>7
  <2>14. OfPage(addr, high, k, q)
    BY <1>1, <1>4, <2>1, <2>7, <2>8, <2>9, Zenon DEF OfPage
  <2> QED BY <2>14, Zenon
<1> QED BY <1>4, <1>5, Zenon

\* Multiples of four, and what is between them.
LEMMA Fours ==
  /\ \A p \in Nat, q \in Nat : p % 4 = 0 => (p * q) % 4 = 0
  /\ \A a \in Nat, b \in Nat : a % 4 = 0 /\ b % 4 = 0 /\ a < b =>
       (b - a) \div 4 \in Nat \ {0} /\ b = a + 4 * ((b - a) \div 4)
<1>1. ASSUME NEW p \in Nat, NEW q \in Nat, p % 4 = 0 PROVE (p * q) % 4 = 0
  <2>1. PICK w \in Nat : p = 4 * w
    BY <1>1
  <2>2. p * q = 4 * (w * q) /\ w * q \in Nat
    BY <2>1
  <2>3. PICK x \in Nat : x = w * q
    BY <2>2
  <2>4. (4 * x) % 4 = 0
    OBVIOUS
  <2> QED BY ONLY <2>2, <2>3, <2>4
<1>2. \A a \in Nat, b \in Nat : a % 4 = 0 /\ b % 4 = 0 /\ a < b =>
        (b - a) \div 4 \in Nat \ {0} /\ b = a + 4 * ((b - a) \div 4)
  OBVIOUS
<1> QED BY <1>1, <1>2, Zenon

\* The transactions of a block of words.
Words(ap, addr, count, write, high) ==
  /\ ap \in APs /\ addr \in Nat /\ count \in Nat \ {0} /\ write \in BOOLEAN
  /\ high = addr + 4 * count /\ addr % 4 = 0 /\ addr..(high - 1) \subseteq Memory

\* The transaction of each of those pages stays in it.
LEMMA TransactionOfPage ==
  ASSUME NEW ap, NEW addr, NEW count, NEW write, NEW high, Words(ap, addr, count, write, high),
         NEW k \in 1..Pages(addr, high), NEW piece,
         piece = Piece(Begin(addr, k), 4, (Finish(addr, high, k) - Begin(addr, k)) \div 4)
  PROVE  /\ WordsOfPage(ap, piece.addr, piece.count, write, Finish(addr, high, k))
         /\ piece.addr = Begin(addr, k)
<1>1. /\ ap \in APs /\ addr \in Nat /\ count \in Nat \ {0} /\ write \in BOOLEAN
      /\ high = addr + 4 * count /\ addr % 4 = 0 /\ addr..(high - 1) \subseteq Memory
  BY Zenon DEF Words
<1>2. high \in Nat /\ addr < high /\ high % 4 = 0
  BY <1>1
<1>3. PICK b, e : b = Begin(addr, k) /\ e = Finish(addr, high, k)
  OBVIOUS
<1>13. PICK q \in Nat : OfPage(addr, high, k, q)
  BY <1>1, <1>2, PagesOfBlock
<1>4. /\ Page * q <= b /\ b \in Nat /\ b < e /\ e <= Page * q + Page
      /\ addr <= b /\ e \in Nat /\ e <= high
      /\ b = (IF k = 1 THEN addr ELSE Page * q)
      /\ e = (IF k = Pages(addr, high) THEN high ELSE Page * (q + 1))
  BY <1>3, <1>13, Zenon DEF OfPage
<1>5. b % 4 = 0 /\ e % 4 = 0
  <2>1. Page \in Nat /\ Page % 4 = 0 /\ q + 1 \in Nat
    BY AccessPortAssumption
  <2>2. (Page * q) % 4 = 0 /\ (Page * (q + 1)) % 4 = 0
    BY <2>1, Fours, Zenon
  <2> QED BY <1>1, <1>2, <1>4, <2>2, Zenon
<1>6. PICK n : n = (e - b) \div 4
  OBVIOUS
<1>7. n \in Nat \ {0} /\ e = b + 4 * n
  BY <1>4, <1>5, <1>6, Fours, Zenon
<1>8. b..(e - 1) \subseteq Memory
  <2>1. \A x \in b..(e - 1) : x \in addr..(high - 1)
    BY ONLY <1>1, <1>2, <1>4
  <2> QED BY <1>1, <2>1, Zenon
<1>9. InPage(b, e)
  BY <1>4, Zenon DEF InPage
<1>10. WordsOfPage(ap, b, n, write, e)
  BY <1>1, <1>4, <1>5, <1>7, <1>8, <1>9, Zenon DEF WordsOfPage
<1>11. piece = Piece(b, 4, n)
  BY <1>3, <1>6, Zenon
<1>12. piece.addr = b /\ piece.count = n
  BY ONLY <1>11 DEF Piece
<1> QED BY <1>3, <1>10, <1>12, Zenon

\* Where one ends, the next begins.
LEMMA NextPage ==
  ASSUME NEW addr \in Nat, NEW high \in Nat, addr < high, NEW k \in 1..Pages(addr, high)
  PROVE  Finish(addr, high, k) = IF k = Pages(addr, high) THEN high ELSE Begin(addr, k + 1)
<1>1. PICK n \in Nat : n = Pages(addr, high)
  BY PagesOfBlock
<1>5. PICK q \in Nat : OfPage(addr, high, k, q)
  BY PagesOfBlock
<1>2. /\ q = addr \div Page + k - 1
      /\ Finish(addr, high, k) = (IF k = n THEN high ELSE Page * (q + 1))
  BY <1>1, <1>5, Zenon DEF OfPage
<1>3. CASE k = n
  BY <1>1, <1>2, <1>3, Zenon
<1>4. CASE k # n
  <2>1. k + 1 \in 1..n /\ k + 1 # 1
    BY <1>1, <1>4
  <2>4. PICK r \in Nat : OfPage(addr, high, k + 1, r)
    BY <1>1, <2>1, PagesOfBlock
  <2>2. r = addr \div Page + (k + 1) - 1 /\ Begin(addr, k + 1) = Page * r
    BY <2>1, <2>4, Zenon DEF OfPage
  <2>3. r = q + 1
    <3>2. Page \in Nat /\ Page # 0 /\ k \in Nat
      BY AccessPortAssumption
    <3>1. addr \div Page \in Nat /\ k \in Nat
      BY <3>2, Division
    <3> QED BY <1>2, <2>2, <3>1
  <2> QED BY <1>1, <1>2, <1>4, <2>2, <2>3, Zenon
<1> QED BY <1>3, <1>4

\* _write_memory_block32 and _read_memory_block32.
WordBlock(ap, addr, count, write) ==
  FlattenSeq([k \in DOMAIN Transactions(addr, count, Page) |->
                Transaction(ap, Transactions(addr, count, Page)[k], write)])

\* _write_memory_block32 and _read_memory_block32 transfer all words of a block.
LEMMA WordBlockIs ==
  ASSUME NEW ap, NEW addr, NEW count, NEW write, NEW high, Words(ap, addr, count, write, high)
  PROVE  IsList(WordBlock(ap, addr, count, write), ap, write, addr, high)
<1>1. /\ ap \in APs /\ addr \in Nat /\ count \in Nat \ {0} /\ write \in BOOLEAN
      /\ high = addr + 4 * count
  BY Zenon DEF Words
<1>2. high \in Nat /\ addr < high
  BY <1>1
<1>3. PICK n \in Nat \ {0} : n = Pages(addr, high)
  BY <1>1, <1>2, PagesOfBlock
<1>4. PICK t : t = Transactions(addr, count, Page)
  OBVIOUS
<1>5. DOMAIN t = 1..n /\ \A k \in 1..n :
        t[k] = Piece(Begin(addr, k), 4, (Finish(addr, high, k) - Begin(addr, k)) \div 4)
  BY <1>1, <1>3, <1>4, Zenon DEF Transactions, Pages, Begin, Finish
<1>6. \A k \in 1..n : IsList(Transaction(ap, t[k], write), ap, write, Begin(addr, k),
                             Finish(addr, high, k))
  <2> SUFFICES ASSUME NEW k \in 1..n
               PROVE  IsList(Transaction(ap, t[k], write), ap, write, Begin(addr, k),
                             Finish(addr, high, k))
    BY Zenon
  <2>1. PICK p : p = t[k]
    OBVIOUS
  <2>2. p = Piece(Begin(addr, k), 4, (Finish(addr, high, k) - Begin(addr, k)) \div 4)
    BY <1>5, <2>1, Zenon
  <2>3. /\ WordsOfPage(ap, p.addr, p.count, write, Finish(addr, high, k))
        /\ p.addr = Begin(addr, k)
    BY <1>3, <2>2, TransactionOfPage
  <2>4. IsList(Transaction(ap, p, write), ap, write, p.addr, Finish(addr, high, k))
    BY ONLY <2>3, TransactionIs
  <2> QED BY <2>1, <2>3, <2>4, Zenon
<1>7. PICK b : b = [k \in 1..n + 1 |-> IF k = n + 1 THEN high ELSE Begin(addr, k)]
  OBVIOUS
<1>8. \A k \in 1..n : /\ Begin(addr, k) \in Nat /\ Begin(addr, k) <= Finish(addr, high, k)
                      /\ b[k] = Begin(addr, k) /\ b[k + 1] = Finish(addr, high, k)
  <2> SUFFICES ASSUME NEW k \in 1..n
               PROVE  /\ Begin(addr, k) \in Nat /\ Begin(addr, k) <= Finish(addr, high, k)
                      /\ b[k] = Begin(addr, k) /\ b[k + 1] = Finish(addr, high, k)
    BY Zenon
  <2>1. PICK q \in Nat : OfPage(addr, high, k, q)
    BY <1>1, <1>2, <1>3, PagesOfBlock
  <2>2. /\ Begin(addr, k) \in Nat /\ Finish(addr, high, k) \in Nat
        /\ Begin(addr, k) < Finish(addr, high, k)
    BY <2>1, Zenon DEF OfPage
  <2>3. Begin(addr, k) <= Finish(addr, high, k)
    BY ONLY <2>2
  <2>4. /\ k \in 1..n + 1 /\ k # n + 1 /\ k + 1 \in 1..n + 1 /\ (k + 1 = n + 1 <=> k = n)
    OBVIOUS
  <2>5. b[k] = Begin(addr, k) /\ b[k + 1] = IF k = n THEN high ELSE Begin(addr, k + 1)
    BY ONLY <1>7, <2>4, Zenon
  <2>6. Finish(addr, high, k) = IF k = n THEN high ELSE Begin(addr, k + 1)
    BY <1>1, <1>2, <1>3, NextPage
  <2> QED BY <2>2, <2>3, <2>5, <2>6, Zenon
<1>9. b \in [1..n + 1 -> Nat] /\ b[n + 1] = high
  <2>1. \A k \in 1..n + 1 : (IF k = n + 1 THEN high ELSE Begin(addr, k)) \in Nat
    <3>1. \A k \in 1..n + 1 : k # n + 1 => k \in 1..n
      OBVIOUS
    <3> QED BY <1>2, <1>8, <3>1, Zenon
  <2>2. n + 1 \in 1..n + 1
    OBVIOUS
  <2> QED BY <1>7, <2>1, <2>2, Zenon
<1>10. b[1] = addr
  <2>1. 1 \in 1..n
    OBVIOUS
  <2>2. PICK q \in Nat : OfPage(addr, high, 1, q)
    BY <1>1, <1>2, <1>3, <2>1, PagesOfBlock
  <2>3. Begin(addr, 1) = addr
    BY <2>2, Zenon DEF OfPage
  <2> QED BY <1>8, <2>1, <2>3, Zenon
<1>11. PICK s : s = [k \in 1..n |-> Transaction(ap, t[k], write)]
  OBVIOUS
<1>12. AreLists(s, n, b, ap, write, addr, high)
  <2>1. \A k \in 1..n : s[k] = Transaction(ap, t[k], write)
    BY <1>11, Zenon
  <2>2. \A k \in 1..n : b[k] <= b[k + 1] /\ IsList(s[k], ap, write, b[k], b[k + 1])
    BY <1>6, <1>8, <2>1, Zenon
  <2>3. s \in Seq(Seq(Accesses)) /\ Len(s) = n
    <3>1. \A k \in 1..n : Transaction(ap, t[k], write) \in Seq(Accesses)
      BY <1>6, Zenon DEF IsList, Lists, Parts
    <3> QED BY ONLY n \in Nat \ {0}, <1>11, <3>1
  <2> QED BY <1>9, <1>10, <2>2, <2>3, Zenon DEF AreLists
<1>13. WordBlock(ap, addr, count, write) = FlattenSeq(s)
  BY <1>4, <1>5, <1>11, Zenon DEF WordBlock
<1> QED BY <1>1, <1>12, <1>13, FlattenedLists

\* A piece of a block is one byte, one halfword or words, aligned.
Aligned(p) ==
  /\ p.addr \in Nat /\ p.size \in Widths /\ p.count \in Nat \ {0}
  /\ p.addr % p.size = 0 /\ (p.size < 4 => p.count = 1)
PieceOf(ap, p, write, high) ==
  /\ ap \in APs /\ write \in BOOLEAN /\ Aligned(p)
  /\ high = p.addr + p.size * p.count /\ p.addr..(high - 1) \subseteq Memory

\* And so does a single transfer of a byte or a halfword.
LEMMA BlockIs ==
  ASSUME NEW ap, NEW p, NEW write, NEW high, PieceOf(ap, p, write, high)
  PROVE  IsList(Block(ap, p, write), ap, write, p.addr, high)
<1>1. PICK addr, size, count : addr = p.addr /\ size = p.size /\ count = p.count
  OBVIOUS
<1>2. /\ ap \in APs /\ write \in BOOLEAN /\ addr \in Nat /\ size \in Widths /\ count \in Nat \ {0}
      /\ addr % size = 0 /\ (size < 4 => count = 1)
      /\ high = addr + size * count /\ addr..(high - 1) \subseteq Memory
  BY <1>1, Zenon DEF PieceOf, Aligned
<1>3. Block(ap, p, write) = IF size < 4 THEN Single(ap, addr, size, write)
                            ELSE WordBlock(ap, addr, count, write)
  BY <1>1, Zenon DEF Block, WordBlock
<1>4. CASE size < 4
  <2>1. high = addr + size /\ high - 1 = addr + size - 1
    BY <1>2, <1>4 DEF Widths
  <2>2. Possible(ap, addr, size, write)
    BY <1>2, <2>1, Zenon DEF Possible
  <2>3. IsList(Single(ap, addr, size, write), ap, write, addr, high)
    BY <2>1, <2>2, SingleIs
  <2> QED BY <1>1, <1>3, <1>4, <2>3, Zenon
<1>5. CASE ~(size < 4)
  <2>1. size = 4
    BY <1>2, <1>5 DEF Widths
  <2>2. Words(ap, addr, count, write, high)
    BY <1>2, <2>1, Zenon DEF Words
  <2>3. IsList(WordBlock(ap, addr, count, write), ap, write, addr, high)
    BY <2>2, WordBlockIs, Zenon
  <2> QED BY <1>1, <1>3, <1>5, <2>3, Zenon
<1> QED BY <1>4, <1>5

\* What was taken off the front of a block: pieces that follow one another from
\* its first byte to the first of those that are left.
Limits(pieces, b) ==
  /\ b \in [1..Len(pieces) + 1 -> Nat]
  /\ \A i \in 1..Len(pieces) :
       Aligned(pieces[i]) /\ pieces[i].addr = b[i] /\ b[i + 1] = b[i] + pieces[i].size * pieces[i].count
Row(pieces, low, high) ==
  /\ pieces \in Seq([addr : Nat, size : Widths, count : Nat])
  /\ \E b : Limits(pieces, b) /\ b[1] = low /\ b[Len(pieces) + 1] = high
Taken(block, low, high) ==
  /\ block.addr \in Nat /\ block.left \in Nat /\ block.addr + block.left = high
  /\ Row(block.pieces, low, block.addr)
CanTake(addr, left, size, count) ==
  /\ size \in Widths /\ count \in Nat /\ size * count <= left
  /\ count # 0 => addr % size = 0 /\ (size < 4 => count = 1)

\* One more piece.
LEMMA AnotherPiece ==
  ASSUME NEW pieces, NEW low, NEW addr \in Nat, Row(pieces, low, addr),
         NEW size \in Widths, NEW count \in Nat \ {0}, addr % size = 0, size < 4 => count = 1,
         NEW high, high = addr + size * count
  PROVE  Row(Append(pieces, Piece(addr, size, count)), low, high)
<1>1. PICK T : T = [addr : Nat, size : Widths, count : Nat]
  OBVIOUS
<1>2. pieces \in Seq(T)
  BY <1>1, Zenon DEF Row
<1>3. PICK p : p = Piece(addr, size, count)
  OBVIOUS
<1>4. p \in T /\ p.addr = addr /\ p.size = size /\ p.count = count
  BY <1>1, <1>3 DEF Piece
<1>5. PICK b : Limits(pieces, b) /\ b[1] = low /\ b[Len(pieces) + 1] = addr
  BY Zenon DEF Row
<1>6. PICK n \in Nat : n = Len(pieces)
  BY <1>2
<1>7. PICK more : more = Append(pieces, p)
  OBVIOUS
<1>8. /\ more \in Seq(T) /\ Len(more) = n + 1 /\ more[n + 1] = p
      /\ \A i \in 1..n : more[i] = pieces[i]
  BY ONLY <1>2, <1>4, <1>6, <1>7
<1>9. high \in Nat
  BY DEF Widths
<1>10. PICK c : c = [i \in 1..n + 2 |-> IF i = n + 2 THEN high ELSE b[i]]
  OBVIOUS
<1>11. /\ b \in [1..n + 1 -> Nat] /\ b[n + 1] = addr
       /\ \A i \in 1..n : /\ Aligned(pieces[i]) /\ pieces[i].addr = b[i]
                          /\ b[i + 1] = b[i] + pieces[i].size * pieces[i].count
  BY <1>5, <1>6, Zenon DEF Limits
<1>12. /\ c \in [1..n + 2 -> Nat] /\ c[n + 2] = high
       /\ \A i \in 1..n + 1 : c[i] = b[i]
  BY ONLY <1>9, <1>10, <1>11, n \in Nat
<1>13. /\ \A i \in 1..n + 1 : i \in 1..n \/ i = n + 1
       /\ \A i \in 1..n : i \in 1..n + 1 /\ i + 1 \in 1..n + 1
       /\ n + 1 \in 1..n + 1 /\ (n + 1) + 1 = n + 2 /\ 1 \in 1..n + 1
  OBVIOUS
<1>14. Aligned(p)
  BY <1>4, Zenon DEF Aligned
<1>15. \A i \in 1..n + 1 : /\ Aligned(more[i]) /\ more[i].addr = c[i]
                           /\ c[i + 1] = c[i] + more[i].size * more[i].count
  <2>1. ASSUME NEW i \in 1..n
        PROVE  /\ Aligned(more[i]) /\ more[i].addr = c[i]
               /\ c[i + 1] = c[i] + more[i].size * more[i].count
    <3>1. more[i] = pieces[i] /\ c[i] = b[i] /\ c[i + 1] = b[i + 1]
      BY <1>8, <1>12, <1>13, Zenon
    <3> QED BY <1>11, <3>1, Zenon
  <2>2. /\ Aligned(more[n + 1]) /\ more[n + 1].addr = c[n + 1]
        /\ c[(n + 1) + 1] = c[n + 1] + more[n + 1].size * more[n + 1].count
    <3>1. c[n + 1] = addr /\ c[(n + 1) + 1] = high
      BY <1>11, <1>12, <1>13, Zenon
    <3> QED BY <1>4, <1>8, <1>14, <3>1, Zenon
  <2> QED BY <1>13, <2>1, <2>2, Zenon
<1>16. Limits(more, c) /\ c[1] = low /\ c[Len(more) + 1] = high
  BY <1>5, <1>8, <1>12, <1>13, <1>15, Zenon DEF Limits
<1> QED BY <1>1, <1>3, <1>7, <1>8, <1>16, Zenon DEF Row

\* A piece taken from the front of what is left of a block.
LEMMA TakeIs ==
  ASSUME NEW block, NEW low, NEW high, Taken(block, low, high),
         NEW size, NEW count, CanTake(block.addr, block.left, size, count),
         NEW more, more = Take(block, size, count)
  PROVE  /\ Taken(more, low, high)
         /\ more.addr = block.addr + size * count /\ more.left = block.left - size * count
<1>1. PICK addr, left, pieces : addr = block.addr /\ left = block.left /\ pieces = block.pieces
  OBVIOUS
<1>2. /\ addr \in Nat /\ left \in Nat /\ addr + left = high /\ Row(pieces, low, addr)
  BY <1>1, Zenon DEF Taken
<1>3. /\ size \in Widths /\ count \in Nat /\ size * count <= left
      /\ count # 0 => addr % size = 0 /\ (size < 4 => count = 1)
  BY <1>1, Zenon DEF CanTake
<1>4. CASE count = 0
  <2>1. more = IF count = 0 THEN block ELSE more
    BY ONLY more = Take(block, size, count), Zenon DEF Take
  <2>4. more = block
    BY ONLY <1>4, <2>1, Zenon
  <2>2. addr = addr + size * count /\ left = left - size * count
    BY <1>2, <1>3, <1>4 DEF Widths
  <2>3. more.addr = block.addr + size * count /\ more.left = block.left - size * count
    BY ONLY <1>1, <2>2, <2>4, Zenon
  <2>5. Taken(block, low, high)
    OBVIOUS
  <2> QED BY ONLY <2>3, <2>4, <2>5, Zenon
<1>5. CASE count # 0
  <2>1. PICK m : m = size * count
    OBVIOUS
  <2>2. m \in Nat /\ m <= left
    <3>1. size \in Widths /\ count \in Nat /\ size * count <= left
      BY <1>3, Zenon
    <3>2. size \in Nat
      BY ONLY <3>1 DEF Widths
    <3>3. size * count \in Nat
      BY ONLY <3>1, <3>2
    <3> QED BY ONLY <2>1, <3>1, <3>3, Zenon
  <2>3. addr + m \in Nat /\ left - m \in Nat /\ (addr + m) + (left - m) = high
    BY ONLY <1>2, <2>2
  <2>4. more = [addr |-> addr + m, left |-> left - m,
                pieces |-> Append(pieces, Piece(addr, size, count))]
    <3>1. more = [addr |-> block.addr + size * count, left |-> block.left - size * count,
                  pieces |-> Append(block.pieces, Piece(block.addr, size, count))]
      BY ONLY <1>5, more = Take(block, size, count), Zenon DEF Take
    <3> QED BY ONLY <1>1, <2>1, <3>1, Zenon
  <2>5. /\ more.addr = addr + m /\ more.left = left - m
        /\ more.pieces = Append(pieces, Piece(addr, size, count))
    BY ONLY <2>4
  <2>6. Row(Append(pieces, Piece(addr, size, count)), low, addr + m)
    BY <1>2, <1>3, <1>5, <2>1, AnotherPiece
  <2> QED BY <1>1, <2>1, <2>3, <2>5, <2>6, Zenon DEF Taken
<1> QED BY <1>4, <1>5

\* The five stages of read_memory_block8 and write_memory_block8.
LEMMA PiecesAre ==
  ASSUME NEW addr \in Nat, NEW length \in Nat \ {0}, NEW high, high = addr + length
  PROVE  Row(Pieces(addr, length), addr, high)
<1> DEFINE whole == [addr |-> addr, left |-> length, pieces |-> << >>]
           c1    == IF whole.left > 0 /\ whole.addr % 2 = 1 THEN 1 ELSE 0
           byte  == Take(whole, 1, c1)
           c2    == IF byte.left > 1 /\ byte.addr % 4 >= 2 THEN 1 ELSE 0
           half  == Take(byte, 2, c2)
           c3    == half.left \div 4
           words == Take(half, 4, c3)
           c4    == IF words.left > 1 THEN 1 ELSE 0
           half2 == Take(words, 2, c4)
           c5    == IF half2.left > 0 THEN 1 ELSE 0
           byte2 == Take(half2, 1, c5)
<1>1. Pieces(addr, length) = byte2.pieces
  BY Zenon DEF Pieces
<1>2. Taken(whole, addr, high) /\ whole.addr = addr /\ whole.left = length
  <2>1. whole.addr = addr /\ whole.left = length /\ whole.pieces = << >>
    OBVIOUS
  <2>2. PICK T : T = [addr : Nat, size : Widths, count : Nat]
    OBVIOUS
  <2>3. PICK none : none = << >>
    OBVIOUS
  <2>4. none \in Seq(T) /\ Len(none) = 0
    BY ONLY <2>3
  <2>5. PICK b : b = [i \in 1..Len(none) + 1 |-> addr]
    OBVIOUS
  <2>6. b \in [1..Len(none) + 1 -> Nat] /\ b[1] = addr /\ b[Len(none) + 1] = addr /\ 1..Len(none) = {}
    BY ONLY <2>4, <2>5, addr \in Nat
  <2>7. Limits(none, b)
    BY <2>6, Zenon DEF Limits
  <2>8. Row(none, addr, addr)
    BY <2>2, <2>4, <2>6, <2>7, Zenon DEF Row
  <2>9. length \in Nat
    OBVIOUS
  <2> HIDE DEF whole
  <2> QED BY <2>1, <2>3, <2>8, <2>9, Zenon DEF Taken
<1>3. /\ 1 \in Widths /\ 2 \in Widths /\ 4 \in Widths
  BY DEF Widths
<1> HIDE DEF whole, byte, half, words, half2, byte2
<1>4. /\ Taken(byte, addr, high) /\ byte.addr \in Nat /\ byte.left \in Nat /\ byte.addr % 2 = 0
  <2>1. PICK a \in Nat, l \in Nat : a = whole.addr /\ l = whole.left /\ l > 0
    BY <1>2
  <2>2. c1 = IF a % 2 = 1 THEN 1 ELSE 0
    BY <2>1
  <2> HIDE DEF c1
  <2>3. CanTake(a, l, 1, c1)
    BY ONLY <1>3, <2>1, <2>2 DEF CanTake
  <2>4. /\ Taken(byte, addr, high) /\ byte.addr = a + 1 * c1 /\ byte.left = l - 1 * c1
    BY <1>2, <2>1, <2>3, TakeIs DEF byte
  <2>5. a + 1 * c1 \in Nat /\ l - 1 * c1 \in Nat /\ (a + 1 * c1) % 2 = 0
    BY ONLY <2>1, <2>2
  <2> QED BY <2>4, <2>5, Zenon
<1>5. /\ Taken(half, addr, high) /\ half.addr \in Nat /\ half.left \in Nat /\ half.addr % 2 = 0
      /\ half.left > 1 => half.addr % 4 = 0
  <2>1. PICK a \in Nat, l \in Nat : a = byte.addr /\ l = byte.left /\ a % 2 = 0
    BY <1>4, Zenon
  <2>2. c2 = IF l > 1 /\ a % 4 >= 2 THEN 1 ELSE 0
    BY <2>1, Zenon
  <2> HIDE DEF c2
  <2>3. CanTake(a, l, 2, c2)
    BY ONLY <1>3, <2>1, <2>2 DEF CanTake
  <2>4. /\ Taken(half, addr, high) /\ half.addr = a + 2 * c2 /\ half.left = l - 2 * c2
    BY <1>4, <2>1, <2>3, TakeIs DEF half
  <2>5. /\ a + 2 * c2 \in Nat /\ l - 2 * c2 \in Nat /\ (a + 2 * c2) % 2 = 0
        /\ l - 2 * c2 > 1 => (a + 2 * c2) % 4 = 0
    <3>1. CASE c2 = 0
      <4>1. a + 2 * c2 = a /\ l - 2 * c2 = l
        BY ONLY <2>1, <3>1
      <4>2. l > 1 => a % 4 = 0
        BY ONLY <2>1, <2>2, <3>1
      <4> QED BY ONLY <2>1, <4>1, <4>2
    <3>2. CASE c2 = 1
      <4>1. l > 1 /\ a % 4 = 2
        BY ONLY <2>1, <2>2, <3>2
      <4>2. (a + 2) % 4 = 0 /\ (a + 2) % 2 = 0
        BY ONLY <2>1, <4>1
      <4> QED BY ONLY <2>1, <3>2, <4>1, <4>2
    <3>3. c2 = 0 \/ c2 = 1
      BY <2>2, Zenon
    <3> QED BY <3>1, <3>2, <3>3
  <2> QED BY <2>4, <2>5, Zenon
<1>6. /\ Taken(words, addr, high) /\ words.addr \in Nat /\ words.left \in 0..3 /\ words.addr % 2 = 0
  <2>1. PICK a \in Nat, l \in Nat : /\ a = half.addr /\ l = half.left /\ a % 2 = 0
                                    /\ l > 1 => a % 4 = 0
    BY <1>5, Zenon
  <2>2. c3 = l \div 4
    BY <2>1, Zenon
  <2> HIDE DEF c3
  <2>3. CanTake(a, l, 4, c3)
    BY ONLY <1>3, <2>1, <2>2 DEF CanTake
  <2>4. /\ Taken(words, addr, high) /\ words.addr = a + 4 * c3 /\ words.left = l - 4 * c3
    BY <1>5, <2>1, <2>3, TakeIs DEF words
  <2>5. /\ a + 4 * c3 \in Nat /\ l - 4 * c3 \in 0..3 /\ (a + 4 * c3) % 2 = 0
    <3>1. PICK q \in Nat : q = c3 /\ l - 4 * q \in 0..3
      BY ONLY <2>1, <2>2
    <3>2. PICK w \in Nat : a = 2 * w
      BY ONLY <2>1
    <3>3. PICK x \in Nat : x = w + 2 * q
      OBVIOUS
    <3>4. a + 4 * q = 2 * x /\ (2 * x) % 2 = 0
      BY ONLY <3>2, <3>3, w \in Nat, q \in Nat, x \in Nat
    <3> QED BY ONLY <3>1, <3>4, a \in Nat, q \in Nat
  <2> QED BY <2>4, <2>5, Zenon
<1>7. /\ Taken(half2, addr, high) /\ half2.addr \in Nat /\ half2.left \in 0..1
  <2>1. PICK a \in Nat, l \in 0..3 : a = words.addr /\ l = words.left /\ a % 2 = 0
    BY <1>6, Zenon
  <2>2. c4 = IF l > 1 THEN 1 ELSE 0
    BY <2>1, Zenon
  <2> HIDE DEF c4
  <2>3. CanTake(a, l, 2, c4)
    BY ONLY <1>3, <2>1, <2>2 DEF CanTake
  <2>4. /\ Taken(half2, addr, high) /\ half2.addr = a + 2 * c4 /\ half2.left = l - 2 * c4
    BY <1>6, <2>1, <2>3, TakeIs DEF half2
  <2>5. /\ a + 2 * c4 \in Nat /\ l - 2 * c4 \in 0..1
    BY ONLY <2>1, <2>2
  <2> QED BY <2>4, <2>5, Zenon
<1>8. Taken(byte2, addr, high) /\ byte2.addr \in Nat /\ byte2.left = 0
  <2>1. PICK a \in Nat, l \in 0..1 : a = half2.addr /\ l = half2.left
    BY <1>7, Zenon
  <2>2. c5 = IF l > 0 THEN 1 ELSE 0
    BY <2>1, Zenon
  <2> HIDE DEF c5
  <2>3. CanTake(a, l, 1, c5)
    BY ONLY <1>3, <2>1, <2>2 DEF CanTake
  <2>4. /\ Taken(byte2, addr, high) /\ byte2.addr = a + 1 * c5 /\ byte2.left = l - 1 * c5
    BY <1>7, <2>1, <2>3, TakeIs DEF byte2
  <2>5. /\ a + 1 * c5 \in Nat /\ l - 1 * c5 = 0
    BY ONLY <2>1, <2>2
  <2> QED BY <2>4, <2>5, Zenon
<1>9. byte2.addr = high
  <2>1. byte2.addr + byte2.left = high
    BY <1>8, Zenon DEF Taken
  <2> QED BY ONLY <1>8, <2>1
<1> QED BY <1>1, <1>8, <1>9, Zenon DEF Taken

\* The accesses of a request: from its first byte to its last, each byte once.
Request(ap, addr, length, write, high) ==
  /\ ap \in APs /\ addr \in Nat /\ length \in Nat \ {0} /\ write \in BOOLEAN
  /\ high = addr + length /\ addr..(high - 1) \subseteq Memory

\* The pieces of a block transfer it, each byte once.
LEMMA BlocksAre ==
  ASSUME NEW ap, NEW addr, NEW length, NEW write, NEW high, Request(ap, addr, length, write, high),
         NEW pieces, pieces = Pieces(addr, length),
         NEW s, s = [k \in DOMAIN pieces |-> Block(ap, pieces[k], write)]
  PROVE  IsList(FlattenSeq(s), ap, write, addr, high)
<1>1. /\ ap \in APs /\ addr \in Nat /\ length \in Nat \ {0} /\ write \in BOOLEAN
      /\ high = addr + length /\ addr..(high - 1) \subseteq Memory
  BY Zenon DEF Request
<1>2. Row(pieces, addr, high)
  BY <1>1, PiecesAre
<1>3. PICK b : Limits(pieces, b) /\ b[1] = addr /\ b[Len(pieces) + 1] = high
  BY <1>2, Zenon DEF Row
<1>4. PICK n \in Nat : n = Len(pieces) /\ DOMAIN pieces = 1..n
  <2>1. PICK T : T = [addr : Nat, size : Widths, count : Nat]
    OBVIOUS
  <2>2. pieces \in Seq(T)
    BY <1>2, <2>1, Zenon DEF Row
  <2> QED BY ONLY <2>2
<1>5. high \in Nat /\ addr < high
  BY ONLY <1>1
<1>6. n # 0
  <2>1. n = 0 => n + 1 = 1
    OBVIOUS
  <2>2. addr # high
    BY ONLY <1>1, <1>5
  <2> QED BY <1>3, <1>4, <2>1, <2>2, Zenon
<1>7. /\ b \in [1..n + 1 -> Nat] /\ b[1] = addr /\ b[n + 1] = high
      /\ \A i \in 1..n : /\ Aligned(pieces[i]) /\ pieces[i].addr = b[i]
                         /\ b[i + 1] = b[i] + pieces[i].size * pieces[i].count
  BY <1>3, <1>4, Zenon DEF Limits
<1>8. \A i \in 1..n : b[i] <= b[i + 1]
  <2> SUFFICES ASSUME NEW i \in 1..n PROVE b[i] <= b[i + 1]
    OBVIOUS
  <2>1. PICK size, count : size = pieces[i].size /\ count = pieces[i].count
    OBVIOUS
  <2>2. size \in Widths /\ count \in Nat /\ b[i + 1] = b[i] + size * count
    <3>1. size \in Widths /\ count \in Nat \ {0} /\ b[i + 1] = b[i] + size * count
      BY <1>7, <2>1, Zenon DEF Aligned
    <3> QED BY <3>1
  <2>3. b[i] \in Nat
    BY <1>7
  <2>4. size * count \in Nat
    BY <2>2 DEF Widths
  <2> QED BY ONLY <2>2, <2>3, <2>4
<1>9. \A i, j \in 1..n + 1 : i <= j => b[i] <= b[j]
  BY <1>7, <1>8, UpToSorted
<1>10. \A i \in 1..n : IsList(s[i], ap, write, b[i], b[i + 1])
  <2> SUFFICES ASSUME NEW i \in 1..n PROVE IsList(s[i], ap, write, b[i], b[i + 1])
    BY Zenon
  <2>1. PICK p : p = pieces[i]
    OBVIOUS
  <2>2. s[i] = Block(ap, p, write)
    BY <1>4, <2>1, Zenon
  <2>3. PICK lo \in Nat, hi \in Nat : lo = b[i] /\ hi = b[i + 1] /\ addr <= lo /\ hi <= high
    <3>1. i \in 1..n + 1 /\ i + 1 \in 1..n + 1 /\ 1 \in 1..n + 1 /\ n + 1 \in 1..n + 1
          /\ 1 <= i /\ i + 1 <= n + 1
      OBVIOUS
    <3>2. b[i] \in Nat /\ b[i + 1] \in Nat
      BY <1>7, <3>1
    <3>3. b[1] <= b[i] /\ b[i + 1] <= b[n + 1]
      BY <1>9, <3>1
    <3> QED BY <1>7, <3>2, <3>3, Zenon
  <2>4. lo..(hi - 1) \subseteq Memory
    <3>1. \A x \in lo..(hi - 1) : x \in addr..(high - 1)
      BY ONLY <1>1, <1>5, <2>3, lo \in Nat, hi \in Nat
    <3> QED BY <1>1, <3>1, Zenon
  <2>5. PieceOf(ap, p, write, hi)
    BY <1>1, <1>7, <2>1, <2>3, <2>4, Zenon DEF PieceOf
  <2>6. IsList(Block(ap, p, write), ap, write, p.addr, hi)
    BY ONLY <2>5, BlockIs
  <2>7. p.addr = lo
    BY <1>7, <2>1, <2>3, Zenon
  <2> QED BY <2>2, <2>3, <2>6, <2>7, Zenon
<1>11. s \in Seq(Seq(Accesses)) /\ Len(s) = n
  <2>1. \A k \in 1..n : s[k] \in Seq(Accesses)
    BY <1>10, Zenon DEF IsList, Lists, Parts
  <2>2. PICK f : f = [k \in 1..n |-> s[k]]
    OBVIOUS
  <2>3. s = f
    BY <1>4, <2>2
  <2>4. f \in Seq(Seq(Accesses)) /\ Len(f) = n
    BY ONLY <2>1, <2>2, n \in Nat
  <2> QED BY <2>3, <2>4, Zenon
<1>12. n \in Nat \ {0}
  BY <1>6
<1>13. AreLists(s, n, b, ap, write, addr, high)
  BY <1>7, <1>8, <1>10, <1>11, <1>12, Zenon DEF AreLists
<1> QED BY <1>1, <1>13, FlattenedLists

\* A read or write of memory, split into bytes, halfwords and words and cut at
\* the pages, transfers each byte it asks for once and upwards; each transfer
\* finds the size in CSW and the address in TAR that the call itself has set.
THEOREM RequestsTransferred ==
  ASSUME NEW r, NEW high, Request(r.ap, r.addr, r.length, r.write, high)
  PROVE  IsList(StepsOf(r), r.ap, r.write, r.addr, high)
<1>1. PICK ap, addr, length, write :
        ap = r.ap /\ addr = r.addr /\ length = r.length /\ write = r.write
  OBVIOUS
<1>2. PICK pieces : pieces = Pieces(addr, length)
  OBVIOUS
<1>3. PICK s : s = [k \in DOMAIN pieces |-> Block(ap, pieces[k], write)]
  OBVIOUS
<1>4. Request(ap, addr, length, write, high)
  BY <1>1, Zenon
<1>5. IsList(FlattenSeq(s), ap, write, addr, high)
  BY ONLY <1>2, <1>3, <1>4, BlocksAre
<1>6. StepsOf(r) = FlattenSeq(s)
  BY <1>1, <1>2, <1>3, Zenon DEF StepsOf
<1> QED BY <1>1, <1>5, <1>6, Zenon

-----------------------------------------------------------------------------
(* What callers start.                                                     *)

\* The steps of a call of an open session.
OpenCall(steps) ==
  /\ steps \in Seq(Accesses) /\ steps # << >> /\ SelfContained(steps)
  /\ \A k \in 1..Len(steps) :
       \/ steps[k].reg \in {"csw", "tar", "drw", "await", "idr", "result"}
       \/ Len(steps) = 1 /\ steps[k].reg \in {"flush", "clock", "close", "reset"}
NoWrites(steps) == \A k \in 1..Len(steps) : steps[k].reg = "drw" => ~steps[k].write

\* A part of a memory access is a call of an open session.
LEMMA PartIsCall ==
  ASSUME NEW ap, NEW write, NEW steps \in Parts(ap, write)
  PROVE  OpenCall(steps) /\ (~write => NoWrites(steps))
<1>1. /\ steps \in Seq(Accesses) /\ steps # << >> /\ SelfContained(steps)
      /\ \A e \in Range(steps) : CallStep(e, ap, write)
  BY Zenon DEF Parts
<1>2. \A k \in 1..Len(steps) : CallStep(steps[k], ap, write)
  <2>1. \A k \in 1..Len(steps) : steps[k] \in Range(steps)
    BY ONLY <1>1 DEF Range
  <2> QED BY <1>1, <2>1, Zenon
<1>3. \A k \in 1..Len(steps) : steps[k].reg \in {"csw", "tar", "drw", "await", "idr", "result"}
  BY <1>2 DEF CallStep
<1> QED BY <1>1, <1>2, <1>3, Zenon DEF OpenCall, NoWrites, CallStep

\* A call without transfers.
LEMMA OneStepIsCall ==
  ASSUME NEW e \in Accesses, e.reg \in {"flush", "clock", "close", "reset", "result"}
  PROVE  OpenCall(<<e>>) /\ NoWrites(<<e>>)
<1>1. PICK s : s = <<e>>
  OBVIOUS
<1>2. s \in Seq(Accesses) /\ Len(s) = 1 /\ s[1] = e
  BY ONLY <1>1, e \in Accesses
<1>3. s # << >>
  BY <1>2, NotEmpty
<1>4. \A k \in 1..Len(s) : s[k] = e
  BY <1>2
<1>5. e.reg # "drw"
  OBVIOUS
<1>6. SelfContained(s) /\ NoWrites(s)
  BY <1>4, <1>5, Zenon DEF SelfContained, NoWrites
<1>7. OpenCall(s)
  BY <1>2, <1>3, <1>4, <1>6, Zenon DEF OpenCall
<1> QED BY <1>1, <1>6, <1>7, Zenon

\* So is a read of IDR.
LEMMA IdrIsCall ==
  ASSUME NEW a \in APs
  PROVE  OpenCall(<<Idr(a), Await(a, FALSE)>>) /\ NoWrites(<<Idr(a), Await(a, FALSE)>>)
<1>1. PICK d, e : /\ d = Idr(a) /\ e = Await(a, FALSE)
                  /\ d \in Accesses /\ e \in Accesses /\ d.reg = "idr" /\ e.reg = "await"
  <2>1. FALSE \in BOOLEAN
    OBVIOUS
  <2> QED BY <2>1, SimpleSteps, Zenon
<1>2. PICK s : s = <<d, e>>
  OBVIOUS
<1>3. s \in Seq(Accesses) /\ Len(s) = 2 /\ s[1] = d /\ s[2] = e
  <2>1. d \in Accesses /\ e \in Accesses
    BY <1>1, Zenon
  <2> QED BY ONLY <1>2, <2>1
<1>4. s # << >>
  BY <1>3, NotEmpty
<1>5. \A k \in 1..Len(s) : s[k].reg \in {"idr", "await"}
  <2>1. s[1].reg = "idr" /\ s[2].reg = "await"
    BY <1>1, <1>3, Zenon
  <2>2. Len(s) = 2
    BY <1>3, Zenon
  <2>3. \A k \in 1..2 : k = 1 \/ k = 2
    OBVIOUS
  <2> QED BY <2>1, <2>2, <2>3, Zenon
<1>6. \A k \in 1..Len(s) : /\ s[k].reg # "drw"
                           /\ s[k].reg \in {"csw", "tar", "drw", "await", "idr", "result"}
  BY <1>5
<1>7. SelfContained(s) /\ NoWrites(s)
  BY <1>6, Zenon DEF SelfContained, NoWrites
<1>8. OpenCall(s)
  BY <1>3, <1>4, <1>6, <1>7, Zenon DEF OpenCall
<1> QED BY <1>1, <1>2, <1>7, <1>8, Zenon

\* The requests of callers.
LEMMA RequestsAre ==
  ASSUME Types, NEW r \in menu.requests
  PROVE  /\ Request(r.ap, r.addr, r.length, r.write, r.addr + r.length)
         /\ Possible(r.ap, r.addr, 1, FALSE)
<1>1. /\ r.ap \in APs /\ r.addr \in Nat /\ r.length \in Nat \ {0} /\ r.write \in BOOLEAN
      /\ (r.addr..(r.addr + r.length - 1)) \subseteq Memory
  <2>1. PICK m : m = menu
    OBVIOUS
  <2>2. m \in Menus /\ r \in m.requests
    BY <2>1, Zenon DEF Types
  <2> QED BY ONLY <2>2, AccessPortAssumption
<1>2. Request(r.ap, r.addr, r.length, r.write, r.addr + r.length)
  BY ONLY <1>1 DEF Request
<1>3. PICK addr \in Nat, length \in Nat \ {0} : addr = r.addr /\ length = r.length
  BY <1>1, Zenon
<1>4. /\ addr % 1 = 0 /\ 1 \in Widths /\ FALSE \in BOOLEAN
      /\ \A x \in addr..(addr + 1 - 1) : x \in addr..(addr + length - 1)
  BY DEF Widths
<1>5. addr..(addr + 1 - 1) \subseteq Memory
  BY <1>1, <1>3, <1>4, Zenon
<1>6. Possible(r.ap, r.addr, 1, FALSE)
  BY <1>1, <1>3, <1>4, <1>5, Zenon DEF Possible
<1> QED BY <1>2, <1>6

\* The calls of an open session other than reads and writes of memory.
OtherCalls ==
  \/ \E r \in menu.requests : ReadDeferred(r)
  \/ \E a \in APs : \/ OtherCall("idr", <<Idr(a), Await(a, FALSE)>>)
                    \/ OtherCall("deferred", <<Step("result", a, 0, 0, FALSE, TRUE)>>)
  \/ OtherCall("flush", <<Plain("flush")>>)
  \/ OtherCall("clock", <<Plain("clock")>>)
  \/ OtherCall("close", <<Plain("close")>>)

\* And so are the calls that do not access memory.
LEMMA OtherCallsAre ==
  ASSUME Types, OtherCalls
  PROVE  /\ \E name : \E steps : OtherCall(name, steps) /\ OpenCall(steps) /\ NoWrites(steps)
                                 /\ todo' = steps /\ (steps[1].reg # "reset")
<1>1. ASSUME NEW name, NEW steps, OtherCall(name, steps), OpenCall(steps), NoWrites(steps),
             steps[1].reg # "reset"
      PROVE  \E n : \E s : OtherCall(n, s) /\ OpenCall(s) /\ NoWrites(s)
                           /\ todo' = s /\ (s[1].reg # "reset")
  <2>1. todo' = steps
    BY <1>1, Zenon DEF OtherCall, Call
  <2> QED BY <1>1, <2>1, Zenon
<1>2. ASSUME NEW reg \in {"flush", "clock", "close"}
      PROVE  OpenCall(<<Plain(reg)>>) /\ NoWrites(<<Plain(reg)>>) /\ <<Plain(reg)>>[1].reg # "reset"
  <2>1. PICK e : e = Plain(reg)
    OBVIOUS
  <2>2. reg \in Registers \ {"csw", "drw", "select"}
    BY <1>2 DEF Registers
  <2>3. e \in Accesses /\ e.reg = reg
    BY <2>1, <2>2, SimpleSteps, Zenon
  <2>4. e.reg \in {"flush", "clock", "close", "reset", "result"} /\ e.reg # "reset"
    BY <1>2, <2>3
  <2>5. OpenCall(<<e>>) /\ NoWrites(<<e>>)
    BY <2>3, <2>4, OneStepIsCall
  <2>6. <<e>>[1] = e
    OBVIOUS
  <2> QED BY <2>1, <2>4, <2>5, <2>6, Zenon
<1>3. ASSUME NEW a \in APs, OtherCall("idr", <<Idr(a), Await(a, FALSE)>>)
      PROVE  \E n : \E s : OtherCall(n, s) /\ OpenCall(s) /\ NoWrites(s)
                           /\ todo' = s /\ (s[1].reg # "reset")
  <2>1. PICK s : s = <<Idr(a), Await(a, FALSE)>>
    OBVIOUS
  <2>2. OpenCall(s) /\ NoWrites(s)
    BY <2>1, IdrIsCall, Zenon
  <2>3. s[1].reg # "reset"
    <3>1. s[1] = Idr(a)
      BY <2>1
    <3>2. Idr(a).reg = "idr"
      BY SimpleSteps, Zenon
    <3> QED BY <3>1, <3>2
  <2> QED BY <1>1, <1>3, <2>1, <2>2, <2>3, Zenon
<1>4. ASSUME NEW a \in APs, OtherCall("deferred", <<Step("result", a, 0, 0, FALSE, TRUE)>>)
      PROVE  \E n : \E s : OtherCall(n, s) /\ OpenCall(s) /\ NoWrites(s)
                           /\ todo' = s /\ (s[1].reg # "reset")
  <2>1. PICK e : e = Step("result", a, 0, 0, FALSE, TRUE)
    OBVIOUS
  <2>2. TRUE \in BOOLEAN
    OBVIOUS
  <2>3. e \in Accesses /\ e.reg = "result"
    BY <2>1, <2>2, SimpleSteps, Zenon
  <2>4. e.reg \in {"flush", "clock", "close", "reset", "result"} /\ e.reg # "reset"
    BY <2>3
  <2>5. OpenCall(<<e>>) /\ NoWrites(<<e>>)
    BY <2>3, <2>4, OneStepIsCall
  <2>6. <<e>>[1] = e
    OBVIOUS
  <2> QED BY <1>1, <1>4, <2>1, <2>4, <2>5, <2>6, Zenon
<1>5. ASSUME NEW r \in menu.requests, ReadDeferred(r)
      PROVE  \E n : \E s : OtherCall(n, s) /\ OpenCall(s) /\ NoWrites(s)
                           /\ todo' = s /\ (s[1].reg # "reset")
  <2>1. PICK s : s = Front(Single(r.ap, r.addr, 1, FALSE))
    OBVIOUS
  <2>2. Possible(r.ap, r.addr, 1, FALSE)
    BY RequestsAre
  <2>3. s \in Parts(r.ap, FALSE)
    BY <2>1, <2>2, SingleIs
  <2>4. OpenCall(s) /\ NoWrites(s)
    BY <2>3, PartIsCall, Zenon
  <2>5. s[1].reg # "reset"
    <3>1. s \in Seq(Accesses) /\ s # << >> /\ \A e \in Range(s) : CallStep(e, r.ap, FALSE)
      BY <2>3, Zenon DEF Parts
    <3>2. s[1] \in Range(s)
      BY ONLY <3>1 DEF Range
    <3>3. s[1].reg \in {"csw", "tar", "drw", "await"}
      BY <3>1, <3>2, Zenon DEF CallStep
    <3> QED BY <3>3
  <2>6. OtherCall("deferred", s)
    BY <1>5, <2>1, Zenon DEF ReadDeferred
  <2> QED BY <1>1, <2>4, <2>5, <2>6, Zenon
<1>6. "flush" \in {"flush", "clock", "close"} /\ "clock" \in {"flush", "clock", "close"}
      /\ "close" \in {"flush", "clock", "close"}
  OBVIOUS
<1> QED BY <1>1, <1>2, <1>3, <1>4, <1>5, <1>6, Zenon DEF OtherCalls

\* An access to memory.
LEMMA AccessIs ==
  ASSUME Types, NEW r \in menu.requests, Access(r)
  PROVE  /\ IsList(todo', r.ap, r.write, r.addr, r.addr + r.length)
         /\ OpenCall(todo') /\ (~r.write => NoWrites(todo'))
<1>1. Request(r.ap, r.addr, r.length, r.write, r.addr + r.length)
  BY RequestsAre
<1>2. todo' = StepsOf(r)
  BY Zenon DEF Access, Call
<1>3. PICK s : s = StepsOf(r)
  OBVIOUS
<1>4. IsList(s, r.ap, r.write, r.addr, r.addr + r.length)
  BY <1>1, <1>3, RequestsTransferred
<1>5. s \in Parts(r.ap, r.write)
  BY <1>4, Zenon DEF IsList, Lists
<1>6. OpenCall(s) /\ (~r.write => NoWrites(s))
  BY <1>5, PartIsCall
<1>7. todo' = s
  BY <1>2, <1>3, Zenon
<1> QED BY <1>4, <1>6, <1>7, Zenon

\* A reset of the target is a call of one step.
LEMMA ResetIs ==
  ASSUME Reset
  PROVE  todo' = <<Plain("reset")>> /\ OpenCall(todo') /\ NoWrites(todo')
<1>1. PICK e : e = Plain("reset")
  OBVIOUS
<1>2. "reset" \in Registers \ {"csw", "drw", "select"}
  BY DEF Registers
<1>3. e \in Accesses /\ e.reg = "reset"
  BY <1>1, <1>2, SimpleSteps, Zenon
<1>4. e.reg \in {"flush", "clock", "close", "reset", "result"}
  BY <1>3
<1>5. OpenCall(<<e>>) /\ NoWrites(<<e>>)
  BY <1>3, <1>4, OneStepIsCall
<1>6. todo' = <<e>>
  BY <1>1, Zenon DEF Reset, Call
<1> QED BY <1>1, <1>5, <1>6, Zenon

\* A call starts with its transfers' registers to be set by itself.
LEMMA StartedCopies ==
  ASSUME Control, Copies, Open \/ Reset \/ OtherCalls \/ (\E r \in menu.requests : Access(r))
  PROVE  Copies'
<1>1. CASE Open
  <2>1. /\ todo' = Opening /\ csw' = [a \in APs |-> Unset] /\ queue' = queue /\ failure' = failure
        /\ wrong' = wrong /\ dpSelect' = dpSelect /\ lost' = lost /\ dropped' = dropped /\ hw' = hw
    BY <1>1, Zenon DEF Open, Call, history, target
  <2>2. SelfContained(Opening)
    <3>1. \A k \in 1..Len(Opening) : Opening[k].reg \in OpeningSteps
      BY OpeningIs
    <3>2. \A k \in 1..Len(Opening) : Opening[k].reg # "drw"
      BY <3>1 DEF OpeningSteps
    <3> QED BY <3>2, Zenon DEF SelfContained
  <2>3. SelfContained(todo')
    BY <2>1, <2>2, Zenon
  <2>4. dpSelect' \in {dpSelect, Unknown} /\ \A a \in APs : csw'[a] \in {csw[a], Unset}
    BY <2>1, Zenon
  <2> QED BY <2>1, <2>3, <2>4, CallCopies, Zenon DEF Control
<1>2. CASE Reset
  <2>1. /\ queue' = queue /\ failure' = failure
        /\ wrong' = wrong /\ dpSelect' = Unknown /\ lost' = lost /\ dropped' = dropped /\ hw' = hw
        /\ csw' = [a \in APs |-> IF a \in Registered THEN Unset ELSE csw[a]]
    BY <1>2, Zenon DEF Reset, history, target
  <2>2. dpSelect' \in {dpSelect, Unknown} /\ \A a \in APs : csw'[a] \in {csw[a], Unset}
    BY <2>1, Zenon
  <2>3. SelfContained(todo')
    BY <1>2, ResetIs, Zenon DEF OpenCall
  <2> QED BY <2>1, <2>2, <2>3, CallCopies, Zenon DEF Control
<1>3. CASE OtherCalls
  <2>1. PICK name, steps : OtherCall(name, steps) /\ OpenCall(steps) /\ todo' = steps
    BY <1>3, OtherCallsAre, Zenon DEF Control
  <2>2. /\ queue' = queue /\ failure' = failure /\ csw' = csw
        /\ wrong' = wrong /\ dpSelect' = dpSelect /\ lost' = lost /\ dropped' = dropped /\ hw' = hw
    BY <2>1, Zenon DEF OtherCall, history, target
  <2>3. dpSelect' \in {dpSelect, Unknown} /\ \A a \in APs : csw'[a] \in {csw[a], Unset}
    BY <2>2, Zenon
  <2>4. SelfContained(todo')
    BY <2>1, Zenon DEF OpenCall
  <2> QED BY <2>2, <2>3, <2>4, CallCopies, Zenon DEF Control
<1>4. ASSUME NEW r \in menu.requests, Access(r)
      PROVE  Copies'
  <2>1. /\ queue' = queue /\ failure' = failure /\ csw' = csw
        /\ wrong' = wrong /\ dpSelect' = dpSelect /\ lost' = lost /\ dropped' = dropped /\ hw' = hw
    BY <1>4, Zenon DEF Access, target
  <2>2. dpSelect' \in {dpSelect, Unknown} /\ \A a \in APs : csw'[a] \in {csw[a], Unset}
    BY <2>1, Zenon
  <2>3. SelfContained(todo')
    BY <1>4, AccessIs, Zenon DEF OpenCall, Control
  <2> QED BY <2>1, <2>2, <2>3, CallCopies, Zenon DEF Control
<1> QED BY <1>1, <1>2, <1>3, <1>4, Zenon

-----------------------------------------------------------------------------
(* Types, and the shape of calls.                                          *)
Failures == {NoError, "fault", "timeout", "error"}
HostTypes ==
  /\ menu \in Menus /\ phase \in {"closed", "opening", "open"}
  /\ dpSelect \in Selections /\ csw \in [APs -> Sizes]
  /\ failure \in Failures /\ failures \in 0..MaxFailures
CallTypes == todo \in Seq(Accesses) /\ \A k \in 1..Len(todo) : todo[k].reg # "select"
QueueTypes == queue \in Seq(Accesses) /\ Len(queue) <= MaxQueue
TargetTypes == hw \in HwType /\ mem \in [APs -> [Memory -> Nat]]
WantedTypes ==
  /\ wanted \in [APs -> [Memory -> Nat]]
  /\ \A a \in APs : \A b \in Memory : wanted[a][b] \in {Before(a, b), Stamp(a, b)}
HistoryTypes == reading \in ReadingType /\ spoilt \subseteq APs \X Memory /\ WantedTypes

\* The types, part by part.
LEMMA TypesAre ==
  ASSUME Types
  PROVE  HostTypes /\ CallTypes /\ QueueTypes /\ TargetTypes /\ HistoryTypes
<1>1. HostTypes
  BY DEF Types, TypeOK, HostTypes, Selections, Sizes, Unset, Failures
<1>2. CallTypes /\ QueueTypes
  BY Zenon DEF Types, TypeOK, CallTypes, QueueTypes
<1>3. TargetTypes
  BY Zenon DEF Types, TargetTypes
<1>4. HistoryTypes
  BY Zenon DEF Types, TypeOK, HistoryTypes, WantedTypes
<1> QED BY <1>1, <1>2, <1>3, <1>4

\* The types of all variables, from those of the groups.
LEMMA TypesHold ==
  ASSUME HostTypes', CallTypes', QueueTypes', TargetTypes', HistoryTypes'
  PROVE  Types'
<1>1. /\ phase' \in {"closed", "opening", "open"}
      /\ dpSelect' \in (APs \X {0, 15}) \cup {Unknown} /\ csw' \in [APs -> {Unset, 1, 2, 4}]
      /\ failure' \in {NoError, "fault", "timeout", "error"} /\ failures' \in 0..MaxFailures
  BY DEF HostTypes, Selections, Sizes, Unset, Failures
<1>2. /\ hw'.select \in (APs \X {0, 15}) \cup {Unknown} /\ hw'.csw \in [APs -> {Unset, 1, 2, 4}]
      /\ hw'.power \in {"off", "asked", "on"} /\ hw'.sticky \in BOOLEAN
  BY DEF TargetTypes, HwType, Selections, Sizes, Unset
<1>3. /\ spoilt' \subseteq APs \X Memory
      /\ \A a \in APs : \A b \in Memory : wanted'[a][b] \in {Before(a, b), Stamp(a, b)}
  BY Zenon DEF HistoryTypes, WantedTypes
<1>4. Len(queue') <= MaxQueue
  BY Zenon DEF QueueTypes
<1>5. TypeOK'
  BY <1>1, <1>2, <1>3, <1>4, Zenon DEF TypeOK
<1> QED BY <1>5, Zenon DEF Types, HostTypes, CallTypes, QueueTypes, TargetTypes, HistoryTypes, WantedTypes

\* When no read is in progress.
LEMMA NoReadingType == NoReading \in ReadingType /\ NoReading.length = 0
<1>1. PICK t \in BOOLEAN : t = TRUE
  OBVIOUS
<1>2. PICK o : o = NoReading
  OBVIOUS
<1>3. o = [ap |-> 0, addr |-> 0, length |-> 0, skip |-> 0, got |-> << >>, sound |-> t]
  BY <1>1, <1>2, Zenon DEF NoReading
<1>4. o \in ReadingType /\ o.length = 0
  BY <1>3, AccessPortAssumption DEF ReadingType
<1> QED BY <1>2, <1>4, Zenon

\* A call goes on, or ends.
LEMMA CallTypesGoOn ==
  ASSUME Types, todo # << >>, todo' \in {todo, Tail(todo), << >>}
  PROVE  CallTypes'
<1>1. CASE todo' = todo
  BY <1>1, TypesAre, Zenon DEF CallTypes
<1>2. CASE todo' = Tail(todo)
  <2>1. todo' \in Seq(Accesses) /\ \A k \in 1..Len(todo') : todo'[k].reg # "select"
    BY <1>2, RestOfCall
  <2> QED BY <2>1, Zenon DEF CallTypes
<1>3. CASE todo' = << >>
  <2>1. todo' \in Seq(Accesses) /\ 1..Len(todo') = {}
    BY <1>3
  <2> QED BY <2>1, Zenon DEF CallTypes
<1> QED BY <1>1, <1>2, <1>3

\* An access more, or less.
LEMMA QueueTypesMore ==
  ASSUME Types, NEW e \in Accesses, Len(queue) < MaxQueue, queue' = Append(queue, e)
  PROVE  QueueTypes' /\ ((\E k \in 1..Len(queue') : IsAccess(queue'[k])) =>
                           (\E k \in 1..Len(queue) : IsAccess(queue[k])) \/ IsAccess(e))
<1>1. queue \in Seq(Accesses) /\ MaxQueue \in Nat
  BY AccessPortAssumption DEF Types
<1>2. queue' \in Seq(Accesses) /\ Len(queue') = Len(queue) + 1
      /\ \A k \in 1..Len(queue') : IF k = Len(queue) + 1 THEN queue'[k] = e ELSE queue'[k] = queue[k]
  BY ONLY <1>1, queue' = Append(queue, e), e \in Accesses
<1>3. Len(queue') <= MaxQueue
  BY <1>1, <1>2
<1>4. \A k \in 1..Len(queue') : k = Len(queue) + 1 \/ k \in 1..Len(queue)
  BY <1>1, <1>2
<1>5. ASSUME NEW k \in 1..Len(queue'), IsAccess(queue'[k])
      PROVE  (\E i \in 1..Len(queue) : IsAccess(queue[i])) \/ IsAccess(e)
  <2>1. CASE k = Len(queue) + 1
    BY <1>2, <1>5, <2>1, Zenon
  <2>2. CASE k # Len(queue) + 1
    BY <1>2, <1>4, <1>5, <2>2, Zenon
  <2> QED BY <2>1, <2>2
<1> QED BY <1>2, <1>3, <1>5, Zenon DEF QueueTypes

\* The queue without its first access.
LEMMA QueueTypesLess ==
  ASSUME Types, queue # << >>, queue' = Tail(queue)
  PROVE  QueueTypes' /\ \A k \in 1..Len(queue') : queue'[k] = queue[k + 1] /\ k + 1 \in 1..Len(queue)
<1>1. queue \in Seq(Accesses) /\ MaxQueue \in Nat /\ Len(queue) <= MaxQueue
  BY AccessPortAssumption DEF Types, TypeOK
<1>2. /\ queue' \in Seq(Accesses) /\ Len(queue') = Len(queue) - 1 /\ Len(queue) \in Nat
      /\ \A k \in 1..Len(queue) - 1 : queue'[k] = queue[k + 1]
  BY <1>1, DropHead
<1>3. Len(queue') <= MaxQueue /\ \A k \in 1..Len(queue') : k + 1 \in 1..Len(queue)
  BY <1>1, <1>2
<1> QED BY <1>2, <1>3, Zenon DEF QueueTypes

\* A call begins in an open session.
LEMMA OpenCallControl ==
  ASSUME Control, phase = "open", phase' = "open", menu' = menu, OpenCall(todo'),
         UNCHANGED <<queue, failure, hw, mem, dropped, failures>>,
         dpSelect' \in {dpSelect, Unknown}, csw' \in [APs -> Sizes],
         todo'[1].reg = "reset" => \A a \in Registered : csw'[a] = Unset,
         HistoryTypes'
  PROVE  Control'
<1>1. HostTypes /\ CallTypes /\ QueueTypes /\ TargetTypes /\ HistoryTypes
  BY TypesAre DEF Control
<1>2. HostTypes'
  BY <1>1 DEF HostTypes, Selections
<1>3. CallTypes'
  <2>1. todo' \in Seq(Accesses)
    BY Zenon DEF OpenCall
  <2>2. \A k \in 1..Len(todo') : todo'[k].reg # "select"
    BY DEF OpenCall
  <2> QED BY <2>1, <2>2, Zenon DEF CallTypes
<1>4. QueueTypes' /\ TargetTypes'
  BY <1>1, Zenon DEF QueueTypes, TargetTypes
<1>5. Types'
  BY <1>2, <1>3, <1>4, TypesHold
<1>6. Shape'
  <2>1. \A k \in 1..Len(todo') : /\ todo'[k].reg \notin OpeningSteps \ {"idr", "await"}
                                 /\ todo'[k].reg # "idcode"
                                 /\ todo'[k].reg \in {"clock", "reset", "close", "flush"} => Len(todo') = 1
    BY DEF OpenCall, OpeningSteps
  <2>2. At("reset")' => \A a \in Registered : csw'[a] = Unset
    <3>1. Head(todo') = todo'[1]
      <4>1. todo' \in Seq(Accesses) /\ todo' # << >>
        BY Zenon DEF OpenCall
      <4> QED BY ONLY <4>1
    <3> QED BY <3>1, Zenon DEF At
  <2>3. phase' # "closed" /\ phase' # "opening"
    OBVIOUS
  <2> QED BY <2>1, <2>2, <2>3, Zenon DEF Shape
<1>7. NothingDropped'
  BY Zenon DEF NothingDropped, Control
<1>8. Powered'
  <2>1. hw.power = "on"
    BY Zenon DEF Powered, Control
  <2> QED BY <2>1, Zenon DEF Powered
<1> QED BY <1>5, <1>6, <1>7, <1>8 DEF Control

\* The reads among the first accesses of a list are so many.
LEMMA ReadsCounted ==
  ASSUME NEW s, NEW m \in Nat
  PROVE  /\ IsFiniteSet({i \in 1..m : IsRead(s[i])})
         /\ Cardinality({i \in 1..m : IsRead(s[i])}) \in Nat
<1>1. IsFiniteSet(1..m)
  <2>1. 1 \in Int /\ m \in Int
    OBVIOUS
  <2> QED BY <2>1, FS_Interval
<1>2. {i \in 1..m : IsRead(s[i])} \in SUBSET (1..m)
  BY Zenon
<1>3. IsFiniteSet({i \in 1..m : IsRead(s[i])})
  BY <1>1, <1>2, FS_Subset
<1> QED BY <1>3, FS_CardinalityType

\* The reads among the first accesses of a list, without its head.
LEMMA ReadsCountedLess ==
  ASSUME NEW S, NEW s \in Seq(S), s # << >>, NEW m \in 1..Len(s)
  PROVE  Cardinality({i \in 1..m : IsRead(s[i])})
           = Cardinality({i \in 1..m - 1 : IsRead(Tail(s)[i])}) + IF IsRead(s[1]) THEN 1 ELSE 0
<1>1. PICK A, B : /\ A = {i \in 1..m : IsRead(s[i])}
                  /\ B = {i \in 1..m - 1 : IsRead(Tail(s)[i])}
  OBVIOUS
<1>2. m \in Nat /\ m - 1 \in Nat /\ 1 \in 1..m
  OBVIOUS
<1>3. IsFiniteSet(A) /\ Cardinality(A) \in Nat /\ IsFiniteSet(B) /\ Cardinality(B) \in Nat
  BY <1>1, <1>2, ReadsCounted
<1>4. \A i \in 1..m - 1 : Tail(s)[i] = s[i + 1]
  <2>1. \A i \in 1..Len(s) - 1 : Tail(s)[i] = s[i + 1]
    BY DropHead
  <2>2. \A i \in 1..m - 1 : i \in 1..Len(s) - 1
    OBVIOUS
  <2> QED BY <2>1, <2>2, Zenon
<1>5. \A i \in 1..m - 1 : i + 1 \in 1..m /\ i + 1 # 1
  OBVIOUS
<1>6. \A j \in 1..m : j # 1 => j - 1 \in 1..m - 1 /\ (j - 1) + 1 = j
  OBVIOUS
<1>7. PICK f : f = [i \in B |-> i + 1]
  OBVIOUS
<1>8. \A i \in B : i \in 1..m - 1 /\ f[i] = i + 1 /\ f[i] \in A \ {1}
  <2>1. \A i \in B : i \in 1..m - 1 /\ f[i] = i + 1 /\ IsRead(s[i + 1])
    BY <1>1, <1>4, <1>7, Zenon
  <2> QED BY <1>1, <1>5, <2>1, Zenon
<1>9. \A j \in A \ {1} : \E i \in B : f[i] = j
  <2> SUFFICES ASSUME NEW j \in A \ {1} PROVE \E i \in B : f[i] = j
    BY Zenon
  <2>1. j \in 1..m /\ IsRead(s[j]) /\ j # 1
    BY <1>1, Zenon
  <2>2. PICK i : i = j - 1
    OBVIOUS
  <2>3. i \in 1..m - 1 /\ i + 1 = j
    BY <1>6, <2>1, <2>2, Zenon
  <2>4. i \in B
    BY <1>1, <1>4, <2>1, <2>3, Zenon
  <2> QED BY <1>8, <2>3, <2>4, Zenon
<1>10. f \in [B -> A \ {1}]
  BY <1>7, <1>8, Zenon
<1>11. \A i, j \in B : f[i] = f[j] => i = j
  <2>1. \A i, j \in 1..m - 1 : i + 1 = j + 1 => i = j
    OBVIOUS
  <2> QED BY <1>8, <2>1, Zenon
<1>12. f \in Bijection(B, A \ {1})
  <2>1. f \in Injection(B, A \ {1})
    <3>1. DOMAIN f = B
      BY <1>7, Zenon
    <3>2. IsInjective(f)
      BY <1>11, <3>1, Zenon DEF IsInjective
    <3> QED BY <1>10, <3>2, Zenon DEF Injection
  <2>2. f \in Surjection(B, A \ {1})
    BY <1>9, <1>10, Zenon DEF Surjection
  <2> QED BY <2>1, <2>2, Zenon DEF Bijection
<1>13. ExistsBijection(B, A \ {1})
  BY <1>12, Zenon DEF ExistsBijection
<1>14. Cardinality(A \ {1}) = Cardinality(B)
  BY <1>3, <1>13, FS_Bijection
<1>15. Cardinality(A \ {1}) = IF 1 \in A THEN Cardinality(A) - 1 ELSE Cardinality(A)
  BY <1>3, FS_RemoveElement
<1>16. 1 \in A <=> IsRead(s[1])
  BY <1>1, <1>2, Zenon
<1>17. Cardinality(A) = Cardinality(B) + IF IsRead(s[1]) THEN 1 ELSE 0
  <2>1. CASE IsRead(s[1])
    BY <1>3, <1>14, <1>15, <1>16, <2>1
  <2>2. CASE ~IsRead(s[1])
    BY <1>3, <1>14, <1>15, <1>16, <2>2
  <2> QED BY <2>1, <2>2
<1> QED BY <1>1, <1>17, Zenon

\* A write: its bytes are wanted, and as good as new.
LEMMA WriteBegins ==
  ASSUME Types, NEW r \in menu.requests, Access(r), r.write
  PROVE  /\ WantedTypes' /\ spoilt' = spoilt \ ({r.ap} \X (r.addr..(r.addr + r.length - 1)))
         /\ reading' = reading
         /\ \A a \in APs, b \in Memory :
              wanted'[a][b] = IF a = r.ap /\ b \in r.addr..(r.addr + r.length - 1)
                                THEN Stamp(a, b) ELSE wanted[a][b]
<1>1. PICK ap, range : ap = r.ap /\ range = r.addr..(r.addr + r.length - 1)
  OBVIOUS
<1>2. /\ wanted' = [wanted EXCEPT ![ap] =
                      [b \in Memory |-> IF b \in range THEN Stamp(ap, b) ELSE @[b]]]
      /\ spoilt' = spoilt \ {<<ap, b>> : b \in range} /\ reading' = reading
  BY <1>1, Zenon DEF Access
<1>3. ap \in APs
  BY <1>1, RequestsAre, Zenon DEF Request
<1>4. /\ wanted \in [APs -> [Memory -> Nat]]
      /\ \A a \in APs : \A b \in Memory : wanted[a][b] \in {Before(a, b), Stamp(a, b)}
  BY TypesAre, Zenon DEF HistoryTypes, WantedTypes
<1>5. \A b \in Memory : Stamp(ap, b) \in Nat
  <2>1. ap \in Nat /\ Memory \subseteq Nat
    BY <1>3, AccessPortAssumption
  <2> QED BY <2>1 DEF Stamp
<1>6. PICK w : w = wanted'
  OBVIOUS
<1>7. /\ w \in [APs -> [Memory -> Nat]]
      /\ \A a \in APs, b \in Memory :
           w[a][b] = IF a = ap /\ b \in range THEN Stamp(a, b) ELSE wanted[a][b]
  <2>1. PICK row : row = [b \in Memory |-> IF b \in range THEN Stamp(ap, b) ELSE wanted[ap][b]]
    OBVIOUS
  <2>2. w = [wanted EXCEPT ![ap] = row]
    BY <1>2, <1>6, <2>1, Zenon
  <2>3. row \in [Memory -> Nat]
    <3>1. \A b \in Memory : wanted[ap][b] \in Nat
      BY <1>3, <1>4
    <3> QED BY <1>5, <2>1, <3>1
  <2>4. w \in [APs -> [Memory -> Nat]] /\ \A a \in APs : w[a] = IF a = ap THEN row ELSE wanted[a]
    BY ONLY <1>3, <1>4, <2>2, <2>3
  <2> QED BY <1>3, <2>1, <2>4, Zenon
<1>8. \A a \in APs : \A b \in Memory : w[a][b] \in {Before(a, b), Stamp(a, b)}
  BY <1>4, <1>7, Zenon
<1>9. {<<ap, b>> : b \in range} = {ap} \X range
  OBVIOUS
<1>10. WantedTypes'
  BY <1>6, <1>7, <1>8, Zenon DEF WantedTypes
<1>11. \A a \in APs, b \in Memory :
         wanted'[a][b] = IF a = r.ap /\ b \in r.addr..(r.addr + r.length - 1)
                           THEN Stamp(a, b) ELSE wanted[a][b]
  BY <1>1, <1>6, <1>7, Zenon
<1>12. spoilt' = spoilt \ ({r.ap} \X (r.addr..(r.addr + r.length - 1))) /\ reading' = reading
  <2>1. spoilt' = spoilt \ ({ap} \X range) /\ reading' = reading
    BY <1>2, <1>9, Zenon
  <2> QED BY ONLY <1>1, <2>1
<1> QED BY <1>10, <1>11, <1>12

\* A read: nothing of it is there yet, and the reads in the queue are skipped.
LEMMA ReadBegins ==
  ASSUME Types, NEW r \in menu.requests, Access(r), ~r.write
  PROVE  /\ reading' \in ReadingType /\ UNCHANGED <<wanted, spoilt>>
         /\ reading'.ap = r.ap /\ reading'.addr = r.addr /\ reading'.length = r.length
         /\ reading'.skip = Cardinality({i \in 1..Len(queue) : IsRead(queue[i])})
         /\ reading'.got = << >>
<1>1. PICK c : c = Cardinality({i \in 1..Len(queue) : IsRead(queue[i])})
  OBVIOUS
<1>2. DOMAIN queue = 1..Len(queue) /\ Len(queue) \in Nat
  BY DEF Types
<1>3. c \in Nat
  BY <1>1, <1>2, ReadsCounted
<1>4. /\ reading' = [NoReading EXCEPT !.ap = r.ap, !.addr = r.addr, !.length = r.length, !.skip = c]
      /\ UNCHANGED <<wanted, spoilt>>
  BY <1>1, <1>2, Zenon DEF Access
<1>5. r.ap \in APs /\ r.addr \in Nat /\ r.length \in Nat
  <2>1. r.ap \in APs /\ r.addr \in Nat /\ r.length \in Nat \ {0}
    BY RequestsAre, Zenon DEF Request
  <2> QED BY <2>1
<1>6. PICK ap \in APs, addr \in Nat, length \in Nat : ap = r.ap /\ addr = r.addr /\ length = r.length
  BY <1>5, Zenon
<1>7. PICK g : g = [NoReading EXCEPT !.ap = ap, !.addr = addr, !.length = length, !.skip = c]
  OBVIOUS
<1>8. g \in ReadingType /\ g.ap = ap /\ g.addr = addr /\ g.length = length /\ g.skip = c /\ g.got = << >>
  <2>1. PICK t \in BOOLEAN : t = TRUE
    OBVIOUS
  <2>2. PICK none \in Seq(Nat) : none = << >>
    <3>1. << >> \in Seq(Nat)
      OBVIOUS
    <3> QED BY <3>1, Zenon
  <2>3. PICK o : o = NoReading
    OBVIOUS
  <2>4. o = [ap |-> 0, addr |-> 0, length |-> 0, skip |-> 0, got |-> none, sound |-> t]
    BY <2>1, <2>2, <2>3, Zenon DEF NoReading
  <2>5. g = [o EXCEPT !.ap = ap, !.addr = addr, !.length = length, !.skip = c]
    BY <1>7, <2>3, Zenon
  <2>6. g = [ap |-> ap, addr |-> addr, length |-> length, skip |-> c, got |-> none, sound |-> t]
    BY ONLY <2>4, <2>5
  <2>7. /\ g \in ReadingType /\ g.ap = ap /\ g.addr = addr /\ g.length = length /\ g.skip = c
        /\ g.got = none
    BY ONLY <1>3, <2>6, ap \in APs, addr \in Nat, length \in Nat, none \in Seq(Nat), t \in BOOLEAN
       DEF ReadingType
  <2> QED BY <2>2, <2>7, Zenon
<1> QED BY <1>1, <1>4, <1>6, <1>7, <1>8, Zenon

\* A call that starts is of the shape calls have.
LEMMA StartedControl ==
  ASSUME Control, Open \/ Reset \/ OtherCalls \/ (\E r \in menu.requests : Access(r))
  PROVE  Control'
<1>1. /\ Types /\ Shape /\ HostTypes /\ CallTypes /\ QueueTypes /\ TargetTypes /\ HistoryTypes
      /\ csw \in [APs -> Sizes]
  BY TypesAre, Zenon DEF Control, HostTypes
<1>2. ASSUME UNCHANGED <<reading, spoilt, wanted>>
      PROVE  HistoryTypes'
  BY <1>1, <1>2, Zenon DEF HistoryTypes, WantedTypes
<1>3. CASE Open
  <2>1. /\ phase = "closed" /\ todo = << >> /\ phase' = "opening" /\ todo' = Opening
        /\ csw' = [a \in APs |-> Unset]
        /\ UNCHANGED <<menu, dpSelect, queue, failure, hw, mem, dropped, failures>>
        /\ UNCHANGED <<reading, spoilt, wanted>>
    BY <1>3, Zenon DEF Open, Call, history, target
  <2>2. csw' \in [APs -> Sizes]
    BY <2>1 DEF Unset, Sizes
  <2>3. HostTypes'
    <3>1. phase' \in {"closed", "opening", "open"}
      BY <2>1
    <3> QED BY <1>1, <2>1, <2>2, <3>1, Zenon DEF HostTypes
  <2>4. CallTypes'
    <3>1. \A k \in 1..10 : Opening[k].reg # "select"
      BY OpeningIs DEF OpeningSteps
    <3> QED BY <2>1, <3>1, OpeningIs, Zenon DEF CallTypes
  <2>5. QueueTypes' /\ TargetTypes' /\ HistoryTypes'
    BY <1>1, <1>2, <2>1, Zenon DEF QueueTypes, TargetTypes
  <2>6. Types'
    BY <2>3, <2>4, <2>5, TypesHold
  <2>7. Shape'
    <3>1. /\ phase' # "closed" /\ phase' # "open"
      BY <2>1
    <3>2. \A k \in 1..Len(todo') :
            /\ todo'[k].reg \in OpeningSteps
            /\ todo'[k].reg = "idcode" => k < Len(todo') /\ todo'[k + 1].reg = "idcode2"
      <4>1. \A k \in 1..10 : Opening[k].reg = "idcode" => k < 10 /\ Opening[k + 1].reg = "idcode2"
        BY OpeningIs
      <4> QED BY <2>1, <4>1, OpeningIs, Zenon
    <3>3. \A k \in 1..Len(todo') : todo'[k].reg \notin {"clock", "reset", "close", "flush"}
      BY <3>2 DEF OpeningSteps
    <3>4. ~At("reset")'
      <4>1. Head(todo') = todo'[1] /\ 1 \in 1..Len(todo')
        <5>1. PICK s : s = todo'
          OBVIOUS
        <5>2. s \in Seq(Accesses) /\ Len(s) = 10
          BY <2>1, <5>1, OpeningIs, Zenon
        <5>3. Head(s) = s[1] /\ 1 \in 1..Len(s)
          BY ONLY <5>2
        <5> QED BY <5>1, <5>3, Zenon
      <4>2. Head(todo').reg \notin {"clock", "reset", "close", "flush"}
        BY <3>3, <4>1, Zenon
      <4>3. Head(todo').reg # "reset"
        BY <4>2
      <4> QED BY <4>3, Zenon DEF At
    <3> QED BY <2>1, <3>1, <3>2, <3>3, <3>4, Zenon DEF Shape
  <2>8. NothingDropped'
    BY <2>1, Zenon DEF NothingDropped, Control
  <2>9. Powered'
    <3>1. phase' # "open"
      BY <2>1
    <3>2. \A k \in 1..10 : IsAccess(Opening[k]) \/ Opening[k].reg = "await" =>
                             \E j \in 1..k - 1 : Opening[j].reg = "poll"
      <4>1. \A k \in 1..10 : IsAccess(Opening[k]) \/ Opening[k].reg = "await" => k > 7
        BY OpeningIs DEF OpeningSteps, IsAccess
      <4>2. \A k \in 1..10 : k > 7 => 7 \in 1..k - 1
        OBVIOUS
      <4> QED BY <4>1, <4>2, OpeningIs, Zenon
    <3>3. \A k \in 1..Len(todo') : IsAccess(todo'[k]) \/ todo'[k].reg = "await" =>
                                    \E j \in 1..k - 1 : todo'[j].reg = "poll"
      BY <2>1, <3>2, OpeningIs, Zenon
    <3>4. (\E k \in 1..Len(queue') : IsAccess(queue'[k])) => hw'.power = "on"
      BY <2>1, Zenon DEF Powered, Control
    <3> QED BY <3>1, <3>3, <3>4, Zenon DEF Powered, IsAccess
  <2> QED BY <2>6, <2>7, <2>8, <2>9, Zenon DEF Control
<1>4. CASE Reset
  <2>1. /\ phase = "open" /\ phase' = phase /\ menu' = menu
        /\ UNCHANGED <<queue, failure, hw, mem, dropped, failures>>
        /\ UNCHANGED <<reading, spoilt, wanted>> /\ dpSelect' = Unknown
        /\ csw' = [a \in APs |-> IF a \in Registered THEN Unset ELSE csw[a]]
    BY <1>4, Zenon DEF Reset, history, target
  <2>2. csw' \in [APs -> Sizes] /\ \A a \in Registered : csw'[a] = Unset
    <3>1. Unset \in Sizes /\ Registered \subseteq APs
      BY AccessPortAssumption DEF Unset, Sizes
    <3> QED BY <1>1, <2>1, <3>1
  <2>3. OpenCall(todo')
    BY <1>4, ResetIs
  <2>4. dpSelect' \in {dpSelect, Unknown}
    BY <2>1, Zenon
  <2> QED BY <1>2, <2>1, <2>2, <2>3, <2>4, OpenCallControl, Zenon
<1>5. CASE OtherCalls
  <2>1. PICK name, steps : /\ OtherCall(name, steps) /\ OpenCall(steps) /\ todo' = steps
                           /\ steps[1].reg # "reset"
    BY <1>1, <1>5, OtherCallsAre, Zenon
  <2>2. /\ phase = "open" /\ phase' = phase /\ menu' = menu
        /\ UNCHANGED <<queue, failure, hw, mem, dropped, failures>>
        /\ UNCHANGED <<reading, spoilt, wanted>> /\ dpSelect' = dpSelect /\ csw' = csw
    BY <2>1, Zenon DEF OtherCall, history, target
  <2>3. OpenCall(todo') /\ todo'[1].reg # "reset" /\ dpSelect' \in {dpSelect, Unknown}
        /\ csw' \in [APs -> Sizes]
    BY <1>1, <2>1, <2>2, Zenon
  <2> QED BY <1>2, <2>2, <2>3, OpenCallControl, Zenon
<1>6. ASSUME NEW r \in menu.requests, Access(r)
      PROVE  Control'
  <2>1. /\ phase = "open" /\ phase' = phase /\ menu' = menu
        /\ UNCHANGED <<queue, failure, hw, mem, dropped, failures>>
        /\ dpSelect' = dpSelect /\ csw' = csw
    BY <1>6, Zenon DEF Access, target
  <2>2. OpenCall(todo') /\ IsList(todo', r.ap, r.write, r.addr, r.addr + r.length)
    BY <1>1, <1>6, AccessIs
  <2>3. todo'[1].reg # "reset"
    <3>1. PICK s : s = todo'
      OBVIOUS
    <3>2. s \in Seq(Accesses) /\ s # << >> /\ \A e \in Range(s) : CallStep(e, r.ap, r.write)
      BY <2>2, <3>1, Zenon DEF IsList, Lists, Parts
    <3>3. s[1] \in Range(s)
      BY ONLY <3>2 DEF Range
    <3>4. s[1].reg \in {"csw", "tar", "drw", "await"}
      BY <3>2, <3>3, Zenon DEF CallStep
    <3> QED BY <3>1, <3>4
  <2>4. HistoryTypes'
    <3>1. CASE r.write
      <4>1. WantedTypes' /\ spoilt' \subseteq spoilt /\ reading' = reading
        BY <1>1, <1>6, <3>1, WriteBegins
      <4> QED BY <1>1, <4>1, Zenon DEF HistoryTypes
    <3>2. CASE ~r.write
      <4>1. reading' \in ReadingType /\ UNCHANGED <<wanted, spoilt>>
        BY <1>1, <1>6, <3>2, ReadBegins
      <4> QED BY <1>1, <4>1, Zenon DEF HistoryTypes, WantedTypes
    <3> QED BY <3>1, <3>2
  <2>5. dpSelect' \in {dpSelect, Unknown} /\ csw' \in [APs -> Sizes]
    BY <1>1, <2>1, Zenon
  <2> QED BY <2>1, <2>2, <2>3, <2>4, <2>5, OpenCallControl, Zenon
<1> QED BY <1>3, <1>4, <1>5, <1>6, Zenon

\* The steps of a call, one by one, keep types and shape.
LEMMA IssueSelectControl ==
  ASSUME Control, IssueSelect
  PROVE  Control'
<1>1. /\ Types /\ todo # << >> /\ IsAccess(Step1)
      /\ HostTypes /\ CallTypes /\ TargetTypes /\ HistoryTypes
  BY TypesAre, Zenon DEF Control, IssueSelect
<1>2. PICK e : e = Step("select", Step1.ap, BankOf(Step1), 0, TRUE, FALSE)
  OBVIOUS
<1>3. Step1 \in Accesses /\ Step1.ap \in APs
  BY <1>1, RestOfCall, AccessHasType
<1>4. e \in Accesses /\ e.reg = "select"
  BY <1>2, <1>3, QueuedSelect
<1>5. /\ UNCHANGED <<menu, phase, todo, csw, failure, failures, hw, mem, dropped>>
      /\ UNCHANGED <<reading, spoilt, wanted>> /\ dpSelect' = <<Step1.ap, BankOf(Step1)>>
      /\ queue' = Append(queue, e) /\ Len(queue) < MaxQueue
  BY <1>2, Zenon DEF IssueSelect, Enqueue, history, target, counters
<1>6. QueueTypes' /\ ((\E k \in 1..Len(queue') : IsAccess(queue'[k])) =>
                        (\E k \in 1..Len(queue) : IsAccess(queue[k])) \/ IsAccess(e))
  BY <1>1, <1>4, <1>5, QueueTypesMore
<1>7. ~IsAccess(e)
  BY <1>4 DEF IsAccess
<1>8. dpSelect' \in Selections
  <2>1. BankOf(Step1) \in {0, 15}
    BY DEF BankOf
  <2> QED BY <1>3, <1>5, <2>1 DEF Selections
<1>9. Types'
  <2>1. HostTypes' /\ CallTypes' /\ TargetTypes' /\ HistoryTypes'
    BY <1>1, <1>5, <1>8, Zenon DEF HostTypes, CallTypes, TargetTypes, HistoryTypes, WantedTypes
  <2> QED BY <1>6, <2>1, TypesHold
<1>10. Shape'
  BY <1>5, Zenon DEF Control, Shape, At
<1>11. NothingDropped'
  BY <1>5, Zenon DEF Control, NothingDropped
<1>12. Powered'
  <2>1. (\E k \in 1..Len(queue') : IsAccess(queue'[k])) => hw'.power = "on"
    BY <1>5, <1>6, <1>7, Zenon DEF Control, Powered
  <2>2. phase' = "open" => hw'.power = "on"
    BY <1>5, Zenon DEF Control, Powered
  <2>3. hw'.power # "on" =>
          \A k \in 1..Len(todo') : IsAccess(todo'[k]) \/ todo'[k].reg = "await" =>
                                     \E j \in 1..k - 1 : todo'[j].reg = "poll"
    BY <1>5, Zenon DEF Control, Powered
  <2> QED BY <2>1, <2>2, <2>3, Zenon DEF Powered, IsAccess
<1> QED BY <1>9, <1>10, <1>11, <1>12, Zenon DEF Control

\* An access joins the queue; reaching the target's APs needs the power.
LEMMA IssueControl ==
  ASSUME Control, Issue
  PROVE  Control'
<1>1. /\ Types /\ todo # << >> /\ IsAccess(Step1) /\ Shape /\ Powered
      /\ HostTypes /\ CallTypes /\ TargetTypes /\ HistoryTypes
  BY TypesAre, Zenon DEF Control, Issue
<1>2. PICK e : e = Step1
  OBVIOUS
<1>3. e \in Accesses /\ IsAccess(e) /\ e.size \in Sizes
  BY <1>1, <1>2, RestOfCall, AccessHasType
<1>4. /\ UNCHANGED <<menu, phase, dpSelect, failure, failures, hw, mem, dropped>>
      /\ UNCHANGED <<reading, spoilt, wanted>> /\ todo' = Tail(todo)
      /\ queue' = Append(queue, e) /\ Len(queue) < MaxQueue
      /\ csw' = IF e.reg = "csw" THEN [csw EXCEPT ![e.ap] = e.size] ELSE csw
  BY <1>2, Zenon DEF Issue, Enqueue, Return, history, target, counters
<1>5. QueueTypes' /\ ((\E k \in 1..Len(queue') : IsAccess(queue'[k])) =>
                        (\E k \in 1..Len(queue) : IsAccess(queue[k])) \/ IsAccess(e))
  BY <1>1, <1>3, <1>4, QueueTypesMore
<1>6. csw' \in [APs -> Sizes]
  <2>1. csw \in [APs -> Sizes]
    BY <1>1, Zenon DEF HostTypes
  <2> QED BY <1>3, <1>4, <2>1
<1>7. CallTypes'
  BY <1>1, <1>4, CallTypesGoOn
<1>8. Types'
  <2>1. HostTypes' /\ TargetTypes' /\ HistoryTypes'
    BY <1>1, <1>4, <1>6, Zenon DEF HostTypes, TargetTypes, HistoryTypes, WantedTypes
  <2> QED BY <1>5, <1>7, <2>1, TypesHold
<1>9. NothingDropped'
  BY <1>4, Zenon DEF Control, NothingDropped
<1>10. Shape'
  <2>1. phase = "opening" => csw' = csw
    <3>1. ASSUME phase = "opening" PROVE e.reg # "csw"
      <4>1. e.reg \in OpeningSteps
        BY <1>1, <1>2, <3>1, RestOfCall, Zenon DEF Shape
      <4> QED BY <4>1 DEF OpeningSteps
    <3> QED BY <1>4, <3>1, Zenon
  <2> QED BY <1>1, <1>4, <2>1, ShapeGoesOn
<1>11. Powered'
  <2>1. Step1.reg # "poll"
    BY <1>1 DEF IsAccess
  <2>2. phase' = "open" => hw'.power = "on"
    BY <1>1, <1>4, Zenon DEF Powered
  <2> QED BY <1>1, <1>2, <1>4, <1>5, <2>1, <2>2, PoweredGoesOn
<1> QED BY <1>8, <1>9, <1>10, <1>11, Zenon DEF Control

\* A write of the debug port is queued as it is, or as a write of SELECT.
LEMMA DpStep ==
  ASSUME NEW s \in Accesses, s.reg \in {"clear", "select0", "power"},
         NEW e, e = IF s.reg = "select0" THEN [s EXCEPT !.reg = "select"] ELSE s
  PROVE  e \in Accesses /\ ~IsAccess(e)
<1>1. "select" \in Registers
  BY DEF Registers
<1>2. CASE s.reg # "select0"
  <2>1. e = s
    BY <1>2, Zenon
  <2> QED BY <2>1 DEF IsAccess
<1>3. CASE s.reg = "select0"
  <2>1. e = [s EXCEPT !.reg = "select"] /\ s.reg = "select0"
    BY <1>3, Zenon
  <2>2. s \in StepType /\ s.ap = 0 /\ s.addr = 0
    BY <2>1 DEF Accesses, WellFormed
  <2>3. e \in StepType /\ e.reg = "select" /\ e.addr = 0
    BY ONLY <1>1, <2>1, <2>2 DEF StepType
  <2>4. WellFormed(e)
    BY ONLY <2>3 DEF WellFormed
  <2>5. e \in Accesses
    BY <2>3, <2>4, Zenon DEF Accesses
  <2>6. ~IsAccess(e)
    BY ONLY <2>3 DEF IsAccess
  <2> QED BY <2>5, <2>6
<1> QED BY <1>2, <1>3

\* A write of the debug port joins the queue.
LEMMA DpWriteControl ==
  ASSUME Control, DpWrite
  PROVE  Control'
<1>1. /\ Types /\ todo # << >> /\ Step1.reg \in {"clear", "select0", "power"} /\ Shape /\ Powered
      /\ HostTypes /\ CallTypes /\ QueueTypes /\ TargetTypes /\ HistoryTypes
  <2>1. todo # << >> /\ Step1.reg \in {"clear", "select0", "power"}
    BY DEF DpWrite, At, Step1
  <2> QED BY <2>1, TypesAre, Zenon DEF Control
<1>2. PICK e : e = IF At("select0") THEN [Step1 EXCEPT !.reg = "select"] ELSE Step1
  OBVIOUS
<1>3. /\ UNCHANGED <<menu, phase, csw, failure, failures, hw, mem, dropped>>
      /\ UNCHANGED <<reading, spoilt, wanted>> /\ todo' = Tail(todo)
      /\ \/ queue' = queue
         \/ queue' = Append(queue, e) /\ Len(queue) < MaxQueue
      /\ dpSelect' \in {dpSelect, <<0, 0>>}
  BY <1>2, Zenon DEF DpWrite, Enqueue, Return, history, target, counters
<1>4. e \in Accesses /\ ~IsAccess(e)
  <2>1. PICK s : s = Step1
    OBVIOUS
  <2>2. s \in Accesses /\ s.reg \in {"clear", "select0", "power"}
    BY <1>1, <2>1, RestOfCall
  <2>3. e = IF s.reg = "select0" THEN [s EXCEPT !.reg = "select"] ELSE s
    BY <1>1, <1>2, <2>1, Zenon DEF At, Step1
  <2> QED BY <2>2, <2>3, DpStep
<1>5. QueueTypes' /\ ((\E k \in 1..Len(queue') : IsAccess(queue'[k])) =>
                        (\E k \in 1..Len(queue) : IsAccess(queue[k])) \/ IsAccess(Step1))
  <2>1. CASE queue' = queue
    BY <1>1, <2>1, Zenon DEF QueueTypes
  <2>2. CASE queue' = Append(queue, e) /\ Len(queue) < MaxQueue
    <3>1. QueueTypes' /\ ((\E k \in 1..Len(queue') : IsAccess(queue'[k])) =>
                            (\E k \in 1..Len(queue) : IsAccess(queue[k])) \/ IsAccess(e))
      BY <1>1, <1>4, <2>2, QueueTypesMore
    <3> QED BY <1>4, <3>1, Zenon
  <2> QED BY <1>3, <2>1, <2>2
<1>6. dpSelect' \in Selections
  <2>1. <<0, 0>> \in Selections
    BY AccessPortAssumption DEF Selections
  <2> QED BY <1>1, <1>3, <2>1, Zenon DEF HostTypes
<1>7. CallTypes'
  BY <1>1, <1>3, CallTypesGoOn
<1>8. Types'
  <2>1. HostTypes' /\ TargetTypes' /\ HistoryTypes'
    BY <1>1, <1>3, <1>6, Zenon DEF HostTypes, TargetTypes, HistoryTypes, WantedTypes
  <2> QED BY <1>5, <1>7, <2>1, TypesHold
<1>9. NothingDropped'
  BY <1>3, Zenon DEF Control, NothingDropped
<1>10. Shape'
  BY <1>1, <1>3, ShapeGoesOn
<1>11. Powered'
  <2>1. Step1.reg # "poll"
    BY <1>1
  <2>2. phase' = "open" => hw'.power = "on"
    BY <1>1, <1>3, Zenon DEF Powered
  <2> QED BY <1>1, <1>3, <1>5, <2>1, <2>2, PoweredGoesOn
<1> QED BY <1>8, <1>9, <1>10, <1>11, Zenon DEF Control

\* A call goes on, and the queue stays as it is or is emptied.
LEMMA GoesOnControl ==
  ASSUME Control, todo # << >>, todo' = Tail(todo), UNCHANGED <<menu, csw, failure>>,
         UNCHANGED <<mem, wanted, spoilt, dropped>>, reading' \in ReadingType,
         queue' \in {queue, << >>}, dpSelect' \in {dpSelect, Unknown},
         hw' \in HwType, hw'.power = hw.power, failures' \in 0..MaxFailures,
         \/ phase' = phase
         \/ todo' = << >> /\ phase' \in {"closed", "open"},
         Step1.reg = "poll" => hw.power = "on",
         phase' = "open" => hw.power = "on"
  PROVE  Control'
<1>1. /\ Types /\ Shape /\ Powered
      /\ HostTypes /\ CallTypes /\ QueueTypes /\ TargetTypes /\ HistoryTypes
  BY TypesAre, Zenon DEF Control
<1>2. phase' \in {"closed", "opening", "open"} /\ (todo' = << >> /\ phase' \in {"closed", "open"} =>
                                                     todo' = << >> /\ phase' # "opening")
  <2>1. phase \in {"closed", "opening", "open"}
    BY <1>1, Zenon DEF HostTypes
  <2> QED BY <2>1
<1>7. QueueTypes' /\ ((\E k \in 1..Len(queue') : IsAccess(queue'[k])) =>
                        (\E k \in 1..Len(queue) : IsAccess(queue[k])) \/ IsAccess(Step1))
  <2>1. CASE queue' = queue
    BY <1>1, <2>1, Zenon DEF QueueTypes
  <2>2. CASE queue' = << >>
    <3>1. queue' \in Seq(Accesses) /\ Len(queue') <= MaxQueue /\ 1..Len(queue') = {}
      BY <2>2, AccessPortAssumption
    <3> QED BY <3>1, Zenon DEF QueueTypes
  <2> QED BY <2>1, <2>2
<1>8. dpSelect' \in Selections
  BY <1>1 DEF HostTypes, Selections
<1>3. Types'
  <2>1. HostTypes' /\ TargetTypes' /\ HistoryTypes'
    BY <1>1, <1>2, <1>8, Zenon DEF HostTypes, TargetTypes, HistoryTypes, WantedTypes
  <2>2. CallTypes'
    BY <1>1, CallTypesGoOn
  <2> QED BY <1>7, <2>1, <2>2, TypesHold
<1>4. NothingDropped'
  BY Zenon DEF Control, NothingDropped
<1>5. Shape'
  BY <1>1, <1>2, ShapeGoesOn
<1>6. Powered'
  <2>1. (\E k \in 1..Len(queue') : IsAccess(queue'[k])) =>
          (\E k \in 1..Len(queue) : IsAccess(queue[k])) \/ IsAccess(Step1)
    BY <1>7, Zenon
  <2>2. hw'.power = hw.power /\ (phase' = "open" => hw'.power = "on")
    BY Zenon
  <2> QED BY <1>1, <2>1, <2>2, PoweredGoesOn
<1> QED BY <1>3, <1>4, <1>5, <1>6, Zenon DEF Control

\* A step that waits is made in a target with power.
LEMMA AwaitsWithPower ==
  ASSUME Control, todo # << >>, Step1.reg = "await"
  PROVE  hw.power = "on"
<1>1. Step1 = todo[1] /\ 1 \in 1..Len(todo)
  BY RestOfCall DEF Control
<1>2. \A j \in 1..1 - 1 : FALSE
  OBVIOUS
<1> QED BY <1>1, <1>2, Zenon DEF Control, Powered

\* Steps that queue and execute nothing.
LEMMA QuietControl ==
  ASSUME Control, Completed \/ ResultThere \/ IssueCswCached \/ Poll
  PROVE  Control'
<1>1. HistoryTypes /\ HostTypes /\ TargetTypes /\ Powered
  BY TypesAre, Zenon DEF Control
<1>2. /\ reading \in ReadingType /\ hw \in HwType /\ failures \in 0..MaxFailures
      /\ phase = "open" => hw.power = "on"
  BY <1>1, Zenon DEF HistoryTypes, HostTypes, TargetTypes, Powered
<1>3. CASE Completed
  <2>1. /\ todo # << >> /\ (Step1.reg = "await" \/ Step1.reg = "flush") /\ todo' = Tail(todo)
        /\ UNCHANGED <<menu, dpSelect, csw, queue, failure, hw, mem, wanted, spoilt, dropped, failures>>
        /\ IF Tail(todo) = << >> THEN reading' = NoReading /\ phase' = "open"
           ELSE reading' = reading /\ phase' = phase
    BY <1>3, Zenon DEF Completed, At, Step1, Return, target, counters
  <2>2. reading' \in ReadingType
    BY <1>2, <2>1, NoReadingType, Zenon
  <2>3. \/ phase' = phase
        \/ todo' = << >> /\ phase' \in {"closed", "open"}
    <3>1. "open" \in {"closed", "open"}
      OBVIOUS
    <3> QED BY <2>1, <3>1, Zenon
  <2>4. Step1.reg # "poll"
    BY <2>1
  <2>5. phase' = "open" => hw.power = "on"
    <3>1. CASE Step1.reg = "await"
      BY <2>1, <3>1, AwaitsWithPower
    <3>2. CASE Step1.reg = "flush"
      <4>1. phase = "open"
        <5>1. Step1 = todo[1] /\ 1 \in 1..Len(todo)
          BY <2>1, RestOfCall DEF Control
        <5>2. phase # "closed" /\ phase # "opening"
          <6>1. Step1.reg \notin OpeningSteps
            BY <3>2 DEF OpeningSteps
          <6> QED BY <2>1, <5>1, <6>1, Zenon DEF Control, Shape
        <5>3. phase \in {"closed", "opening", "open"}
          BY <1>1, Zenon DEF HostTypes
        <5> QED BY <5>2, <5>3
      <4> QED BY <1>2, <4>1
    <3> QED BY <2>1, <3>1, <3>2
  <2>6. queue' \in {queue, << >>} /\ dpSelect' \in {dpSelect, Unknown} /\ hw' \in HwType
        /\ hw'.power = hw.power /\ failures' \in 0..MaxFailures
    BY <1>2, <2>1, Zenon
  <2> QED BY <2>1, <2>2, <2>3, <2>4, <2>5, <2>6, GoesOnControl, Zenon
<1>4. CASE ResultThere \/ IssueCswCached \/ Poll
  <2>1. /\ todo # << >> /\ todo' = Tail(todo)
        /\ UNCHANGED <<menu, phase, dpSelect, csw, queue, failure, hw, mem>>
        /\ UNCHANGED <<wanted, spoilt, dropped, reading, failures>>
        /\ Step1.reg = "poll" => hw.power = "on"
    <3>1. CASE ResultThere
      <4>1. todo # << >> /\ Step1.reg = "result"
        BY <3>1, Zenon DEF ResultThere, At, Step1
      <4>2. Step1.reg # "poll"
        BY <4>1
      <4> QED BY <3>1, <4>1, <4>2, Zenon DEF ResultThere, Return, history, target, counters
    <3>2. CASE IssueCswCached
      <4>1. todo # << >> /\ Step1.reg = "csw"
        BY <3>2, Zenon DEF IssueCswCached, At, Step1
      <4>2. Step1.reg # "poll"
        BY <4>1
      <4> QED BY <3>2, <4>1, <4>2, Zenon DEF IssueCswCached, Return, history, target, counters
    <3>3. CASE Poll
      BY <3>3, Zenon DEF Poll, PollDone, At, Return, history, target, counters
    <3> QED BY <1>4, <3>1, <3>2, <3>3
  <2>2. queue' \in {queue, << >>} /\ dpSelect' \in {dpSelect, Unknown} /\ hw' \in HwType
        /\ hw'.power = hw.power /\ failures' \in 0..MaxFailures /\ reading' \in ReadingType
        /\ (phase' = "open" => hw.power = "on")
    BY <1>2, <2>1, Zenon
  <2> QED BY <2>1, <2>2, GoesOnControl, Zenon
<1> QED BY <1>3, <1>4

\* connect begins the opening again.
LEMMA ConnectControl ==
  ASSUME Control, Connect
  PROVE  Control'
<1>1. HistoryTypes /\ HostTypes /\ TargetTypes /\ Powered
  BY TypesAre, Zenon DEF Control
<1>2. /\ reading \in ReadingType /\ hw \in HwType /\ failures \in 0..MaxFailures
      /\ phase = "open" => hw.power = "on"
  BY <1>1, Zenon DEF HistoryTypes, HostTypes, TargetTypes, Powered
<1>3. /\ todo # << >> /\ todo' = Tail(todo) /\ Step1.reg = "connect"
      /\ UNCHANGED <<menu, phase, csw, failure, hw, mem>>
      /\ UNCHANGED <<wanted, spoilt, dropped, reading, failures>>
      /\ queue' = << >> /\ dpSelect' = Unknown
  BY Zenon DEF Connect, At, Step1, Return, history, target, counters
<1>4. Step1.reg # "poll"
  BY <1>3
<1>5. queue' \in {queue, << >>} /\ dpSelect' \in {dpSelect, Unknown} /\ hw' \in HwType
      /\ hw'.power = hw.power /\ failures' \in 0..MaxFailures /\ reading' \in ReadingType
      /\ (phase' = "open" => hw.power = "on")
  BY <1>2, <1>3, Zenon
<1> QED BY <1>3, <1>4, <1>5, GoesOnControl, Zenon

\* A command of the probe is executed with an empty queue.
LEMMA ProbeCommandControl ==
  ASSUME Control, ProbeCommand
  PROVE  Control'
<1>1. HistoryTypes /\ HostTypes /\ TargetTypes /\ Powered /\ Types /\ Shape
  BY TypesAre, Zenon DEF Control
<1>2. /\ reading \in ReadingType /\ hw \in HwType /\ failures \in 0..MaxFailures
      /\ phase = "open" => hw.power = "on"
  BY <1>1, Zenon DEF HistoryTypes, HostTypes, TargetTypes, Powered
<1>3. /\ todo # << >> /\ todo' = Tail(todo) /\ Step1.reg \in {"clock", "reset", "close"}
      /\ UNCHANGED <<menu, dpSelect, csw, queue, failure, mem>>
      /\ UNCHANGED <<wanted, spoilt, dropped, reading, failures>>
  <2>1. todo # << >> /\ Step1.reg \in {"clock", "reset", "close"}
    BY DEF ProbeCommand, At, Step1
  <2> QED BY <2>1, Zenon DEF ProbeCommand, Return, counters
<1>4. Step1.reg # "poll"
  BY <1>3
<1>5. todo' = << >>
  <2>1. Len(todo) = 1
    <3>1. Step1 = todo[1] /\ 1 \in 1..Len(todo)
      BY <1>1, <1>3, RestOfCall
    <3> QED BY <1>1, <1>3, <3>1 DEF Shape
  <2> QED BY <1>1, <1>3, <2>1, TailOfOne DEF Types
<1>6. phase' = phase \/ phase' = "closed"
  BY Zenon DEF ProbeCommand
<1>7. hw' \in HwType /\ hw'.power = hw.power
  <2>1. CASE hw' = hw
    BY <1>2, <2>1
  <2>2. ASSUME NEW a \in SUBSET APs,
               hw' = [hw EXCEPT !.csw = [b \in APs |-> IF b \in a THEN Unset ELSE @[b]]]
        PROVE  hw' \in HwType /\ hw'.power = hw.power
    <3>1. PICK h : h = [hw EXCEPT !.csw = [b \in APs |-> IF b \in a THEN Unset ELSE @[b]]]
      OBVIOUS
    <3>2. PICK f : f = [b \in APs |-> IF b \in a THEN Unset ELSE hw.csw[b]]
      OBVIOUS
    <3>3. h = [hw EXCEPT !.csw = f]
      BY <3>1, <3>2, Zenon
    <3>4. hw.csw \in [APs -> Sizes]
      BY <1>2 DEF HwType
    <3>5. f \in [APs -> Sizes]
      BY <3>2, <3>4 DEF Unset, Sizes
    <3>6. h \in HwType /\ h.power = hw.power
      BY <1>2, <3>3, <3>5 DEF HwType
    <3>7. hw' = h
      BY <2>2, <3>1, Zenon
    <3> QED BY <3>6, <3>7, Zenon
  <2> QED BY <2>1, <2>2, Zenon DEF ProbeCommand
<1>8. phase' = "open" => hw.power = "on"
  BY <1>2, <1>6
<1>9. \/ phase' = phase
      \/ todo' = << >> /\ phase' \in {"closed", "open"}
  BY <1>5, <1>6
<1>10. queue' \in {queue, << >>} /\ dpSelect' \in {dpSelect, Unknown}
       /\ failures' \in 0..MaxFailures /\ reading' \in ReadingType
  BY <1>2, <1>3, Zenon
<1> QED BY <1>3, <1>4, <1>7, <1>8, <1>9, <1>10, GoesOnControl, Zenon

\* A call ends.
LEMMA EndsControl ==
  ASSUME Control, menu' = menu, todo' = << >>, phase' = "closed" \/ phase' = phase,
         phase' # "opening", dpSelect' \in {dpSelect, Unknown}, csw' \in [APs -> Sizes],
         failure' \in Failures, failures' \in 0..MaxFailures, QueueTypes', hw' = hw, mem' = mem,
         HistoryTypes', failure' = NoError => dropped' = {},
         (\E k \in 1..Len(queue') : IsAccess(queue'[k])) =>
           (\E k \in 1..Len(queue) : IsAccess(queue[k]))
  PROVE  Control'
<1>1. HostTypes /\ TargetTypes /\ Powered
  BY TypesAre, Zenon DEF Control
<1>2. 1..Len(todo') = {} /\ todo' \in Seq(Accesses)
  BY ONLY todo' = << >>
<1>3. HostTypes'
  <2>1. phase' \in {"closed", "opening", "open"} /\ dpSelect' \in Selections
    BY <1>1 DEF HostTypes, Selections
  <2> QED BY <1>1, <2>1, Zenon DEF HostTypes
<1>4. CallTypes' /\ TargetTypes'
  BY <1>1, <1>2, Zenon DEF CallTypes, TargetTypes
<1>5. Types'
  BY <1>3, <1>4, TypesHold
<1>6. Shape'
  <2>1. ~At("reset")'
    BY Zenon DEF At
  <2> QED BY <1>2, <2>1, Zenon DEF Shape
<1>7. NothingDropped'
  BY Zenon DEF NothingDropped
<1>8. Powered'
  <2>1. phase' = "open" => phase = "open"
    OBVIOUS
  <2>2. phase' = "open" => hw'.power = "on"
    BY <1>1, <2>1, Zenon DEF Powered
  <2>3. (\E k \in 1..Len(queue') : IsAccess(queue'[k])) => hw'.power = "on"
    BY <1>1, Zenon DEF Powered
  <2> QED BY <1>2, <2>2, <2>3, Zenon DEF Powered, IsAccess
<1> QED BY <1>5, <1>6, <1>7, <1>8, Zenon DEF Control

\* The read of DPIDR succeeds.
LEMMA ReadIdCodeControl ==
  ASSUME Control, ReadIdCode
  PROVE  Control'
<1>1. /\ HistoryTypes /\ HostTypes /\ QueueTypes /\ TargetTypes /\ Powered /\ Types /\ Shape
      /\ NothingDropped
  BY TypesAre, Zenon DEF Control
<1>2. /\ reading \in ReadingType /\ hw \in HwType /\ failures \in 0..MaxFailures
      /\ phase = "open" => hw.power = "on"
  BY <1>1, Zenon DEF HistoryTypes, HostTypes, TargetTypes, Powered
<1>3. /\ todo # << >> /\ (Step1.reg = "idcode" \/ Step1.reg = "idcode2")
      /\ UNCHANGED <<menu, phase, dpSelect, csw, queue, failure, hw, mem>>
      /\ UNCHANGED <<wanted, spoilt, dropped, reading, failures>>
      /\ (Step1.reg = "idcode" => todo' = Tail(Tail(todo)))
      /\ (Step1.reg # "idcode" => todo' = Tail(todo))
  BY Zenon DEF ReadIdCode, At, Step1, Return, history, target, counters
<1>4. CASE Step1.reg # "idcode"
  <2>1. Step1.reg # "poll"
    BY <1>3
  <2>2. queue' \in {queue, << >>} /\ dpSelect' \in {dpSelect, Unknown} /\ hw' \in HwType
        /\ hw'.power = hw.power /\ failures' \in 0..MaxFailures /\ reading' \in ReadingType
        /\ (phase' = "open" => hw.power = "on")
    BY <1>2, <1>3, Zenon
  <2> QED BY <1>3, <1>4, <2>1, <2>2, GoesOnControl, Zenon
<1>5. CASE Step1.reg = "idcode"
  <2>1. /\ todo' \in Seq(Accesses) /\ Len(todo') = Len(todo) - 2 /\ Len(todo) - 2 \in Nat
        /\ Len(todo) \in Nat
        /\ \A k \in 1..Len(todo') : todo'[k] = todo[k + 2] /\ k + 2 \in 1..Len(todo)
    <3>1. todo' = Tail(Tail(todo))
      BY <1>3, <1>5
    <3> QED BY <1>1, <1>3, <1>5, <3>1, TailOfTail, RestOfCall
  <2>2. /\ phase = "opening" /\ csw = [a \in APs |-> Unset]
        /\ \A k \in 1..Len(todo) : todo[k].reg \in OpeningSteps
    BY <1>1, <1>3, <1>5, NoTransfersInOpening
  <2>3. \A k \in 1..Len(todo') : todo'[k].reg \in OpeningSteps
    BY <2>1, <2>2, Zenon
  <2>4. CallTypes'
    <3>1. \A k \in 1..Len(todo') : todo'[k].reg # "select"
      BY <2>3 DEF OpeningSteps
    <3> QED BY <2>1, <3>1, Zenon DEF CallTypes
  <2>5. HostTypes' /\ QueueTypes' /\ TargetTypes' /\ HistoryTypes'
    BY <1>1, <1>3, Zenon DEF HostTypes, QueueTypes, TargetTypes, HistoryTypes, WantedTypes
  <2>6. Types'
    BY <2>4, <2>5, TypesHold
  <2>7. NothingDropped'
    BY <1>1, <1>3, Zenon DEF NothingDropped
  <2>8. Shape'
    <3>1. \A k \in 1..Len(todo') : todo'[k].reg = "idcode" =>
                                    k < Len(todo') /\ todo'[k + 1].reg = "idcode2"
      <4> SUFFICES ASSUME NEW k \in 1..Len(todo'), todo'[k].reg = "idcode"
                   PROVE  k < Len(todo') /\ todo'[k + 1].reg = "idcode2"
        BY Zenon
      <4>1. todo[k + 2].reg = "idcode" /\ k + 2 \in 1..Len(todo)
        BY <2>1, Zenon
      <4>2. k + 2 < Len(todo) /\ todo[(k + 2) + 1].reg = "idcode2"
        BY <1>1, <4>1, Zenon DEF Shape
      <4>3. k < Len(todo') /\ k + 1 \in 1..Len(todo') /\ (k + 2) + 1 = (k + 1) + 2
        BY <2>1, <4>2
      <4> QED BY <2>1, <4>2, <4>3, Zenon
    <3>2. \A k \in 1..Len(todo') : todo'[k].reg \notin {"clock", "reset", "close", "flush"}
      BY <2>3 DEF OpeningSteps
    <3>3. ~At("reset")'
      <4>1. ASSUME todo' # << >> PROVE Head(todo').reg # "reset"
        <5>1. PICK s : s = todo'
          OBVIOUS
        <5>2. Head(s) = s[1] /\ 1 \in 1..Len(s)
          BY ONLY <2>1, <4>1, <5>1
        <5>3. s[1].reg \notin {"clock", "reset", "close", "flush"}
          BY <3>2, <5>1, <5>2, Zenon
        <5> QED BY <5>1, <5>2, <5>3
      <4> QED BY <4>1, Zenon DEF At
    <3>4. phase' = "opening" /\ phase' # "open" /\ phase' # "closed"
          /\ csw' = [a \in APs |-> Unset]
      BY <1>3, <2>2
    <3> QED BY <2>3, <3>1, <3>2, <3>3, <3>4, Zenon DEF Shape
  <2>9. Powered'
    <3>1. ASSUME hw'.power # "on", NEW k \in 1..Len(todo'),
                 IsAccess(todo'[k]) \/ todo'[k].reg = "await"
          PROVE  \E j \in 1..k - 1 : todo'[j].reg = "poll"
      <4>1. /\ IsAccess(todo[k + 2]) \/ todo[k + 2].reg = "await"
            /\ k + 2 \in 1..Len(todo) /\ hw.power # "on"
        BY <1>3, <2>1, <3>1, Zenon
      <4>2. PICK j \in 1..(k + 2) - 1 : todo[j].reg = "poll"
        BY <1>1, <4>1, Zenon DEF Powered
      <4>3. todo[1].reg = "idcode" /\ todo[2].reg = "idcode2"
        <5>1. Step1 = todo[1] /\ 1 \in 1..Len(todo)
          BY <1>1, <1>3, RestOfCall
        <5>2. todo[1 + 1].reg = "idcode2" /\ 1 + 1 = 2
          BY <1>1, <1>5, <5>1 DEF Shape
        <5> QED BY <1>5, <5>1, <5>2
      <4>4. j # 1 /\ j # 2
        BY <4>2, <4>3
      <4>5. j - 2 \in 1..k - 1 /\ j - 2 \in 1..Len(todo') /\ (j - 2) + 2 = j
        BY <4>4
      <4>6. todo'[j - 2].reg = "poll"
        BY <2>1, <4>2, <4>5, Zenon
      <4> QED BY <4>5, <4>6, Zenon
    <3>2. (\E k \in 1..Len(queue') : IsAccess(queue'[k])) => hw'.power = "on"
      BY <1>1, <1>3, Zenon DEF Powered
    <3>3. phase' = "open" => hw'.power = "on"
      BY <1>2, <1>3, Zenon
    <3> QED BY <3>1, <3>2, <3>3, Zenon DEF Powered, IsAccess
  <2> QED BY <2>6, <2>7, <2>8, <2>9, Zenon DEF Control
<1> QED BY <1>4, <1>5

\* The read of DPIDR fails: it is read again, or the opening ends.
LEMMA ReadIdCodeFailsControl ==
  ASSUME Control, ReadIdCodeFails
  PROVE  Control'
<1>1. /\ HistoryTypes /\ HostTypes /\ QueueTypes /\ TargetTypes /\ Powered /\ Types /\ Shape
      /\ NothingDropped
  BY TypesAre, Zenon DEF Control
<1>2. /\ reading \in ReadingType /\ hw \in HwType /\ failures \in 0..MaxFailures
      /\ phase = "open" => hw.power = "on"
  BY <1>1, Zenon DEF HistoryTypes, HostTypes, TargetTypes, Powered
<1>3. /\ todo # << >> /\ (Step1.reg = "idcode" \/ Step1.reg = "idcode2")
      /\ UNCHANGED <<menu, dpSelect, csw, queue, failure, hw, mem>>
      /\ UNCHANGED <<wanted, spoilt, dropped, reading>>
      /\ (Step1.reg = "idcode" => /\ todo' = Tail(todo) /\ phase' = phase
                                  /\ failures < MaxFailures /\ failures' = failures + 1)
      /\ (Step1.reg # "idcode" => todo' = << >> /\ phase' = "closed" /\ failures' = failures)
  BY Zenon DEF ReadIdCodeFails, At, Step1, Return, history, target
<1>4. CASE Step1.reg = "idcode"
  <2>1. Step1.reg # "poll"
    BY <1>4
  <2>2. failures' \in 0..MaxFailures
    BY <1>2, <1>3, <1>4, AccessPortAssumption
  <2>3. queue' \in {queue, << >>} /\ dpSelect' \in {dpSelect, Unknown} /\ hw' \in HwType
        /\ hw'.power = hw.power /\ reading' \in ReadingType
        /\ (phase' = "open" => hw.power = "on")
    BY <1>2, <1>3, <1>4, Zenon
  <2> QED BY <1>3, <1>4, <2>1, <2>2, <2>3, GoesOnControl, Zenon
<1>5. CASE Step1.reg # "idcode"
  <2>1. phase' = "closed" /\ phase' # "opening"
    BY <1>3, <1>5
  <2>2. /\ todo' = << >> /\ dpSelect' \in {dpSelect, Unknown} /\ csw' \in [APs -> Sizes]
        /\ failure' \in Failures /\ failures' \in 0..MaxFailures /\ hw' = hw /\ mem' = mem
    BY <1>1, <1>3, <1>5, Zenon DEF HostTypes
  <2>3. QueueTypes' /\ HistoryTypes' /\ (failure' = NoError => dropped' = {})
    BY <1>1, <1>3, Zenon DEF QueueTypes, HistoryTypes, WantedTypes, NothingDropped
  <2>4. (\E k \in 1..Len(queue') : IsAccess(queue'[k])) =>
           (\E k \in 1..Len(queue) : IsAccess(queue[k]))
    BY <1>3, Zenon
  <2>5. menu' = menu
    BY <1>3
  <2> QED BY <2>1, <2>2, <2>3, <2>4, <2>5, EndsControl, Zenon
<1> QED BY <1>4, <1>5

\* A step of the target, of the probe or of the debugger it is shared with,
\* which leaves the call in progress alone.
LEMMA OutsideControl ==
  ASSUME Control, UNCHANGED <<menu, phase, todo, csw>>, dpSelect' \in {dpSelect, Unknown},
         queue' = queue \/ (queue # << >> /\ queue' = Tail(queue)), TargetTypes', HistoryTypes',
         failure' \in Failures, failures' \in 0..MaxFailures, failure' = NoError => dropped' = {},
         hw.power = "on" => hw'.power = "on"
  PROVE  Control'
<1>1. /\ HostTypes /\ CallTypes /\ QueueTypes /\ Powered /\ Types /\ Shape
  BY TypesAre, Zenon DEF Control
<1>2. HostTypes'
  <2>1. dpSelect' \in Selections
    BY <1>1 DEF HostTypes, Selections
  <2> QED BY <1>1, <2>1, Zenon DEF HostTypes
<1>3. CallTypes'
  BY <1>1, Zenon DEF CallTypes
<1>4. QueueTypes' /\ ((\E k \in 1..Len(queue') : IsAccess(queue'[k])) =>
                        (\E k \in 1..Len(queue) : IsAccess(queue[k])))
  <2>1. CASE queue' = queue
    BY <1>1, <2>1, Zenon DEF QueueTypes
  <2>2. CASE queue # << >> /\ queue' = Tail(queue)
    BY <1>1, <2>2, QueueTypesLess, Zenon
  <2> QED BY <2>1, <2>2
<1>5. Types'
  BY <1>2, <1>3, <1>4, TypesHold
<1>6. Shape'
  BY <1>1, Zenon DEF Shape, At
<1>7. NothingDropped'
  BY Zenon DEF NothingDropped
<1>8. Powered'
  <2>1. phase' = "open" => hw'.power = "on"
    BY <1>1, Zenon DEF Powered
  <2>2. (\E k \in 1..Len(queue') : IsAccess(queue'[k])) => hw'.power = "on"
    BY <1>1, <1>4, Zenon DEF Powered
  <2>3. hw'.power # "on" => \A k \in 1..Len(todo') : IsAccess(todo'[k]) \/ todo'[k].reg = "await" =>
                              \E j \in 1..k - 1 : todo'[j].reg = "poll"
    BY <1>1, Zenon DEF Powered
  <2> QED BY <2>1, <2>2, <2>3, Zenon DEF Powered, IsAccess
<1> QED BY <1>5, <1>6, <1>7, <1>8, Zenon DEF Control

\* An access fails, is refused or is skipped: what it would have written is lost.
LEMMA DroppedIs ==
  ASSUME Types, Fail \/ Refuse \/ SkipRest, NEW e, e = Head(queue)
  PROVE  /\ queue # << >> /\ queue' = Tail(queue) /\ e \in Accesses
         /\ spoilt' = spoilt \cup Writes(e)
         /\ failure' \in Failures /\ failure' # NoError /\ failures' \in 0..MaxFailures
         /\ UNCHANGED <<host, mem, wanted, lost, reading, wrong>>
         /\ hw' \in HwType /\ hw'.power = hw.power
<1>1. queue # << >> /\ queue' = Tail(queue)
  BY Zenon DEF Fail, Refuse, SkipRest, Dropped
<1>2. queue \in Seq(Accesses) /\ hw \in HwType /\ failures \in 0..MaxFailures /\ failure \in Failures
  BY TypesAre DEF Types, HostTypes
<1>3. e \in Accesses
  BY ONLY e = Head(queue), <1>1, <1>2
<1>4. spoilt' = spoilt \cup Writes(e)
  <2>1. spoilt' = spoilt \cup WrittenBy(<<e>>)
    BY Zenon DEF Fail, Refuse, SkipRest, Dropped
  <2>2. << >> \in Seq(Accesses)
    OBVIOUS
  <2>3. WrittenBy(<<e>>) = Writes(e)
    BY <2>2, WrittenByParts
  <2> QED BY <2>1, <2>3
<1>5. /\ UNCHANGED <<host, mem, wanted, lost, reading, wrong>>
  BY Zenon DEF Fail, Refuse, SkipRest, target
<1>6. /\ failure' \in Failures /\ failure' # NoError /\ failures' \in 0..MaxFailures
  <2>1. CASE Fail
    <3>1. failures < MaxFailures /\ failures' = failures + 1
      BY <2>1, Zenon DEF Fail
    <3>2. failures' \in 0..MaxFailures
      BY <1>2, <3>1, AccessPortAssumption
    <3>3. failure' \in {"timeout", "error", "fault"}
      BY <2>1 DEF Fail
    <3> QED BY <3>2, <3>3 DEF Failures, NoError
  <2>2. CASE Refuse
    <3>1. failure' = (IF failure = NoError THEN "fault" ELSE failure) /\ failures' = failures
      BY <2>2, Zenon DEF Refuse, counters
    <3> QED BY <1>2, <3>1 DEF Failures, NoError
  <2>3. CASE SkipRest
    BY <1>2, <2>3, Zenon DEF SkipRest, counters
  <2> QED BY <2>1, <2>2, <2>3
<1>7. hw' \in HwType /\ hw'.power = hw.power
  <2>1. CASE Fail
    <3>1. hw' = [hw EXCEPT !.sticky = (failure' = "fault")]
      BY <2>1, Zenon DEF Fail
    <3> QED BY ONLY <1>2, <3>1 DEF HwType
  <2>2. CASE Refuse \/ SkipRest
    BY <1>2, <2>2, Zenon DEF Refuse, SkipRest, target
  <2> QED BY <2>1, <2>2
<1> QED BY <1>1, <1>3, <1>4, <1>5, <1>6, <1>7, Zenon

\* The bytes a step of a call writes are in the memory of an AP.
LEMMA WritesInMemory ==
  ASSUME NEW e \in Accesses
  PROVE  Writes(e) \subseteq APs \X Memory /\ RangeOf(e) \subseteq Memory
<1>1. e.ap \in APs /\ WellFormed(e)
  BY AccessHasType
<1>2. RangeOf(e) \subseteq Memory
  BY <1>1 DEF WellFormed, RangeOf
<1>3. \A b \in RangeOf(e) : <<e.ap, b>> \in APs \X Memory
  BY <1>1, <1>2
<1> QED BY <1>2, <1>3, Zenon DEF Writes

\* So are those of a list.
LEMMA WrittenInMemory ==
  ASSUME NEW s \in Seq(Accesses)
  PROVE  WrittenBy(s) \subseteq APs \X Memory
<1>1. WrittenBy(s) = UNION {Writes(e) : e \in Range(s)}
  BY WrittenIs
<1>2. \A e \in Range(s) : Writes(e) \subseteq APs \X Memory
  <2>1. \A e \in Range(s) : e \in Accesses
    BY DEF Range
  <2> QED BY <2>1, WritesInMemory, Zenon
<1> QED BY <1>1, <1>2, Zenon

\* An access fails, is refused by a sticky error, or is skipped after a failure.
LEMMA DroppedControl ==
  ASSUME Control, Fail \/ Refuse \/ SkipRest
  PROVE  Control'
<1>1. Types /\ HistoryTypes /\ TargetTypes
  BY TypesAre, Zenon DEF Control
<1>2. PICK e : e = Head(queue)
  OBVIOUS
<1>3. /\ queue # << >> /\ queue' = Tail(queue) /\ e \in Accesses
      /\ spoilt' = spoilt \cup Writes(e)
      /\ failure' \in Failures /\ failure' # NoError /\ failures' \in 0..MaxFailures
      /\ UNCHANGED <<host, mem, wanted, lost, reading, wrong>>
      /\ hw' \in HwType /\ hw'.power = hw.power
  BY <1>1, <1>2, DroppedIs
<1>4. HistoryTypes'
  <2>1. spoilt' \subseteq APs \X Memory
    BY <1>1, <1>3, WritesInMemory, Zenon DEF HistoryTypes
  <2> QED BY <1>1, <1>3, <2>1, Zenon DEF HistoryTypes, WantedTypes
<1>5. TargetTypes'
  BY <1>1, <1>3, Zenon DEF TargetTypes
<1>6. UNCHANGED <<menu, phase, todo, csw>> /\ dpSelect' \in {dpSelect, Unknown}
  BY <1>3, Zenon DEF host
<1> QED BY <1>3, <1>4, <1>5, <1>6, OutsideControl, Zenon

\* The target powers up, another debugger uses the registers, or RTTView has
\* the probe forget SELECT.
LEMMA OthersControl ==
  ASSUME Control, ForeignAccess \/ PowersUp \/ InvalidateCache
  PROVE  Control'
<1>1. Types /\ HistoryTypes /\ TargetTypes /\ HostTypes /\ NothingDropped
  BY TypesAre, Zenon DEF Control
<1>2. /\ UNCHANGED <<menu, phase, todo, csw, queue, failure, failures, mem>>
      /\ UNCHANGED <<wanted, spoilt, reading, dropped>>
      /\ dpSelect' \in {dpSelect, Unknown}
  BY Zenon DEF ForeignAccess, PowersUp, InvalidateCache, host, counters, history, target
<1>3. hw' \in HwType /\ (hw.power = "on" => hw'.power = "on")
  <2>1. CASE ForeignAccess
    <3>1. PICK a \in APs, bank \in {0, 15} :
            hw' = [hw EXCEPT !.select = <<a, bank>>, !.csw[a] = 2, !.tar[a] = 0]
      BY <2>1, Zenon DEF ForeignAccess
    <3>2. PICK h : h = [hw EXCEPT !.select = <<a, bank>>, !.csw[a] = 2, !.tar[a] = 0]
      OBVIOUS
    <3>3. hw \in HwType
      BY <1>1, Zenon DEF TargetTypes
    <3>4. PICK s \in Selections : s = <<a, bank>>
      BY DEF Selections
    <3>5. PICK c, t : c = [hw.csw EXCEPT ![a] = 2] /\ t = [hw.tar EXCEPT ![a] = 0]
      OBVIOUS
    <3>6. c \in [APs -> Sizes] /\ t \in [APs -> Nat]
      BY ONLY <3>3, <3>5, a \in APs DEF HwType, Sizes
    <3>7. h = [hw EXCEPT !.select = s, !.csw = c, !.tar = t]
      BY <3>2, <3>3, <3>4, <3>5 DEF HwType
    <3>8. h \in HwType /\ h.power = hw.power
      BY ONLY <3>3, <3>6, <3>7, s \in Selections DEF HwType
    <3>9. hw' = h
      BY <3>1, <3>2, Zenon
    <3> QED BY <3>8, <3>9, Zenon
  <2>2. CASE PowersUp
    <3>1. PICK h : h = [hw EXCEPT !.power = "on"]
      OBVIOUS
    <3>2. hw' = h /\ hw \in HwType
      BY <1>1, <2>2, <3>1, Zenon DEF PowersUp, TargetTypes
    <3>3. h \in HwType /\ h.power = "on"
      BY <3>1, <3>2 DEF HwType
    <3> QED BY <3>2, <3>3, Zenon
  <2>3. CASE InvalidateCache
    BY <1>1, <2>3, Zenon DEF InvalidateCache, target, TargetTypes
  <2> QED BY <2>1, <2>2, <2>3
<1>4. TargetTypes' /\ HistoryTypes'
  BY <1>1, <1>2, <1>3, Zenon DEF TargetTypes, HistoryTypes, WantedTypes
<1>5. failure' \in Failures /\ failures' \in 0..MaxFailures /\ (failure' = NoError => dropped' = {})
  BY <1>1, <1>2, Zenon DEF HostTypes, NothingDropped
<1> QED BY <1>2, <1>3, <1>4, <1>5, OutsideControl, Zenon

\* An error is raised to the caller.
\* What the handler of an error queues.
LEMMA HandledIs ==
  ASSUME queue' = Handled
  PROVE  /\ queue' \in Seq(Accesses) /\ Len(queue') \in {0, 1}
         /\ \A k \in 1..Len(queue') : queue'[k].reg \in {"clear", "abort"}
<1>1. queue' = << >> \/ queue' = <<Plain("clear")>> \/ queue' = <<Plain("abort")>>
  BY DEF Handled
<1>2. PICK s \in Accesses, t \in Accesses :
        s = Plain("clear") /\ t = Plain("abort") /\ s.reg = "clear" /\ t.reg = "abort"
  BY SimpleSteps DEF Registers
<1>3. queue' = << >> \/ queue' = <<s>> \/ queue' = <<t>>
  BY <1>1, <1>2, Zenon
<1>4. PICK q : q = queue'
  OBVIOUS
<1>5. q \in Seq(Accesses) /\ Len(q) \in {0, 1} /\ \A k \in 1..Len(q) : q[k].reg \in {"clear", "abort"}
  <2>1. CASE q = << >>
    BY ONLY <2>1
  <2>2. CASE q = <<s>>
    BY ONLY <1>2, <2>2, s \in Accesses
  <2>3. CASE q = <<t>>
    BY ONLY <1>2, <2>3, t \in Accesses
  <2> QED BY <1>3, <1>4, <2>1, <2>2, <2>3, Zenon
<1> QED BY <1>4, <1>5, Zenon

\* An exception ends the call.
LEMMA RaiseControl ==
  ASSUME Control, Raise
  PROVE  Control'
<1>1. Types /\ HistoryTypes /\ TargetTypes /\ HostTypes /\ QueueTypes /\ CallTypes
  BY TypesAre, Zenon DEF Control
<1>2. /\ todo # << >> /\ todo' = << >> /\ menu' = menu /\ queue' = Handled /\ failure' = NoError
      /\ phase' = (IF phase = "opening" \/ At("close") THEN "closed" ELSE phase)
      /\ dropped' = {} /\ reading' = NoReading /\ failures' = failures
      /\ UNCHANGED <<hw, mem, wanted>>
      /\ spoilt' = spoilt \cup WrittenBy(todo) \cup WrittenBy(queue)
      /\ dpSelect' = (IF ForgetsSelect THEN Unknown ELSE dpSelect)
      /\ csw' = (IF Step1.guarded THEN [csw EXCEPT ![Step1.ap] = Unset] ELSE csw)
  BY Zenon DEF Raise, AfterError, target, counters
<1>3. csw' \in [APs -> Sizes]
  BY <1>1, <1>2 DEF HostTypes, Sizes, Unset
<1>4. phase' = "closed" \/ phase' = phase
  BY <1>2
<1>5. phase' # "opening"
  BY <1>2
<1>6. /\ queue' \in Seq(Accesses) /\ Len(queue') \in {0, 1}
      /\ \A k \in 1..Len(queue') : queue'[k].reg \in {"clear", "abort"}
  BY <1>2, HandledIs
<1>7. QueueTypes'
  <2>1. Len(queue') <= MaxQueue
    BY <1>6, AccessPortAssumption
  <2> QED BY <1>6, <2>1, Zenon DEF QueueTypes
<1>8. \A k \in 1..Len(queue') : ~IsAccess(queue'[k])
  BY <1>6 DEF IsAccess
<1>9. HistoryTypes'
  <2>1. spoilt' \subseteq APs \X Memory
    <3>1. WrittenBy(todo) \subseteq APs \X Memory /\ WrittenBy(queue) \subseteq APs \X Memory
      BY <1>1, WrittenInMemory, Zenon DEF CallTypes, QueueTypes
    <3>2. spoilt \subseteq APs \X Memory
      BY <1>1, Zenon DEF HistoryTypes
    <3> QED BY <1>2, <3>1, <3>2, Zenon
  <2>2. reading' \in ReadingType
    BY <1>2, NoReadingType
  <2> QED BY <1>1, <1>2, <2>1, <2>2, Zenon DEF HistoryTypes, WantedTypes
<1>10. dpSelect' \in {dpSelect, Unknown} /\ failure' \in Failures /\ failures' \in 0..MaxFailures
  <2>1. NoError \in Failures
    BY DEF Failures
  <2> QED BY <1>1, <1>2, <2>1, Zenon DEF HostTypes
<1> QED BY <1>2, <1>3, <1>4, <1>5, <1>7, <1>8, <1>9, <1>10, EndsControl, Zenon

-----------------------------------------------------------------------------
(* What an executed transfer does to the memory and to the read.           *)
Strikes(e) == IF e.reg = "drw" /\ Bank0 THEN Hit(hw.select[1]) ELSE {}
Excused(e) == Amiss(e) \cap Gone # {}

\* A lane holds a byte.
LEMMA LaneType ==
  ASSUME NEW e \in Accesses, NEW l
  PROVE  Lane(e, l) \in Nat
<1>1. e.ap \in APs /\ RangeOf(e) \subseteq Memory
  BY AccessHasType, WritesInMemory
<1>2. e.ap \in Nat /\ Memory \subseteq Nat
  BY <1>1, AccessPortAssumption
<1>3. \A a \in Memory : Stamp(e.ap, a) \in Nat
  <2>1. PICK ap \in Nat : ap = e.ap
    BY <1>2, Zenon
  <2>2. \A a \in Memory : Stamp(ap, a) \in Nat
    BY <1>2 DEF Stamp
  <2> QED BY <2>1, <2>2, Zenon
<1>4. CASE \E a \in RangeOf(e) : a % 4 = l
  <2>1. PICK c : c = CHOOSE a \in RangeOf(e) : a % 4 = l
    OBVIOUS
  <2>2. c \in RangeOf(e)
    BY <1>4, <2>1, Zenon
  <2>3. Lane(e, l) = Stamp(e.ap, c)
    BY <1>4, <2>1, Zenon DEF Lane
  <2> QED BY <1>1, <1>3, <2>2, <2>3, Zenon
<1>5. CASE ~(\E a \in RangeOf(e) : a % 4 = l)
  <2>1. Lane(e, l) = 0
    BY <1>5, Zenon DEF Lane
  <2> QED BY <2>1
<1> QED BY <1>4, <1>5

\* A write places its lanes in the bytes it strikes.
LEMMA ExecutedMemory ==
  ASSUME Types, Execute, NEW e, e = Head(queue), NEW ap, ap = hw.select[1]
  PROVE  /\ e \in Accesses /\ mem' \in [APs -> [Memory -> Nat]]
         /\ Strikes(e) \subseteq Memory /\ (Strikes(e) # {} => ap \in APs)
         /\ \A a \in APs, b \in Memory :
              mem'[a][b] = IF e.write /\ a = ap /\ b \in Strikes(e) THEN Lane(e, b % 4) ELSE mem[a][b]
<1>1. e \in Accesses
  BY ExecutedIs
<1>2. PICK hits : hits = Strikes(e)
  OBVIOUS
<1>3. hits \subseteq Memory /\ (hits # {} => ap \in APs)
  BY <1>2, Zenon DEF Strikes, Hit, Bank0
<1>4. mem' = (IF e.write /\ hits # {}
                THEN [mem EXCEPT ![ap] = [b \in Memory |-> IF b \in hits THEN Lane(e, b % 4) ELSE @[b]]]
                ELSE mem)
  BY <1>2, Zenon DEF Execute, Strikes
<1>5. mem \in [APs -> [Memory -> Nat]]
  BY Zenon DEF Types
<1>6. \A b \in Memory : Lane(e, b % 4) \in Nat
  BY <1>1, LaneType
<1>7. ASSUME e.write /\ hits # {}
      PROVE  /\ mem' \in [APs -> [Memory -> Nat]]
             /\ \A a \in APs, b \in Memory :
                  mem'[a][b] = IF e.write /\ a = ap /\ b \in hits THEN Lane(e, b % 4) ELSE mem[a][b]
  <2>1. PICK row : row = [b \in Memory |-> IF b \in hits THEN Lane(e, b % 4) ELSE mem[ap][b]]
    OBVIOUS
  <2>2. row \in [Memory -> Nat]
    <3>1. \A b \in Memory : mem[ap][b] \in Nat
      BY <1>3, <1>5, <1>7
    <3>2. \A b \in Memory : (IF b \in hits THEN Lane(e, b % 4) ELSE mem[ap][b]) \in Nat
      BY <1>6, <3>1
    <3> QED BY ONLY <2>1, <3>2
  <2>3. PICK m : m = [mem EXCEPT ![ap] = row]
    OBVIOUS
  <2>4. mem' = m
    BY <1>4, <1>7, <2>1, <2>3, Zenon
  <2>5. m \in [APs -> [Memory -> Nat]] /\ \A a \in APs : m[a] = IF a = ap THEN row ELSE mem[a]
    BY ONLY <1>3, <1>5, <1>7, <2>2, <2>3
  <2>6. \A b \in Memory : row[b] = IF b \in hits THEN Lane(e, b % 4) ELSE mem[ap][b]
    BY <2>1, Zenon
  <2>7. \A a \in APs, b \in Memory :
          m[a][b] = IF a = ap /\ b \in hits THEN Lane(e, b % 4) ELSE mem[a][b]
    BY <2>5, <2>6, Zenon
  <2>8. \A a \in APs, b \in Memory :
          mem'[a][b] = IF e.write /\ a = ap /\ b \in hits THEN Lane(e, b % 4) ELSE mem[a][b]
    BY <1>7, <2>4, <2>7, Zenon
  <2>9. mem' \in [APs -> [Memory -> Nat]]
    BY <2>4, <2>5, Zenon
  <2> QED BY <2>8, <2>9
<1>8. ASSUME ~(e.write /\ hits # {})
      PROVE  /\ mem' \in [APs -> [Memory -> Nat]]
             /\ \A a \in APs, b \in Memory :
                  mem'[a][b] = IF e.write /\ a = ap /\ b \in hits THEN Lane(e, b % 4) ELSE mem[a][b]
  <2>1. mem' = mem
    BY <1>4, <1>8
  <2>2. \A b \in Memory : ~(e.write /\ b \in hits)
    BY <1>8, Zenon
  <2>3. /\ mem' \in [APs -> [Memory -> Nat]]
        /\ \A a \in APs, b \in Memory :
             mem'[a][b] = IF e.write /\ a = ap /\ b \in hits THEN Lane(e, b % 4) ELSE mem[a][b]
    BY <1>5, <2>1, <2>2, Zenon
  <2> QED BY <2>3
<1>9. /\ mem' \in [APs -> [Memory -> Nat]]
      /\ \A a \in APs, b \in Memory :
           mem'[a][b] = IF e.write /\ a = ap /\ b \in hits THEN Lane(e, b % 4) ELSE mem[a][b]
  BY <1>7, <1>8
<1>10. \A a \in APs, b \in Memory :
         mem'[a][b] = IF e.write /\ a = ap /\ b \in Strikes(e) THEN Lane(e, b % 4) ELSE mem[a][b]
  BY <1>2, <1>9, Zenon
<1>11. Strikes(e) \subseteq Memory /\ (Strikes(e) # {} => ap \in APs)
  BY <1>2, <1>3, Zenon
<1> QED BY <1>1, <1>9, <1>10, <1>11

\* What may have gone astray is spoilt.
LEMMA ExecutedSpoilt ==
  ASSUME Types, Execute, NEW e, e = Head(queue), NEW ap, ap = hw.select[1]
  PROVE  /\ spoilt' = IF e.write /\ Amiss(e) # {} /\ Excused(e)
                        THEN spoilt \cup ({ap} \X Strikes(e)) \cup Writes(e) ELSE spoilt
         /\ spoilt' \subseteq APs \X Memory
<1>1. PICK hits : hits = Strikes(e)
  OBVIOUS
<1>2. spoilt' = (IF e.write /\ Amiss(e) # {} /\ Excused(e)
                   THEN spoilt \cup {<<ap, b>> : b \in hits} \cup {<<e.ap, b>> : b \in RangeOf(e)}
                   ELSE spoilt)
  BY <1>1, Zenon DEF Execute, Strikes, Excused, Gone
<1>3. {<<ap, b>> : b \in hits} = {ap} \X hits
  OBVIOUS
<1>4. e.write => Writes(e) = {<<e.ap, b>> : b \in RangeOf(e)}
  BY Zenon DEF Writes
<1>5. spoilt' = (IF e.write /\ Amiss(e) # {} /\ Excused(e)
                   THEN spoilt \cup ({ap} \X hits) \cup Writes(e) ELSE spoilt)
  BY <1>2, <1>3, <1>4, Zenon
<1>6. e \in Accesses /\ hits \subseteq Memory /\ (hits # {} => ap \in APs)
  BY <1>1, ExecutedMemory
<1>7. Writes(e) \subseteq APs \X Memory /\ spoilt \subseteq APs \X Memory
  BY <1>6, WritesInMemory, Zenon DEF Types, TypeOK
<1>8. {ap} \X hits \subseteq APs \X Memory
  BY <1>6
<1>9. spoilt' \subseteq APs \X Memory
  BY <1>5, <1>7, <1>8, Zenon
<1> QED BY <1>1, <1>5, <1>9, Zenon

\* One list after the other.
LEMMA Concatenated ==
  ASSUME NEW S, NEW s \in Seq(S), NEW t \in Seq(S), NEW u, u = s \o t
  PROVE  /\ u \in Seq(S) /\ Len(u) = Len(s) + Len(t)
         /\ \A k \in 1..Len(s) : u[k] = s[k]
         /\ \A k \in 1..Len(t) : u[Len(s) + k] = t[k]
  OBVIOUS

\* The bytes a read brings, as far as the memory has them.
Brings(e, k) ==
  LET a == 4 * (hw.tar[e.ap] \div 4) + ((e.addr + k - 1) % 4)
  IN IF a \in Memory THEN mem[e.ap][a] ELSE 0

\* What an executed access adds to the read in progress: one that belongs to
\* it, when those queued before the call are passed, brings its bytes.
LEMMA ExecutedReading ==
  ASSUME Types, Execute, NEW e, e = Head(queue)
  PROVE  /\ reading' \in ReadingType /\ reading'.length = reading.length
         /\ reading'.ap = reading.ap /\ reading'.addr = reading.addr
         /\ ~IsRead(e) \/ reading.length = 0 => reading' = reading
         /\ IsRead(e) /\ reading.length # 0 /\ reading.skip # 0 =>
              reading'.skip = reading.skip - 1 /\ reading'.got = reading.got
              /\ reading'.sound = reading.sound
         /\ IsRead(e) /\ reading.length # 0 /\ reading.skip = 0 =>
              /\ reading'.skip = 0 /\ Len(reading'.got) = Len(reading.got) + e.size
              /\ \A k \in 1..Len(reading.got) : reading'.got[k] = reading.got[k]
              /\ \A k \in 1..e.size : reading'.got[Len(reading.got) + k] = Brings(e, k)
              /\ reading'.sound => reading.sound /\ (Amiss(e) = {} \/ ~Excused(e))
<1>1. e \in Accesses /\ e.ap \in APs /\ e.addr \in Nat /\ e.size \in Nat
  <2>1. e \in Accesses
    BY ExecutedIs
  <2>2. e.ap \in APs /\ e.addr \in Nat /\ e.size \in Sizes
    BY <2>1, AccessHasType
  <2> QED BY <2>1, <2>2 DEF Sizes
<1>2. reading \in ReadingType
  BY Zenon DEF Types
<1>3. PICK r : r = reading
  OBVIOUS
<1>4. r \in ReadingType /\ r.length \in Nat /\ r.skip \in Nat /\ r.got \in Seq(Nat)
  BY <1>2, <1>3 DEF ReadingType
<1>5. reading' = (IF ~IsRead(e) \/ r.length = 0 THEN r
                  ELSE IF r.skip > 0 THEN [r EXCEPT !.skip = @ - 1]
                  ELSE [r EXCEPT !.sound = @ /\ (Amiss(e) = {} \/ ~Excused(e)),
                                 !.got = @ \o [k \in 1..e.size |-> Brings(e, k)]])
  BY <1>3, Zenon DEF Execute, Excused, Gone, Brings
<1>6. CASE ~IsRead(e) \/ r.length = 0
  <2>1. reading' = reading
    BY <1>3, <1>5, <1>6
  <2> QED BY <1>2, <1>3, <1>6, <2>1, Zenon
<1>7. CASE IsRead(e) /\ r.length # 0 /\ r.skip # 0
  <2>1. r.skip > 0 /\ r.skip - 1 \in Nat
    BY <1>4, <1>7
  <2>2. PICK x : x = [r EXCEPT !.skip = r.skip - 1]
    OBVIOUS
  <2>3. reading' = x
    BY <1>5, <1>7, <2>1, <2>2, Zenon
  <2>4. /\ x \in ReadingType /\ x.length = r.length /\ x.ap = r.ap /\ x.addr = r.addr
        /\ x.skip = r.skip - 1 /\ x.got = r.got /\ x.sound = r.sound
    BY <1>4, <2>1, <2>2 DEF ReadingType
  <2> QED BY <1>3, <1>7, <2>3, <2>4, Zenon
<1>8. CASE IsRead(e) /\ r.length # 0 /\ r.skip = 0
  <2>1. ~(r.skip > 0)
    BY <1>8
  <2>2. PICK t \in BOOLEAN : t = (r.sound /\ (Amiss(e) = {} \/ ~Excused(e)))
    OBVIOUS
  <2>3. PICK more : more = [k \in 1..e.size |-> Brings(e, k)]
    OBVIOUS
  <2>4. \A k \in 1..e.size : Brings(e, k) \in Nat
    <3>1. \A a \in Memory : mem[e.ap][a] \in Nat
      BY <1>1 DEF Types
    <3> QED BY <3>1 DEF Brings
  <2>5. more \in Seq(Nat) /\ Len(more) = e.size /\ \A k \in 1..e.size : more[k] = Brings(e, k)
    BY ONLY <1>1, <2>3, <2>4
  <2>6. PICK g : g = r.got \o more
    OBVIOUS
  <2>7. /\ g \in Seq(Nat) /\ Len(g) = Len(r.got) + e.size
        /\ \A k \in 1..Len(r.got) : g[k] = r.got[k]
        /\ \A k \in 1..e.size : g[Len(r.got) + k] = more[k]
    <3>1. PICK s, n : s = r.got /\ n = e.size
      OBVIOUS
    <3>2. s \in Seq(Nat) /\ more \in Seq(Nat) /\ Len(more) = n
      BY <1>4, <2>5, <3>1, Zenon
    <3>3. /\ g \in Seq(Nat) /\ Len(g) = Len(s) + n
          /\ \A k \in 1..Len(s) : g[k] = s[k]
          /\ \A k \in 1..n : g[Len(s) + k] = more[k]
      <4>1. g = s \o more
        BY <2>6, <3>1, Zenon
      <4>2. /\ g \in Seq(Nat) /\ Len(g) = Len(s) + Len(more)
            /\ \A k \in 1..Len(s) : g[k] = s[k]
            /\ \A k \in 1..Len(more) : g[Len(s) + k] = more[k]
        <5>1. \A a \in Seq(Nat), b \in Seq(Nat) : LET c == a \o b IN
                /\ c \in Seq(Nat) /\ Len(c) = Len(a) + Len(b)
                /\ \A k \in 1..Len(a) : c[k] = a[k]
                /\ \A k \in 1..Len(b) : c[Len(a) + k] = b[k]
          BY Concatenated
        <5> QED BY <3>2, <4>1, <5>1, Zenon
      <4> QED BY <3>2, <4>2, Zenon
    <3> QED BY <3>1, <3>3, Zenon
  <2>8. PICK x : x = [r EXCEPT !.sound = t, !.got = g]
    OBVIOUS
  <2>9. reading' = x
    BY <1>5, <1>8, <2>1, <2>2, <2>3, <2>6, <2>8, Zenon
  <2>10. /\ x \in ReadingType /\ x.length = r.length /\ x.ap = r.ap /\ x.addr = r.addr
         /\ x.skip = r.skip /\ x.got = g /\ x.sound = t
    BY ONLY <1>4, <2>7, <2>8, t \in BOOLEAN DEF ReadingType
  <2>11. /\ reading' \in ReadingType /\ reading'.length = reading.length
         /\ reading'.ap = reading.ap /\ reading'.addr = reading.addr /\ reading'.skip = 0
    BY <1>3, <1>8, <2>9, <2>10, Zenon
  <2>12. /\ Len(reading'.got) = Len(reading.got) + e.size
         /\ \A k \in 1..Len(reading.got) : reading'.got[k] = reading.got[k]
         /\ \A k \in 1..e.size : reading'.got[Len(reading.got) + k] = Brings(e, k)
    BY <1>3, <2>5, <2>7, <2>9, <2>10, Zenon
  <2>13. reading'.sound => reading.sound /\ (Amiss(e) = {} \/ ~Excused(e))
    BY <1>3, <2>2, <2>9, <2>10, Zenon
  <2> QED BY <1>3, <1>8, <2>11, <2>12, <2>13, Zenon
<1> QED BY <1>3, <1>6, <1>7, <1>8, Zenon

\* The target executes the first access of the queue.
LEMMA ExecuteControl ==
  ASSUME Control, Execute
  PROVE  Control'
<1>1. Types /\ HistoryTypes /\ HostTypes /\ NothingDropped
  BY TypesAre, Zenon DEF Control
<1>2. PICK e, ap : e = Head(queue) /\ ap = hw.select[1]
  OBVIOUS
<1>3. hw' \in HwType /\ (hw.power = "on" => hw'.power = "on")
  BY <1>1, <1>2, ExecutedHw
<1>4. mem' \in [APs -> [Memory -> Nat]]
  BY <1>1, <1>2, ExecutedMemory
<1>5. spoilt' \subseteq APs \X Memory
  BY <1>1, <1>2, ExecutedSpoilt
<1>6. reading' \in ReadingType
  BY <1>1, <1>2, ExecutedReading
<1>7. UNCHANGED <<menu, phase, todo, csw, dpSelect, failure, failures, wanted>>
      /\ queue # << >> /\ queue' = Tail(queue)
  BY Zenon DEF Execute, host, counters
<1>8. TargetTypes' /\ HistoryTypes'
  BY <1>1, <1>3, <1>4, <1>5, <1>6, <1>7, Zenon DEF TargetTypes, HistoryTypes, WantedTypes
<1>9. failure' = NoError => dropped' = {}
  <2>1. dropped' \subseteq dropped
    BY <1>1, <1>2, ExecutedIs
  <2> QED BY <1>1, <1>7, <2>1, Zenon DEF NothingDropped
<1>10. failure' \in Failures /\ failures' \in 0..MaxFailures
  BY <1>1, <1>7, Zenon DEF HostTypes
<1> QED BY <1>3, <1>7, <1>8, <1>9, <1>10, OutsideControl, Zenon

-----------------------------------------------------------------------------
(* Types, control and copies hold in every state.                          *)
\* The closed link has all parts but those about memory.
LEMMA InitControl ==
  ASSUME Init
  PROVE  Control /\ Copies
<1>1. /\ menu \in Menus /\ phase = "closed" /\ todo = << >> /\ queue = << >>
      /\ dpSelect = Unknown /\ csw = [a \in APs |-> Unset] /\ failure = NoError
      /\ mem = [a \in APs |-> [b \in Memory |-> Before(a, b)]] /\ wanted = mem
      /\ spoilt = {} /\ dropped = {} /\ lost = {} /\ reading = NoReading
      /\ wrong = {} /\ failures = 0
  BY Zenon DEF Init
<1>2. HostTypes
  BY <1>1, AccessPortAssumption DEF HostTypes, Selections, Sizes, Unset, Failures
<1>3. CallTypes /\ QueueTypes /\ 1..Len(todo) = {} /\ 1..Len(queue) = {}
  <2>1. \A s : s = << >> => s \in Seq(Accesses) /\ 1..Len(s) = {} /\ Len(s) = 0
    OBVIOUS
  <2>2. /\ todo \in Seq(Accesses) /\ 1..Len(todo) = {}
        /\ queue \in Seq(Accesses) /\ 1..Len(queue) = {} /\ Len(queue) = 0
    BY <1>1, <2>1, Zenon
  <2>3. Len(queue) <= MaxQueue
    BY <2>2, AccessPortAssumption
  <2>4. CallTypes
    BY <2>2, Zenon DEF CallTypes
  <2> QED BY <2>2, <2>3, <2>4, Zenon DEF QueueTypes
<1>4. hw \in HwType
  <2>1. PICK f \in BOOLEAN : f = FALSE
    OBVIOUS
  <2>2. PICK s \in Selections : s = Unknown
    BY DEF Selections
  <2>3. PICK c \in [APs -> Sizes] : c = [a \in APs |-> Unset]
    BY DEF Sizes, Unset
  <2>4. PICK t \in [APs -> Nat] : t = [a \in APs |-> 0]
    OBVIOUS
  <2>5. hw = [select |-> s, csw |-> c, tar |-> t, sticky |-> f, power |-> "off"]
    BY <2>1, <2>2, <2>3, <2>4, Zenon DEF Init
  <2> QED BY ONLY <2>5, f \in BOOLEAN, s \in Selections, c \in [APs -> Sizes], t \in [APs -> Nat]
          DEF HwType
<1>5. /\ mem \in [APs -> [Memory -> Nat]]
      /\ \A a \in APs : \A b \in Memory : mem[a][b] = Before(a, b)
  <2>1. \A a \in APs : \A b \in Memory : Before(a, b) \in Nat
    <3>1. APs \subseteq Nat /\ Memory \subseteq Nat
      BY AccessPortAssumption
    <3> QED BY <3>1 DEF Before
  <2> QED BY <1>1, <2>1
<1>6. TargetTypes /\ HistoryTypes
  <2>1. WantedTypes
    BY <1>1, <1>5 DEF WantedTypes
  <2>2. reading \in ReadingType
    BY <1>1, NoReadingType
  <2> QED BY <1>1, <1>4, <1>5, <2>1, <2>2 DEF TargetTypes, HistoryTypes
<1>7. Types
  <2>1. TypeOK
    <3>1. /\ phase \in {"closed", "opening", "open"}
          /\ dpSelect \in (APs \X {0, 15}) \cup {Unknown} /\ csw \in [APs -> {Unset, 1, 2, 4}]
          /\ failure \in {NoError, "fault", "timeout", "error"} /\ failures \in 0..MaxFailures
      BY <1>2 DEF HostTypes, Selections, Sizes, Unset, Failures
    <3>2. /\ hw.select \in (APs \X {0, 15}) \cup {Unknown} /\ hw.csw \in [APs -> {Unset, 1, 2, 4}]
          /\ hw.power \in {"off", "asked", "on"} /\ hw.sticky \in BOOLEAN
      BY <1>4 DEF HwType, Selections, Sizes, Unset
    <3> QED BY <1>3, <1>6, <3>1, <3>2, Zenon DEF TypeOK, HistoryTypes, WantedTypes, QueueTypes
  <2> QED BY <1>2, <1>3, <1>6, <2>1, Zenon
          DEF Types, HostTypes, CallTypes, QueueTypes, TargetTypes, HistoryTypes, WantedTypes
<1>8. Control
  <2>1. Shape
    <3>1. phase # "opening" /\ phase # "open"
      BY <1>1
    <3> QED BY <1>1, <1>3, <3>1, Zenon DEF Shape, At
  <2>2. Powered
    <3>1. phase # "open"
      BY <1>1
    <3> QED BY <1>3, <3>1, Zenon DEF Powered
  <2> QED BY <1>1, <1>7, <2>1, <2>2, Zenon DEF Control, NothingDropped
<1>9. Copies
  <2>1. CswKnown
    BY <1>1 DEF CswKnown
  <2>2. SelectKnown /\ QueueReady /\ TodoReady /\ AccessRight
    BY <1>1, <1>3, Zenon DEF SelectKnown, QueueReady, TodoReady, AccessRight
  <2> QED BY <2>1, <2>2 DEF Copies
<1> QED BY <1>8, <1>9

\* The calls the model starts.
LEMMA CallsAre ==
  ASSUME Calls
  PROVE  \/ Open \/ Reset \/ InvalidateCache \/ OtherCalls
         \/ \E r \in menu.requests : Access(r)
BY Zenon DEF Calls, OtherCalls

\* Every step keeps types, shape and the copies.
LEMMA NextControl ==
  ASSUME Control, Copies, [Next]_vars
  PROVE  Control' /\ Copies'
<1>1. CASE UNCHANGED vars
  <2>1. UNCHANGED <<menu, phase, todo, dpSelect, csw, queue, failure, hw, mem>>
        /\ UNCHANGED <<wanted, spoilt, dropped, lost, reading, wrong, failures>>
    BY <1>1, Zenon DEF vars, host, target, history, counters
  <2>2. Control'
    <3>1. Types'
      BY <2>1, Zenon DEF Control, Types, TypeOK
    <3>2. Shape'
      BY <2>1, Zenon DEF Control, Shape, At
    <3>3. NothingDropped' /\ Powered'
      BY <2>1, Zenon DEF Control, NothingDropped, Powered, IsAccess
    <3> QED BY <3>1, <3>2, <3>3 DEF Control
  <2>3. Copies'
    <3>1. /\ SelectKnown' /\ CswKnown' /\ QueueReady' /\ AccessRight'
          /\ \A a \in APs : \A v : TarReady(End, a, v) => TarReady(End, a, v)'
      <4>1. Gone \subseteq Gone'
        BY <2>1, Zenon DEF Gone
      <4>2. Types /\ wrong' \subseteq wrong \cup {<<"answer", 0>>} /\ dpSelect' \in {dpSelect, Unknown}
            /\ queue' = queue /\ failure' = failure /\ \A a \in APs : csw'[a] \in {csw[a], Unset}
        BY <2>1, Zenon DEF Control
      <4>3. /\ Select \in Gone' \/ hw'.select = hw.select
            /\ \A a \in APs : /\ CSW(a) \in Gone' \/ hw'.csw[a] = hw.csw[a]
                              /\ TAR(a) \in Gone' \/ hw'.tar[a] = hw.tar[a]
        BY <2>1, Zenon
      <4> QED BY <4>1, <4>2, <4>3, KeptCopies
    <3>2. TodoReady'
      BY <2>1, <3>1, SameCall, Zenon DEF Control, Copies
    <3> QED BY <3>1, <3>2 DEF Copies
  <2> QED BY <2>2, <2>3
<1>2. CASE Open \/ Reset \/ OtherCalls \/ (\E r \in menu.requests : Access(r))
  BY <1>2, StartedControl, StartedCopies
<1>3. CASE Fail \/ Refuse \/ SkipRest
  BY <1>3, DroppedControl, DroppedCopies
<1>4. CASE ForeignAccess \/ PowersUp \/ InvalidateCache
  BY <1>4, OthersControl, OutsideCopies
<1>5. CASE Execute
  BY <1>5, ExecuteControl, ExecuteCopies
<1>6. CASE Raise
  BY <1>6, RaiseControl, RaiseCopies
<1>7. CASE IssueSelect
  BY <1>7, IssueSelectControl, IssueSelectCopies
<1>8. CASE Issue
  BY <1>8, IssueControl, IssueCopies
<1>9. CASE DpWrite
  BY <1>9, DpWriteControl, DpWriteCopies
<1>10. CASE Completed \/ ResultThere \/ Poll
  BY <1>10, QuietControl, QuietStepCopies
<1>11. CASE IssueCswCached
  BY <1>11, QuietControl, IssueCswCachedCopies
<1>12. CASE ReadIdCode
  BY <1>12, ReadIdCodeControl, QuietStepCopies
<1>13. CASE ReadIdCodeFails
  BY <1>13, ReadIdCodeFailsControl, QuietStepCopies
<1>14. CASE Connect
  BY <1>14, ConnectControl, ConnectCopies
<1>15. CASE ProbeCommand
  BY <1>15, ProbeCommandControl, ProbeCommandCopies
<1>16. CASE Calls
  BY <1>2, <1>4, <1>16, CallsAre
<1>17. CASE Steps
  BY <1>6, <1>7, <1>8, <1>9, <1>10, <1>11, <1>12, <1>13, <1>14, <1>15, <1>17 DEF Steps
<1> QED BY <1>1, <1>3, <1>4, <1>5, <1>16, <1>17 DEF Next

-----------------------------------------------------------------------------
(* The bytes that are still to be written.                                 *)

\* What the call in progress and the queue write.
LEMMA Writing ==
  ASSUME Types
  PROVE  /\ todo # << >> => WrittenBy(todo) = Writes(Step1) \cup WrittenBy(Tail(todo))
         /\ queue # << >> => WrittenBy(queue) = Writes(Head(queue)) \cup WrittenBy(Tail(queue))
         /\ \A e \in Accesses : WrittenBy(Append(queue, e)) = WrittenBy(queue) \cup Writes(e)
         /\ WrittenBy(<< >>) = {}
<1>1. todo \in Seq(Accesses) /\ queue \in Seq(Accesses)
  BY Zenon DEF Types
<1>2. todo # << >> => WrittenBy(todo) = Writes(Step1) \cup WrittenBy(Tail(todo))
  BY <1>1, WrittenByParts, Zenon DEF Step1
<1>3. queue # << >> => WrittenBy(queue) = Writes(Head(queue)) \cup WrittenBy(Tail(queue))
  BY <1>1, WrittenByParts, Zenon
<1>4. \A e \in Accesses : WrittenBy(Append(queue, e)) = WrittenBy(queue) \cup Writes(e)
  BY <1>1, WrittenByParts, Zenon
<1>5. WrittenBy(<< >>) = {}
  BY <1>1, WrittenByParts, Zenon
<1> QED BY <1>2, <1>3, <1>4, <1>5, Zenon

\* A step that changes neither the memory nor what is wanted of it, and after
\* which what is no longer to be written is spoilt.
LEMMA BytesKept ==
  ASSUME BytesRight, UNCHANGED <<mem, wanted>>, spoilt \subseteq spoilt',
         Pending' \subseteq Pending, Pending \subseteq Pending' \cup spoilt',
         phase' # "open" => \A k \in 1..Len(queue') : queue'[k].reg # "drw"
  PROVE  BytesRight'
<1>1. \A a \in APs, b \in Memory :
        <<a, b>> \notin spoilt' \cup Pending' => mem'[a][b] = wanted'[a][b]
  BY Zenon DEF BytesRight
<1>2. \A a \in APs, b \in Memory : <<a, b>> \in Pending' => wanted'[a][b] = Stamp(a, b)
  BY Zenon DEF BytesRight
<1> QED BY <1>1, <1>2 DEF BytesRight

\* The next step of a call is taken or queued, or a step is queued before it.
LEMMA BytesGoOn ==
  ASSUME Types, BytesRight, todo # << >>, UNCHANGED <<mem, wanted, spoilt>>,
         \/ todo' = Tail(todo) /\ Step1.reg # "drw" /\ queue' = queue
         \/ todo' = Tail(todo) /\ queue' = Append(queue, Step1)
         \/ /\ todo' = todo \/ (todo' = Tail(todo) /\ Step1.reg # "drw")
            /\ \E e \in Accesses : e.reg # "drw" /\ queue' = Append(queue, e),
         phase' # "open" => \A k \in 1..Len(queue') : queue'[k].reg # "drw"
  PROVE  BytesRight'
<1>1. Step1 \in Accesses
  BY RestOfCall
<1>2. Step1.reg # "drw" => WrittenBy(Tail(todo)) = WrittenBy(todo)
  <2>1. Step1.reg # "drw" => Writes(Step1) = {}
    BY TransfersWrite
  <2> QED BY <2>1, Writing
<1>3. CASE todo' = Tail(todo) /\ Step1.reg # "drw" /\ queue' = queue
  <2>1. Pending' = Pending
    BY <1>2, <1>3, Zenon DEF Pending
  <2> QED BY <2>1, BytesKept, Zenon
<1>4. CASE todo' = Tail(todo) /\ queue' = Append(queue, Step1)
  <2>1. WrittenBy(queue') = WrittenBy(queue) \cup Writes(Step1)
    BY <1>1, <1>4, Writing, Zenon
  <2>2. WrittenBy(todo) = Writes(Step1) \cup WrittenBy(todo')
    BY <1>4, Writing, Zenon
  <2>3. Pending' = Pending
    BY <2>1, <2>2, Zenon DEF Pending
  <2> QED BY <2>3, BytesKept, Zenon
<1>5. ASSUME todo' = todo \/ (todo' = Tail(todo) /\ Step1.reg # "drw"),
             NEW e \in Accesses, e.reg # "drw", queue' = Append(queue, e)
      PROVE  BytesRight'
  <2>1. Writes(e) = {}
    BY <1>5, TransfersWrite
  <2>2. WrittenBy(queue') = WrittenBy(queue)
    BY <1>5, <2>1, Writing
  <2>3. WrittenBy(todo') = WrittenBy(todo)
    <3>1. CASE todo' = todo
      BY <3>1
    <3>2. CASE todo' = Tail(todo) /\ Step1.reg # "drw"
      BY <1>2, <3>2
    <3> QED BY <1>5, <3>1, <3>2
  <2>4. Pending' = Pending
    BY <2>2, <2>3, Zenon DEF Pending
  <2> QED BY <2>4, BytesKept, Zenon
<1> QED BY <1>3, <1>4, <1>5, Zenon

\* No transfer is queued before the session is open.
LEMMA QueueBeforeOpen ==
  ASSUME Types, BytesRight, NEW e \in Accesses, queue' = Append(queue, e),
         phase' = phase, phase # "open" => e.reg # "drw"
  PROVE  phase' # "open" => \A k \in 1..Len(queue') : queue'[k].reg # "drw"
<1>1. queue \in Seq(Accesses)
  BY Zenon DEF Types
<1>2. \A k \in 1..Len(queue') : IF k \in 1..Len(queue) THEN queue'[k] = queue[k] ELSE queue'[k] = e
  BY ONLY <1>1, queue' = Append(queue, e), e \in Accesses
<1> QED BY <1>2, Zenon DEF BytesRight

-----------------------------------------------------------------------------
(* The read in progress.                                                   *)
InCall == reading # NoReading => phase = "open" /\ todo # << >> /\ todo[Len(todo)].reg = "await"
GotRight ==
  /\ Len(reading.got) <= reading.length
  /\ reading.addr..reading.addr + reading.length - 1 \subseteq Memory
  /\ reading.sound =>
       \A k \in 1..Len(reading.got) :
         \/ <<reading.ap, reading.addr + k - 1>> \in spoilt
         \/ reading.got[k] = wanted[reading.ap][reading.addr + k - 1]
  /\ \E m \in 0..Len(queue) : Rest(m)

\* The two parts of what is known of a read in progress.
LEMMA ReadRightIs ==
  ReadRight <=> InCall /\ (reading.length > 0 /\ failure = NoError => GotRight)
BY Zenon DEF ReadRight, InCall, GotRight

\* Nothing is claimed when no read is in progress.
LEMMA NoReadInProgress ==
  ASSUME reading' = NoReading
  PROVE  ReadRight'
<1>1. ~(reading'.length > 0)
  BY NoReadingType
<1> QED BY <1>1, Zenon DEF ReadRight

\* A read ends with the wait for its answer.
LEMMA InCallGoesOn ==
  ASSUME Types, InCall, reading' = reading, phase' = phase, todo # << >>,
         todo' = todo \/ (todo' = Tail(todo) /\ (Step1.reg # "await" \/ Tail(todo) # << >>))
  PROVE  InCall'
<1>1. CASE todo' = todo
  BY <1>1, Zenon DEF InCall
<1>2. CASE todo' = Tail(todo) /\ (Step1.reg # "await" \/ Tail(todo) # << >>)
  <2> SUFFICES ASSUME reading # NoReading
               PROVE  phase = "open" /\ todo' # << >> /\ todo'[Len(todo')].reg = "await"
    BY Zenon DEF InCall
  <2>1. todo \in Seq(Accesses) /\ Len(todo) \in Nat /\ Step1 = todo[1]
    BY RestOfCall DEF Types
  <2>2. phase = "open" /\ todo[Len(todo)].reg = "await"
    BY Zenon DEF InCall
  <2>3. Tail(todo) # << >>
    <3>1. CASE Len(todo) = 1
      BY <1>2, <2>1, <2>2, <3>1, Zenon
    <3>2. CASE Len(todo) # 1
      <4>1. Len(Tail(todo)) # 0
        BY <2>1, <3>2, DropHead
      <4> QED BY <4>1, NotEmpty
    <3> QED BY <3>1, <3>2
  <2>4. Tail(todo)[Len(Tail(todo))] = todo[Len(todo)]
    BY <2>1, <2>3, LastOfTail
  <2> QED BY <1>2, <2>2, <2>3, <2>4, Zenon
<1> QED BY <1>1, <1>2

\* A read goes on when the rest of it stays in the queue and in the call.
LEMMA ReadKept ==
  ASSUME ReadRight, InCall', UNCHANGED <<reading, wanted>>, spoilt \subseteq spoilt',
         failure' = NoError => failure = NoError,
         reading.length > 0 /\ failure' = NoError =>
           \A m \in 0..Len(queue) : Rest(m) => \E n \in 0..Len(queue') : Rest(n)'
  PROVE  ReadRight'
<1>1. ASSUME reading'.length > 0, failure' = NoError
      PROVE  GotRight'
  <2>1. reading.length > 0 /\ failure = NoError
    BY <1>1, Zenon
  <2>2. GotRight
    BY <2>1, ReadRightIs, Zenon
  <2>3. \E n \in 0..Len(queue') : Rest(n)'
    BY <1>1, <2>1, <2>2, Zenon DEF GotRight
  <2>4. /\ Len(reading'.got) <= reading'.length
        /\ reading'.addr..reading'.addr + reading'.length - 1 \subseteq Memory
        /\ reading'.sound =>
             \A k \in 1..Len(reading'.got) :
               \/ <<reading'.ap, reading'.addr + k - 1>> \in spoilt'
               \/ reading'.got[k] = wanted'[reading'.ap][reading'.addr + k - 1]
    BY <2>2, Zenon DEF GotRight
  <2> QED BY <2>3, <2>4, Zenon DEF GotRight
<1> QED BY <1>1, Zenon DEF ReadRight, InCall, GotRight

\* Accesses other than reads may stand anywhere.
LEMMA OrderOfOthers ==
  ASSUME NEW x \in Accesses, NEW y \in Accesses, ~IsRead(x) \/ ~IsRead(y)
  PROVE  <<x, y>> \in InOrder
<1>1. PICK p : p = <<x, y>>
  OBVIOUS
<1>2. p \in Accesses \X Accesses /\ p[1] = x /\ p[2] = y
  BY ONLY <1>1, x \in Accesses, y \in Accesses
<1>3. p \in InOrder
  BY <1>2, Zenon DEF InOrder
<1> QED BY <1>1, <1>3

\* What a list of accesses reads.
ReadsOf(e) == IF IsRead(e) THEN RangeOf(e) ELSE {}

\* The bytes a list reads, element by element.
LEMMA ReadBytesAre ==
  ASSUME NEW s
  PROVE  \A b : b \in ReadBytes(s) <=> \E e \in Range(s) : b \in ReadsOf(e)
<1>1. \A b : b \in ReadBytes(s) <=> \E e \in Range(s) : IsRead(e) /\ b \in RangeOf(e)
  BY Zenon DEF ReadBytes
<1>2. \A e : \A b : b \in ReadsOf(e) <=> IsRead(e) /\ b \in RangeOf(e)
  BY DEF ReadsOf
<1> QED BY <1>1, <1>2, Zenon

\* Lists that begin or end with an access.
LEMMA ReadListEnds ==
  ASSUME NEW s \in Seq(Accesses)
  PROVE  /\ s # << >> => /\ ReadBytes(s) = ReadsOf(Head(s)) \cup ReadBytes(Tail(s))
                         /\ Range(s) = {Head(s)} \cup Range(Tail(s))
                         /\ Tail(s) \in Seq(Accesses) /\ Head(s) \in Accesses
         /\ \A e \in Accesses : /\ ReadBytes(Append(s, e)) = ReadBytes(s) \cup ReadsOf(e)
                                /\ Range(Append(s, e)) = Range(s) \cup {e}
                                /\ Append(s, e) \in Seq(Accesses)
         /\ ReadBytes(<< >>) = {} /\ Range(<< >>) = {} /\ Range(s) \subseteq Accesses
<1>1. ASSUME s # << >>
      PROVE  /\ ReadBytes(s) = ReadsOf(Head(s)) \cup ReadBytes(Tail(s))
             /\ Range(s) = {Head(s)} \cup Range(Tail(s))
             /\ Tail(s) \in Seq(Accesses) /\ Head(s) \in Accesses
  <2>1. Range(s) = {Head(s)} \cup Range(Tail(s))
    BY <1>1, RangeOfHeadAndTail
  <2>2. Tail(s) \in Seq(Accesses) /\ Head(s) \in Accesses
    BY <1>1, DropHead
  <2>3. \A b : b \in ReadBytes(s) <=> b \in ReadsOf(Head(s)) \/ b \in ReadBytes(Tail(s))
    BY <2>1, ReadBytesAre, Zenon
  <2> QED BY <2>1, <2>2, <2>3, Zenon
<1>2. ASSUME NEW e \in Accesses
      PROVE  /\ ReadBytes(Append(s, e)) = ReadBytes(s) \cup ReadsOf(e)
             /\ Range(Append(s, e)) = Range(s) \cup {e}
             /\ Append(s, e) \in Seq(Accesses)
  <2>1. Append(s, e) \in Seq(Accesses)
    OBVIOUS
  <2>4. Range(Append(s, e)) = Range(s) \cup {e}
    BY RangeOfAppend
  <2>5. \A b : b \in ReadBytes(Append(s, e)) <=> b \in ReadBytes(s) \/ b \in ReadsOf(e)
    BY <2>4, ReadBytesAre, Zenon
  <2> QED BY <2>1, <2>4, <2>5, Zenon
<1>3. Range(<< >>) = {} /\ Range(s) \subseteq Accesses
  BY DEF Range
<1>4. ReadBytes(<< >>) = {}
  BY <1>3, ReadBytesAre
<1> QED BY <1>1, <1>2, <1>3, <1>4

\* What is queued after the first m accesses, when one is queued.
LEMMA QueuedMore ==
  ASSUME Types, NEW e \in Accesses, queue' = Append(queue, e), NEW m \in 0..Len(queue)
  PROVE  /\ m \in 0..Len(queue') /\ Queued(m) \in Seq(Accesses)
         /\ Queued(m)' = Append(Queued(m), e)
         /\ {i \in 1..m : IsRead(queue'[i])} = {i \in 1..m : IsRead(queue[i])}
<1>1. PICK q \in Seq(Accesses), n \in Nat : q = queue /\ n = Len(q)
  BY DEF Types
<1>2. PICK p : p = Append(q, e)
  OBVIOUS
<1>3. queue' = p
  BY <1>1, <1>2
<1>4. /\ p \in Seq(Accesses) /\ Len(p) = n + 1 /\ p[n + 1] = e
      /\ \A i \in 1..n : p[i] = q[i]
  BY ONLY q \in Seq(Accesses), e \in Accesses, <1>1, <1>2
<1>5. m \in 0..n /\ m \in 0..Len(p) /\ Len(p) - m = (n - m) + 1
  BY <1>1, <1>4
<1>6. PICK s, t, u : s = SubSeq(q, m + 1, n) /\ t = SubSeq(p, m + 1, Len(p)) /\ u = Append(s, e)
  OBVIOUS
<1>7. s \in Seq(Accesses) /\ Len(s) = n - m /\ \A i \in 1..n - m : s[i] = q[m + i]
  BY <1>1, <1>5, <1>6, DropFirst
<1>8. t \in Seq(Accesses) /\ Len(t) = Len(p) - m /\ \A i \in 1..Len(p) - m : t[i] = p[m + i]
  BY <1>4, <1>5, <1>6, DropFirst
<1>9. /\ u \in Seq(Accesses) /\ Len(u) = (n - m) + 1 /\ u[(n - m) + 1] = e
      /\ \A i \in 1..n - m : u[i] = s[i]
  BY ONLY <1>5, <1>6, <1>7, e \in Accesses, n \in Nat
<1>10. \A i \in 1..(n - m) + 1 : t[i] = u[i]
  <2> SUFFICES ASSUME NEW i \in 1..(n - m) + 1 PROVE t[i] = u[i]
    OBVIOUS
  <2>1. CASE i = (n - m) + 1
    <3>1. m + i = n + 1
      BY <1>5, <2>1
    <3> QED BY <1>4, <1>5, <1>8, <1>9, <2>1, <3>1
  <2>2. CASE i # (n - m) + 1
    <3>1. i \in 1..n - m /\ m + i \in 1..n
      BY <1>5, <2>2
    <3> QED BY <1>4, <1>5, <1>7, <1>8, <1>9, <3>1
  <2> QED BY <2>1, <2>2
<1>11. t = u
  BY <1>5, <1>8, <1>9, <1>10, SeqEqual
<1>12. Queued(m) = s /\ Queued(m)' = t
  BY <1>1, <1>3, <1>6, Zenon DEF Queued
<1>13. {i \in 1..m : IsRead(queue'[i])} = {i \in 1..m : IsRead(queue[i])}
  <2>1. \A i \in 1..m : i \in 1..n
    BY <1>5
  <2>2. \A i \in 1..m : queue'[i] = queue[i]
    BY <1>1, <1>3, <1>4, <2>1, Zenon
  <2> QED BY <2>2
<1> QED BY <1>3, <1>5, <1>6, <1>7, <1>11, <1>12, <1>13, Zenon

\* And when the first is executed.
LEMMA QueuedLess ==
  ASSUME Types, queue # << >>, queue' = Tail(queue)
  PROVE  /\ \A m \in 1..Len(queue) : /\ m - 1 \in 0..Len(queue')
                                     /\ Queued(m - 1)' = Queued(m)
         /\ Queued(0) = queue /\ Queued(0)' = queue'
<1>1. PICK q \in Seq(Accesses), n \in Nat : q = queue /\ n = Len(q)
  BY DEF Types
<1>2. PICK p : p = Tail(q)
  OBVIOUS
<1>3. queue' = p
  BY <1>1, <1>2
<1>4. q # << >>
  BY <1>1
<1>5. p \in Seq(Accesses) /\ Len(p) = n - 1 /\ \A i \in 1..n - 1 : p[i] = q[i + 1]
  BY <1>1, <1>2, <1>4, DropHead
<1>6. ASSUME NEW m \in 1..n
      PROVE  m - 1 \in 0..Len(p) /\ SubSeq(p, (m - 1) + 1, Len(p)) = SubSeq(q, m + 1, n)
  <2>1. m - 1 \in 0..Len(p) /\ m \in 0..n /\ Len(p) - (m - 1) = n - m /\ n - m \in Nat
    BY <1>5
  <2>2. PICK s, t : s = SubSeq(q, m + 1, n) /\ t = SubSeq(p, (m - 1) + 1, Len(p))
    OBVIOUS
  <2>3. s \in Seq(Accesses) /\ Len(s) = n - m /\ \A i \in 1..n - m : s[i] = q[m + i]
    BY <1>1, <2>1, <2>2, DropFirst
  <2>4. t \in Seq(Accesses) /\ Len(t) = n - m /\ \A i \in 1..n - m : t[i] = p[(m - 1) + i]
    BY <1>5, <2>1, <2>2, DropFirst
  <2>5. \A i \in 1..n - m : t[i] = s[i]
    <3> SUFFICES ASSUME NEW i \in 1..n - m
                 PROVE  t[i] = s[i]
      OBVIOUS
    <3>1. (m - 1) + i \in 1..n - 1 /\ ((m - 1) + i) + 1 = m + i
      OBVIOUS
    <3>2. t[i] = p[(m - 1) + i] /\ s[i] = q[m + i]
      BY <2>3, <2>4, Zenon
    <3>3. p[(m - 1) + i] = q[((m - 1) + i) + 1]
      BY <1>5, <3>1, Zenon
    <3> QED BY ONLY <3>1, <3>2, <3>3, Zenon
  <2>6. s = t
    BY <2>1, <2>3, <2>4, <2>5, SeqEqual
  <2> QED BY <2>1, <2>2, <2>6, Zenon
<1>7. SubSeq(q, 0 + 1, n) = q /\ SubSeq(p, 0 + 1, Len(p)) = p
  <2>1. \A s \in Seq(Accesses) : SubSeq(s, 0 + 1, Len(s)) = s
    OBVIOUS
  <2> QED BY <1>1, <1>5, <2>1, Zenon
<1>8. /\ \A m : Queued(m) = SubSeq(q, m + 1, n)
      /\ \A m : Queued(m)' = SubSeq(p, m + 1, Len(p))
  BY <1>1, <1>3, Zenon DEF Queued
<1>9. \A m \in 1..Len(queue) : m - 1 \in 0..Len(queue') /\ Queued(m - 1)' = Queued(m)
  BY <1>1, <1>3, <1>6, <1>8, Zenon
<1> QED BY <1>1, <1>3, <1>7, <1>8, <1>9, Zenon

\* The reads left in a list of queued accesses and in the call are in order,
\* and read the bytes from low on.
InLists(q, t, low, high) ==
  /\ Ours(q) /\ Ours(t)
  /\ InRelation(q, InOrder) /\ InRelation(t, InOrder)
  /\ \A x \in Range(q), y \in Range(t) : <<x, y>> \in InOrder
  /\ ReadBytes(q) \cup ReadBytes(t) = low..high
ReadLow == reading.addr + Len(reading.got)
ReadHigh == reading.addr + reading.length - 1

\* What is still to be read, as a statement about two lists.
LEMMA RestIs ==
  ASSUME NEW m
  PROVE  Rest(m) <=> /\ Cardinality({i \in 1..m : IsRead(queue[i])}) = reading.skip
                     /\ InLists(Queued(m), todo, ReadLow, ReadHigh)
BY Zenon DEF Rest, InLists, ReadLow, ReadHigh

\* The same after a step, from the lists after it.
LEMMA RestHolds ==
  ASSUME NEW q, NEW t, NEW low, NEW high, InLists(q, t, low, high), NEW n,
         q = Queued(n)', t = todo', low = ReadLow', high = ReadHigh', reading'.ap = reading.ap,
         Cardinality({i \in 1..n : IsRead(queue'[i])}) = reading'.skip
  PROVE  Rest(n)'
<1>1. Ours(q) /\ Ours(t)
  BY Zenon DEF InLists
<1>2. Ours(Queued(n))' /\ Ours(todo)'
  BY <1>1, Zenon DEF Ours
<1>3. /\ InRelation(q, InOrder) /\ InRelation(t, InOrder)
      /\ \A x \in Range(q), y \in Range(t) : <<x, y>> \in InOrder
      /\ ReadBytes(q) \cup ReadBytes(t) = low..high
  BY Zenon DEF InLists
<1>4. /\ InRelation(Queued(n), InOrder)' /\ InRelation(todo, InOrder)'
      /\ \A x \in Range(Queued(n))', y \in Range(todo)' : <<x, y>> \in InOrder
      /\ (ReadBytes(Queued(n)) \cup ReadBytes(todo) = ReadLow..ReadHigh)'
  BY <1>3
<1> QED BY <1>2, <1>4, Zenon DEF Rest, ReadLow, ReadHigh

\* The call's next access goes to the end of the queue.
LEMMA MovedInLists ==
  ASSUME NEW q \in Seq(Accesses), NEW t \in Seq(Accesses), t # << >>, NEW low, NEW high,
         InLists(q, t, low, high)
  PROVE  InLists(Append(q, Head(t)), Tail(t), low, high)
<1>1. PICK e : e = Head(t)
  OBVIOUS
<1>2. /\ ReadBytes(t) = ReadsOf(e) \cup ReadBytes(Tail(t))
      /\ Range(t) = {e} \cup Range(Tail(t)) /\ e \in Accesses /\ Tail(t) \in Seq(Accesses)
  BY <1>1, ReadListEnds, Zenon
<1>3. /\ ReadBytes(Append(q, e)) = ReadBytes(q) \cup ReadsOf(e)
      /\ Range(Append(q, e)) = Range(q) \cup {e} /\ Append(q, e) \in Seq(Accesses)
  BY <1>2, ReadListEnds, Zenon
<1>4. InRelation(Tail(t), InOrder) /\ \A y \in Range(Tail(t)) : <<e, y>> \in InOrder
  BY <1>1, TailRelated, Zenon DEF InLists
<1>5. InRelation(Append(q, e), InOrder)
  <2>1. <<e>> \in Seq(Accesses) /\ Append(q, e) = q \o <<e>> /\ DOMAIN <<e>> = {1} /\ <<e>>[1] = e
    BY <1>2
  <2>2. InRelation(<<e>>, InOrder)
    <3>1. \A i, j \in DOMAIN <<e>> : ~(i < j)
      BY <2>1
    <3> QED BY <3>1, Zenon DEF InRelation
  <2>3. Range(<<e>>) = {e}
    BY <2>1 DEF Range
  <2>4. \A x \in Range(q), y \in Range(<<e>>) : <<x, y>> \in InOrder
    BY <1>2, <2>3, Zenon DEF InLists
  <2>5. InRelation(q \o <<e>>, InOrder)
    BY <2>1, <2>2, <2>4, ConcatRelated, Zenon DEF InLists
  <2> QED BY <2>1, <2>5, Zenon
<1>6. Ours(Append(q, e)) /\ Ours(Tail(t))
  BY <1>2, <1>3, Zenon DEF InLists, Ours
<1>7. \A x \in Range(Append(q, e)), y \in Range(Tail(t)) : <<x, y>> \in InOrder
  BY <1>2, <1>3, <1>4, Zenon DEF InLists
<1>8. ReadBytes(Append(q, e)) \cup ReadBytes(Tail(t)) = low..high
  <2>1. ReadBytes(q) \cup ReadBytes(t) = low..high
    BY Zenon DEF InLists
  <2> QED BY <1>2, <1>3, <2>1
<1>9. InLists(Append(q, e), Tail(t), low, high)
  BY <1>4, <1>5, <1>6, <1>7, <1>8, Zenon DEF InLists
<1> QED BY <1>1, <1>9, Zenon

\* An access other than a transfer is queued.
LEMMA OtherInLists ==
  ASSUME NEW q \in Seq(Accesses), NEW t \in Seq(Accesses), NEW e \in Accesses, e.reg # "drw",
         NEW low, NEW high, InLists(q, t, low, high)
  PROVE  InLists(Append(q, e), t, low, high)
<1>1. /\ ReadBytes(Append(q, e)) = ReadBytes(q) \cup ReadsOf(e)
      /\ Range(Append(q, e)) = Range(q) \cup {e} /\ Append(q, e) \in Seq(Accesses)
      /\ Range(q) \subseteq Accesses /\ Range(t) \subseteq Accesses
  BY ReadListEnds, Zenon
<1>2. ~IsRead(e) /\ ReadsOf(e) = {}
  BY TransfersWrite DEF ReadsOf
<1>3. InRelation(Append(q, e), InOrder)
  <2>1. <<e>> \in Seq(Accesses) /\ Append(q, e) = q \o <<e>> /\ DOMAIN <<e>> = {1} /\ <<e>>[1] = e
    OBVIOUS
  <2>2. InRelation(<<e>>, InOrder)
    <3>1. \A i, j \in DOMAIN <<e>> : ~(i < j)
      BY <2>1
    <3> QED BY <3>1, Zenon DEF InRelation
  <2>3. Range(<<e>>) = {e}
    BY <2>1 DEF Range
  <2>4. \A x \in Range(q), y \in Range(<<e>>) : <<x, y>> \in InOrder
    BY <1>1, <1>2, <2>3, OrderOfOthers, Zenon
  <2>5. InRelation(q \o <<e>>, InOrder)
    BY <2>1, <2>2, <2>4, ConcatRelated, Zenon DEF InLists
  <2> QED BY <2>1, <2>5, Zenon
<1>4. Ours(Append(q, e)) /\ Ours(t)
  BY <1>1, Zenon DEF InLists, Ours
<1>5. \A x \in Range(Append(q, e)), y \in Range(t) : <<x, y>> \in InOrder
  <2>1. \A y \in Range(t) : <<e, y>> \in InOrder
    BY <1>1, <1>2, OrderOfOthers, Zenon
  <2> QED BY <1>1, <2>1, Zenon DEF InLists
<1>6. ReadBytes(Append(q, e)) \cup ReadBytes(t) = low..high
  <2>1. ReadBytes(q) \cup ReadBytes(t) = low..high
    BY Zenon DEF InLists
  <2> QED BY <1>1, <1>2, <2>1
<1> QED BY <1>3, <1>4, <1>5, <1>6, Zenon DEF InLists

\* An access other than a transfer is taken from the front of either list.
LEMMA LessInLists ==
  ASSUME NEW q \in Seq(Accesses), NEW t \in Seq(Accesses), NEW low, NEW high,
         InLists(q, t, low, high)
  PROVE  /\ q # << >> /\ ~IsRead(Head(q)) => InLists(Tail(q), t, low, high)
         /\ t # << >> /\ ~IsRead(Head(t)) => InLists(q, Tail(t), low, high)
<1>1. ASSUME NEW s \in Seq(Accesses), s # << >>, ~IsRead(Head(s))
      PROVE  /\ ReadBytes(Tail(s)) = ReadBytes(s) /\ Range(Tail(s)) \subseteq Range(s)
             /\ \A R : InRelation(s, R) => InRelation(Tail(s), R)
             /\ Ours(s) => Ours(Tail(s))
  <2>1. /\ ReadBytes(s) = ReadsOf(Head(s)) \cup ReadBytes(Tail(s))
        /\ Range(s) = {Head(s)} \cup Range(Tail(s))
    BY <1>1, ReadListEnds, Zenon
  <2>2. ReadsOf(Head(s)) = {}
    BY <1>1 DEF ReadsOf
  <2>3. \A R : InRelation(s, R) => InRelation(Tail(s), R)
    BY <1>1, TailRelated, Zenon
  <2>4. Ours(s) => Ours(Tail(s))
    BY <2>1, Zenon DEF Ours
  <2> QED BY <2>1, <2>2, <2>3, <2>4
<1>2. ASSUME q # << >>, ~IsRead(Head(q))
      PROVE  InLists(Tail(q), t, low, high)
  BY <1>1, <1>2, Zenon DEF InLists
<1>3. ASSUME t # << >>, ~IsRead(Head(t))
      PROVE  InLists(q, Tail(t), low, high)
  BY <1>1, <1>3, Zenon DEF InLists
<1> QED BY <1>2, <1>3

\* A step of the call is queued, or one is queued before it, or one that is not
\* a transfer is taken.
LEMMA RestGoesOn ==
  ASSUME Types, todo # << >>, reading' = reading,
         \/ todo' = Tail(todo) /\ Step1.reg # "drw" /\ queue' = queue
         \/ todo' = Tail(todo) /\ queue' = Append(queue, Step1)
         \/ todo' = todo /\ \E e \in Accesses : e.reg # "drw" /\ queue' = Append(queue, e),
         NEW m \in 0..Len(queue), Rest(m)
  PROVE  \E n \in 0..Len(queue') : Rest(n)'
<1>1. PICK low, high, c : /\ low = ReadLow /\ high = ReadHigh /\ c = reading.skip
                          /\ Cardinality({i \in 1..m : IsRead(queue[i])}) = c
                          /\ InLists(Queued(m), todo, low, high)
  BY RestIs, Zenon
<1>2. ReadLow' = low /\ ReadHigh' = high /\ reading'.skip = c
  BY <1>1, Zenon DEF ReadLow, ReadHigh

<1>4. ASSUME NEW q, NEW t, q = Queued(m)', t = todo', InLists(q, t, low, high),
             m \in 0..Len(queue'), Cardinality({i \in 1..m : IsRead(queue'[i])}) = c
      PROVE  \E n \in 0..Len(queue') : Rest(n)'
  <2>1. Rest(m)'
    BY <1>2, <1>4, RestHolds, Zenon
  <2> QED BY <1>4, <2>1, Zenon
<1>5. todo \in Seq(Accesses) /\ Step1 = Head(todo) /\ Step1 \in Accesses
  BY RestOfCall DEF Types, Step1
<1>6. CASE todo' = Tail(todo) /\ Step1.reg # "drw" /\ queue' = queue
  <2>1. Queued(m)' = Queued(m) /\ Queued(m) \in Seq(Accesses)
    <3>1. queue \in Seq(Accesses)
      BY Zenon DEF Types
    <3>2. Queued(m) \in Seq(Accesses)
      BY <3>1, DropFirst, Zenon DEF Queued
    <3> QED BY <1>6, <3>2, Zenon DEF Queued
  <2>2. ~IsRead(Head(todo))
    BY <1>5, <1>6, TransfersWrite
  <2>3. InLists(Queued(m), todo', low, high)
    BY <1>1, <1>5, <1>6, <2>1, <2>2, LessInLists, Zenon
  <2> QED BY <1>1, <1>4, <1>6, <2>1, <2>3, Zenon
<1>7. CASE todo' = Tail(todo) /\ queue' = Append(queue, Step1)
  <2>1. /\ m \in 0..Len(queue') /\ Queued(m) \in Seq(Accesses)
        /\ Queued(m)' = Append(Queued(m), Step1)
        /\ {i \in 1..m : IsRead(queue'[i])} = {i \in 1..m : IsRead(queue[i])}
    BY <1>5, <1>7, QueuedMore
  <2>2. InLists(Append(Queued(m), Step1), todo', low, high)
    BY <1>1, <1>5, <1>7, <2>1, MovedInLists, Zenon
  <2> QED BY <1>1, <1>4, <2>1, <2>2, Zenon
<1>8. ASSUME todo' = todo, NEW e \in Accesses, e.reg # "drw", queue' = Append(queue, e)
      PROVE  \E n \in 0..Len(queue') : Rest(n)'
  <2>1. /\ m \in 0..Len(queue') /\ Queued(m) \in Seq(Accesses)
        /\ Queued(m)' = Append(Queued(m), e)
        /\ {i \in 1..m : IsRead(queue'[i])} = {i \in 1..m : IsRead(queue[i])}
    BY <1>8, QueuedMore
  <2>2. InLists(Append(Queued(m), e), todo', low, high)
    BY <1>1, <1>5, <1>8, <2>1, OtherInLists, Zenon
  <2> QED BY <1>1, <1>4, <2>1, <2>2, Zenon
<1> QED BY <1>6, <1>7, <1>8, Zenon

-----------------------------------------------------------------------------
(* The bytes of a transfer.                                                *)
Aligns(addr, size) == size \in Widths /\ addr \in Nat /\ addr % size = 0

\* The units of its size are where CSW and TAR make it strike.
LEMMA UnitIs ==
  ASSUME NEW addr, NEW size, Aligns(addr, size), NEW b \in Nat
  PROVE  b \div size = addr \div size <=> b \in addr..(addr + size - 1)
<1>1. size \in Nat /\ size # 0 /\ addr \in Nat /\ addr % size = 0
  BY DEF Aligns, Widths
<1>2. PICK n \in Nat, q \in Nat : n = size /\ q = addr \div size /\ n # 0
  BY <1>1, Division
<1>3. addr = n * q
  BY <1>1, <1>2, Division
<1>4. PICK p \in Nat, r \in 0..n - 1 : p = b \div n /\ b = n * p + r
  <2>1. b \div n \in Nat /\ b % n \in 0..n - 1 /\ b = n * (b \div n) + (b % n)
    BY ONLY <1>2, n \in Nat, b \in Nat, Division
  <2> QED BY <2>1, Zenon
<1>5. p = q => b \in (n * q)..(n * q + n - 1)
  BY <1>4
<1>6. ASSUME b \in (n * q)..(n * q + n - 1) PROVE p = q
  <2>1. PICK s : s = b - n * q
    OBVIOUS
  <2>2. s \in 0..n - 1 /\ b = n * q + s
    BY <1>6, <2>1
  <2>3. (n * q + s) \div n = q
    BY <1>2, <2>2, DivisionOf
  <2> QED BY <1>4, <2>2, <2>3, Zenon
<1> QED BY <1>2, <1>3, <1>4, <1>5, <1>6

\* Two bytes of it are not in one lane.
LEMMA LanesDiffer ==
  ASSUME NEW addr, NEW size, Aligns(addr, size),
         NEW a \in addr..(addr + size - 1), NEW b \in addr..(addr + size - 1), a % 4 = b % 4
  PROVE  a = b
<1>1. size \in 1..4 /\ addr \in Nat /\ a \in Nat /\ b \in Nat
  BY DEF Aligns, Widths
<1>2. PICK p \in Nat, q \in Nat, r \in 0..3 : a = 4 * p + r /\ b = 4 * q + r
  <2>1. \A x \in Nat : x = 4 * (x \div 4) + (x % 4) /\ x \div 4 \in Nat /\ x % 4 \in 0..3
    OBVIOUS
  <2>2. PICK p, q, r : p = a \div 4 /\ q = b \div 4 /\ r = a % 4
    OBVIOUS
  <2>3. p \in Nat /\ q \in Nat /\ r \in 0..3 /\ a = 4 * p + r /\ b = 4 * q + r
    BY <1>1, <2>1, <2>2, a % 4 = b % 4, Zenon
  <2> QED BY <2>3, Zenon
<1>3. a <= b + 3 /\ b <= a + 3
  BY <1>1
<1>4. p = q
  BY ONLY <1>2, <1>3, p \in Nat, q \in Nat, r \in 0..3
<1> QED BY <1>2, <1>4

\* And they are in the word that TAR points into.
LEMMA WordHasThem ==
  ASSUME NEW addr, NEW size, Aligns(addr, size), NEW k \in 1..size
  PROVE  4 * (addr \div 4) + ((addr + k - 1) % 4) = addr + k - 1
<1>1. addr \in Nat /\ size \in {1, 2, 4} /\ addr % size = 0
  BY DEF Aligns, Widths
<1>2. PICK q \in Nat, r \in 0..3 : addr = 4 * q + r /\ q = addr \div 4
  <2>1. \A x \in Nat : x = 4 * (x \div 4) + (x % 4) /\ x \div 4 \in Nat /\ x % 4 \in 0..3
    OBVIOUS
  <2> QED BY <1>1, <2>1, Zenon
<1>3. r + k - 1 \in 0..3 /\ k \in Nat
  <2>1. CASE size = 1
    BY <1>2, <2>1
  <2>2. CASE size = 2
    <3>1. addr % 2 = 0
      BY <1>1, <2>2
    <3>2. r # 1 /\ r # 3
      BY ONLY <1>2, <3>1, q \in Nat
    <3> QED BY <1>2, <2>2, <3>2
  <2>3. CASE size = 4
    <3>1. addr % 4 = 0
      BY <1>1, <2>3
    <3>2. r = 0
      BY ONLY <1>2, <3>1, q \in Nat, r \in 0..3
    <3> QED BY <1>2, <2>3, <3>2
  <2> QED BY <1>1, <2>1, <2>2, <2>3
<1>4. PICK s \in 0..3 : s = r + k - 1
  BY <1>3
<1>5. addr + k - 1 = 4 * q + s /\ (4 * q + s) % 4 = s
  BY ONLY <1>1, <1>2, <1>3, <1>4, q \in Nat, s \in 0..3, r \in 0..3
<1> QED BY <1>2, <1>5

\* A transfer that finds the registers as it wants them strikes its own bytes,
\* and places them in their lanes.
LEMMA RightTransfer ==
  ASSUME Types, NEW e \in Accesses, e.reg = "drw", Amiss(e) = {}
  PROVE  /\ hw.select[1] = e.ap /\ e.ap \in APs /\ Strikes(e) = RangeOf(e)
         /\ RangeOf(e) = e.addr..(e.addr + e.size - 1) /\ RangeOf(e) \subseteq Memory
         /\ \A b \in RangeOf(e) : Lane(e, b % 4) = Stamp(e.ap, b)
         /\ \A k \in 1..e.size : Brings(e, k) = mem[e.ap][e.addr + k - 1]
<1>1. Bank0 /\ hw.select[1] = e.ap /\ hw.csw[e.ap] = e.size /\ hw.tar[e.ap] = e.addr
  BY NothingAmiss
<1>2. e.ap \in APs /\ e.addr \in Nat /\ e.size \in Sizes /\ WellFormed(e)
  BY AccessHasType
<1>3. PICK addr, size : addr = e.addr /\ size = e.size
  OBVIOUS
<1>4. Aligns(addr, size)
  <2>1. e.size # 0 /\ e.addr % e.size = 0
    BY <1>2 DEF WellFormed
  <2> QED BY <1>2, <1>3, <2>1 DEF Aligns, Sizes, Widths
<1>5. RangeOf(e) = addr..(addr + size - 1) /\ RangeOf(e) \subseteq Memory
  BY <1>2, <1>3 DEF WellFormed, RangeOf
<1>6. Memory \subseteq Nat /\ size # Unset
  BY <1>4, AccessPortAssumption DEF Aligns, Widths, Unset
<1>7. Strikes(e) = RangeOf(e)
  <2>1. Strikes(e) = {b \in Memory : hw.csw[e.ap] # Unset
                                     /\ b \div hw.csw[e.ap] = hw.tar[e.ap] \div hw.csw[e.ap]}
    BY <1>1, Zenon DEF Strikes, Hit
  <2>2. Strikes(e) = {b \in Memory : b \div size = addr \div size}
    BY <1>1, <1>3, <1>6, <2>1, Zenon
  <2>3. \A b \in Memory : b \div size = addr \div size <=> b \in addr..(addr + size - 1)
    BY <1>4, <1>6, UnitIs
  <2>4. \A b : b \in Strikes(e) <=> b \in Memory /\ b \div size = addr \div size
    BY <2>2, Zenon
  <2>5. \A b : b \in Strikes(e) <=> b \in RangeOf(e)
    BY <1>5, <2>3, <2>4, Zenon
  <2> QED BY <2>5, Zenon
<1>8. ASSUME NEW b \in RangeOf(e)
      PROVE  Lane(e, b % 4) = Stamp(e.ap, b)
  <2>1. PICK a : a = CHOOSE x \in RangeOf(e) : x % 4 = b % 4
    OBVIOUS
  <2>2. a \in RangeOf(e) /\ a % 4 = b % 4
    BY <2>1, Zenon
  <2>3. a = b
    BY <1>4, <1>5, <2>2, LanesDiffer
  <2>4. Lane(e, b % 4) = Stamp(e.ap, a)
    BY <2>1, Zenon DEF Lane
  <2> QED BY <2>3, <2>4, Zenon
<1>9. ASSUME NEW k \in 1..e.size
      PROVE  Brings(e, k) = mem[e.ap][e.addr + k - 1]
  <2>1. PICK a : a = 4 * (addr \div 4) + ((addr + k - 1) % 4)
    OBVIOUS
  <2>2. a = addr + k - 1
    BY <1>3, <1>4, <2>1, WordHasThem
  <2>3. a \in Memory
    <3>1. addr \in Nat /\ size \in Nat
      BY <1>4 DEF Aligns, Widths
    <3>2. a \in addr..(addr + size - 1)
      BY ONLY <1>3, <2>2, <3>1, k \in 1..e.size
    <3> QED BY <1>5, <3>2
  <2>4. Brings(e, k) = mem[e.ap][a]
    BY <1>1, <1>3, <2>1, <2>3, Zenon DEF Brings
  <2> QED BY <1>3, <2>2, <2>4, Zenon
<1> QED BY <1>1, <1>2, <1>3, <1>5, <1>7, <1>8, <1>9, Zenon

\* A transfer that finds a register other than it wants it is one whose register
\* is known to be lost, or was left behind by an access dropped before.
LEMMA AmissIsExcused ==
  ASSUME Control, Copies, queue # << >>, NEW e, e = Head(queue), Amiss(e) # {}
  PROVE  Excused(e)
<1>1. Amiss(e) \subseteq Gone
  BY HeadFinds DEF Control, Copies
<1> QED BY <1>1 DEF Excused

\* An executed write brings what is wanted, or its bytes are spoilt.
LEMMA ExecuteBytes ==
  ASSUME Control, Copies, BytesRight, Execute
  PROVE  BytesRight'
<1>1. PICK e, ap : e = Head(queue) /\ ap = hw.select[1]
  OBVIOUS
<1>2. /\ Types /\ queue # << >> /\ queue' = Tail(queue)
      /\ UNCHANGED <<todo, phase, wanted, failure>>
  BY Zenon DEF Control, Execute, host
<1>3. /\ e \in Accesses /\ Strikes(e) \subseteq Memory
      /\ \A a \in APs, b \in Memory :
           mem'[a][b] = IF e.write /\ a = ap /\ b \in Strikes(e) THEN Lane(e, b % 4) ELSE mem[a][b]
  BY <1>1, <1>2, ExecutedMemory
<1>4. spoilt' = IF e.write /\ Amiss(e) # {} /\ Excused(e)
                  THEN spoilt \cup ({ap} \X Strikes(e)) \cup Writes(e) ELSE spoilt
  BY <1>1, <1>2, ExecutedSpoilt
<1>5. Pending = Writes(e) \cup Pending'
  <2>1. WrittenBy(queue) = Writes(e) \cup WrittenBy(queue')
    BY <1>1, <1>2, Writing, Zenon
  <2>2. WrittenBy(todo') = WrittenBy(todo)
    BY <1>2
  <2> QED BY <2>1, <2>2, Zenon DEF Pending
<1>6. /\ \A a \in APs, b \in Memory :
           <<a, b>> \notin spoilt \cup Pending => mem[a][b] = wanted[a][b]
      /\ \A a \in APs, b \in Memory : <<a, b>> \in Pending => wanted[a][b] = Stamp(a, b)
  BY Zenon DEF BytesRight
<1>7. ASSUME NEW a \in APs, NEW b \in Memory, <<a, b>> \notin spoilt' \cup Pending'
      PROVE  mem'[a][b] = wanted[a][b]
  <2>1. spoilt \subseteq spoilt'
    BY <1>4
  <2>2. CASE ~e.write \/ e.reg # "drw"
    <3>1. Writes(e) = {} /\ (e.write => Strikes(e) = {})
      <4>1. e.reg # "drw" => Strikes(e) = {}
        BY Zenon DEF Strikes
      <4> QED BY <2>2, <4>1, TransfersWrite
    <3>2. mem'[a][b] = mem[a][b]
      BY <1>3, <3>1
    <3>3. <<a, b>> \notin spoilt \cup Pending
      BY <1>5, <1>7, <2>1, <3>1
    <3> QED BY <1>6, <3>2, <3>3
  <2>3. CASE e.write /\ e.reg = "drw" /\ Amiss(e) # {}
    <3>1. Excused(e)
      BY <1>1, <1>2, <2>3, AmissIsExcused
    <3>2. spoilt' = spoilt \cup ({ap} \X Strikes(e)) \cup Writes(e)
      BY <1>4, <2>3, <3>1, Zenon
    <3>3. ~(a = ap /\ b \in Strikes(e)) /\ <<a, b>> \notin spoilt \cup Pending
      BY <1>5, <1>7, <3>2
    <3>4. mem'[a][b] = mem[a][b]
      BY <1>3, <3>3, Zenon
    <3> QED BY <1>6, <3>3, <3>4
  <2>4. CASE e.write /\ e.reg = "drw" /\ Amiss(e) = {}
    <3>1. /\ ap = e.ap /\ Strikes(e) = RangeOf(e)
          /\ \A x \in RangeOf(e) : Lane(e, x % 4) = Stamp(e.ap, x)
      BY <1>1, <1>2, <1>3, <2>4, RightTransfer
    <3>2. Writes(e) = {<<e.ap, x>> : x \in RangeOf(e)}
      BY <2>4, Zenon DEF Writes
    <3>3. CASE a = ap /\ b \in RangeOf(e)
      <4>1. mem'[a][b] = Stamp(a, b)
        BY <1>3, <2>4, <3>1, <3>3, Zenon
      <4>2. <<a, b>> \in Pending
        BY <1>5, <3>1, <3>2, <3>3
      <4> QED BY <1>6, <4>1, <4>2, Zenon
    <3>4. CASE ~(a = ap /\ b \in RangeOf(e))
      <4>1. mem'[a][b] = mem[a][b]
        BY <1>3, <3>1, <3>4, Zenon
      <4>2. <<a, b>> \notin Writes(e)
        BY <3>1, <3>2, <3>4
      <4>3. <<a, b>> \notin spoilt \cup Pending
        BY <1>5, <1>7, <2>1, <4>2
      <4> QED BY <1>6, <4>1, <4>3
    <3> QED BY <3>3, <3>4
  <2> QED BY <2>2, <2>3, <2>4
<1>8. \A a \in APs, b \in Memory : <<a, b>> \in Pending' => wanted'[a][b] = Stamp(a, b)
  BY <1>2, <1>5, <1>6
<1>9. phase' # "open" => \A k \in 1..Len(queue') : queue'[k].reg # "drw"
  <2>1. \A k \in 1..Len(queue') : queue'[k] = queue[k + 1] /\ k + 1 \in 1..Len(queue)
    BY <1>2, QueueTypesLess
  <2> QED BY <1>2, <2>1, Zenon DEF BytesRight
<1>10. \A a \in APs, b \in Memory :
         <<a, b>> \notin spoilt' \cup Pending' => mem'[a][b] = wanted'[a][b]
  BY <1>2, <1>7, Zenon
<1> QED BY <1>8, <1>9, <1>10 DEF BytesRight

\* When an access is executed that is not of the read in progress.
LEMMA RestLess ==
  ASSUME Types, queue # << >>, queue' = Tail(queue), todo' = todo,
         reading'.ap = reading.ap, ReadLow' = ReadLow, ReadHigh' = ReadHigh,
         IF IsRead(Head(queue)) THEN reading.skip # 0 /\ reading'.skip = reading.skip - 1
         ELSE reading'.skip = reading.skip,
         NEW m \in 0..Len(queue), Rest(m)
  PROVE  \E n \in 0..Len(queue') : Rest(n)'
<1>1. /\ Cardinality({i \in 1..m : IsRead(queue[i])}) = reading.skip
      /\ InLists(Queued(m), todo, ReadLow, ReadHigh)
  BY RestIs, Zenon
<1>2. PICK low, high : low = ReadLow /\ high = ReadHigh
  OBVIOUS
<1>3. /\ queue \in Seq(Accesses) /\ todo \in Seq(Accesses) /\ Len(queue) \in Nat
      /\ Head(queue) = queue[1] /\ Head(queue) \in Accesses
  BY DropHead DEF Types
<1>4. CASE m = 0
  <2>1. {i \in 1..0 : IsRead(queue[i])} = {} /\ {i \in 1..0 : IsRead(queue'[i])} = {}
    OBVIOUS
  <2>2. reading.skip = 0 /\ Cardinality({i \in 1..0 : IsRead(queue'[i])}) = 0
    BY <1>1, <1>4, <2>1, FS_EmptySet
  <2>3. ~IsRead(Head(queue)) /\ reading'.skip = 0
    BY <2>2
  <2>4. Queued(0) = queue /\ Queued(0)' = queue'
    BY QueuedLess
  <2>5. InLists(queue, todo, low, high)
    BY <1>1, <1>2, <1>4, <2>4, Zenon
  <2>6. InLists(queue', todo', low, high)
    BY <1>3, <2>3, <2>5, LessInLists, Zenon
  <2>7. Rest(0)'
    BY <1>2, <2>2, <2>3, <2>4, <2>6, RestHolds, Zenon
  <2>8. 0 \in 0..Len(queue')
    <3>1. Len(queue') \in Nat
      BY <1>3, DropHead
    <3> QED BY <3>1
  <2> QED BY <2>7, <2>8, Zenon
<1>5. CASE m # 0
  <2>1. m \in 1..Len(queue)
    BY <1>3, <1>5
  <2>2. m - 1 \in 0..Len(queue') /\ Queued(m - 1)' = Queued(m)
    BY <2>1, QueuedLess
  <2>3. PICK c, d : /\ c = Cardinality({i \in 1..m : IsRead(queue[i])})
                    /\ d = Cardinality({i \in 1..m - 1 : IsRead(queue'[i])})
    OBVIOUS
  <2>4. c = d + IF IsRead(queue[1]) THEN 1 ELSE 0
    BY <1>3, <2>1, <2>3, ReadsCountedLess
  <2>5. d \in Nat
    <3>1. m - 1 \in Nat
      BY <2>1
    <3> QED BY <2>3, <3>1, ReadsCounted
  <2>6. d = reading'.skip
    <3>1. c = reading.skip
      BY <1>1, <2>3
    <3>2. CASE IsRead(queue[1])
      <4>1. reading'.skip = c - 1
        BY <1>3, <3>1, <3>2
      <4>2. c = d + 1
        BY <2>4, <3>2
      <4> QED BY <2>5, <4>1, <4>2
    <3>3. CASE ~IsRead(queue[1])
      <4>1. reading'.skip = c
        BY <1>3, <3>1, <3>3
      <4>2. c = d + 0
        BY <2>4, <3>3
      <4> QED BY <2>5, <4>1, <4>2
    <3> QED BY <3>2, <3>3
  <2>7. InLists(Queued(m), todo, low, high)
    BY <1>1, <1>2, Zenon
  <2>8. Rest(m - 1)'
    BY <1>2, <2>2, <2>3, <2>6, <2>7, RestHolds, Zenon
  <2> QED BY <2>2, <2>8, Zenon
<1> QED BY <1>4, <1>5

\* The first read of the lists reads the first bytes that are left.
LEMMA FirstRead ==
  ASSUME NEW q \in Seq(Accesses), NEW t \in Seq(Accesses), q # << >>,
         NEW e, e = Head(q), IsRead(e), NEW low \in Nat, NEW high \in Int,
         InLists(q, t, low, high)
  PROVE  /\ e.addr = low /\ e.size \in Nat /\ low + e.size - 1 <= high /\ e.ap = reading.ap
         /\ InLists(Tail(q), t, low + e.size, high)
<1>1. /\ ReadBytes(q) = ReadsOf(e) \cup ReadBytes(Tail(q))
      /\ Range(q) = {e} \cup Range(Tail(q)) /\ e \in Accesses /\ Tail(q) \in Seq(Accesses)
      /\ Range(t) \subseteq Accesses /\ Range(Tail(q)) \subseteq Accesses
  BY ReadListEnds
<1>2. e.reg = "drw" /\ ~e.write
  BY Zenon DEF IsRead
<1>3. PICK addr \in Nat, size \in Nat : addr = e.addr /\ size = e.size /\ size # 0
  BY <1>1, <1>2, TransferSize
<1>4. ReadsOf(e) = addr..(addr + size - 1)
  <2>1. ReadsOf(e) = RangeOf(e)
    BY DEF ReadsOf
  <2> QED BY <1>1, <1>2, <1>3, <2>1, TransferSize
<1>5. InRelation(Tail(q), InOrder) /\ \A y \in Range(Tail(q)) : <<e, y>> \in InOrder
  BY TailRelated, Zenon DEF InLists
<1>6. \A y \in Range(t) : <<e, y>> \in InOrder
  BY <1>1, Zenon DEF InLists
<1>7. ASSUME NEW y \in Accesses, <<e, y>> \in InOrder, NEW b \in ReadsOf(y)
      PROVE  b \in Nat /\ b >= addr + size
  <2>1. IsRead(y) /\ b \in RangeOf(y)
    BY <1>7 DEF ReadsOf
  <2>2. e.addr + e.size <= y.addr
    <3>1. PICK p : p = <<e, y>>
      OBVIOUS
    <3>2. p[1] = e /\ p[2] = y
      BY <3>1
    <3>3. IsRead(p[1]) /\ IsRead(p[2]) => p[1].addr + p[1].size <= p[2].addr
      BY <1>7, <3>1, Zenon DEF InOrder
    <3> QED BY <2>1, <3>2, <3>3, Zenon
  <2>3. y.addr \in Nat /\ RangeOf(y) = y.addr..(y.addr + y.size - 1) /\ y.size \in Nat
    <3>1. y.reg = "drw"
      BY <2>1, Zenon DEF IsRead
    <3> QED BY <3>1, TransferSize
  <2>4. PICK a \in Nat, n \in Nat : a = y.addr /\ n = y.size
    BY <2>3, Zenon
  <2>5. addr + size <= a /\ b \in a..(a + n - 1)
    BY <1>3, <2>1, <2>2, <2>3, <2>4, Zenon
  <2> QED BY <2>5
<1>8. PICK rest : rest = ReadBytes(Tail(q)) \cup ReadBytes(t)
  OBVIOUS
<1>9. \A b \in rest : b \in Nat /\ b >= addr + size
  <2>1. \A b \in rest : \E y \in Accesses : <<e, y>> \in InOrder /\ b \in ReadsOf(y)
    BY <1>1, <1>5, <1>6, <1>8, ReadBytesAre, Zenon
  <2> QED BY <1>7, <2>1, Zenon
<1>10. (addr..(addr + size - 1)) \cup rest = low..high
  <2>1. ReadBytes(q) \cup ReadBytes(t) = low..high
    BY Zenon DEF InLists
  <2> QED BY <1>1, <1>4, <1>8, <2>1
<1>11. addr \in low..high /\ addr + size - 1 \in low..high
  <2>1. addr \in addr..(addr + size - 1) /\ addr + size - 1 \in addr..(addr + size - 1)
    BY <1>3
  <2> QED BY <1>10, <2>1
<1>12. addr = low
  <2>1. low \in low..high
    BY <1>11
  <2>2. low \in addr..(addr + size - 1) \/ low \in rest
    BY <1>10, <2>1
  <2>3. low >= addr
    BY <1>9, <2>2
  <2> QED BY <1>11, <2>3
<1>13. rest = (low + size)..high
  <2>1. ASSUME NEW b, b \in rest PROVE b \in (low + size)..high
    <3>1. b \in low..high
      BY <1>10, <2>1
    <3> QED BY <1>9, <1>12, <2>1, <3>1
  <2>2. ASSUME NEW b \in (low + size)..high PROVE b \in rest
    <3>1. b \in low..high /\ b \notin addr..(addr + size - 1)
      BY <1>3, <1>12, <2>2
    <3> QED BY <1>10, <3>1
  <2> QED BY <2>1, <2>2
<1>14. Ours(Tail(q)) /\ e.ap = reading.ap
  BY <1>1, <1>2, Zenon DEF InLists, Ours
<1>15. InLists(Tail(q), t, low + size, high)
  BY <1>1, <1>5, <1>8, <1>13, <1>14, Zenon DEF InLists
<1>16. low + size - 1 <= high
  BY <1>11, <1>12
<1> QED BY <1>3, <1>12, <1>14, <1>15, <1>16, Zenon

\* The accesses of a read write nothing.
LEMMA OursWriteNothing ==
  ASSUME NEW q \in Seq(Accesses), Ours(q)
  PROVE  WrittenBy(q) = {}
<1>1. \A e \in Range(q) : Writes(e) = {}
  <2>1. \A e \in Range(q) : e.reg # "drw" \/ ~e.write
    BY Zenon DEF Ours
  <2> QED BY <2>1, TransfersWrite, Zenon
<1> QED BY <1>1, WrittenIs

\* What a read has got stays right while other accesses are executed.
LEMMA GotGoesOn ==
  ASSUME GotRight, reading'.ap = reading.ap, reading'.addr = reading.addr,
         reading'.length = reading.length, reading'.got = reading.got,
         reading'.sound = reading.sound, wanted' = wanted, spoilt \subseteq spoilt',
         \A m \in 0..Len(queue) : Rest(m) => \E n \in 0..Len(queue') : Rest(n)'
  PROVE  GotRight'
<1>1. \E n \in 0..Len(queue') : Rest(n)'
  BY Zenon DEF GotRight
<1>2. /\ Len(reading'.got) <= reading'.length
      /\ reading'.addr..reading'.addr + reading'.length - 1 \subseteq Memory
      /\ reading'.sound =>
           \A k \in 1..Len(reading'.got) :
             \/ <<reading'.ap, reading'.addr + k - 1>> \in spoilt'
             \/ reading'.got[k] = wanted'[reading'.ap][reading'.addr + k - 1]
  BY Zenon DEF GotRight
<1> QED BY <1>1, <1>2, Zenon DEF GotRight

\* What is left of a read when nothing that is queued before it is left.
LEMMA AllIsOfTheRead ==
  ASSUME Types, queue # << >>, queue' = Tail(queue), IsRead(Head(queue)), reading.skip = 0,
         NEW m \in 0..Len(queue), Rest(m)
  PROVE  InLists(queue, todo, ReadLow, ReadHigh)
<1>1. /\ Cardinality({i \in 1..m : IsRead(queue[i])}) = 0
      /\ InLists(Queued(m), todo, ReadLow, ReadHigh)
  BY RestIs, Zenon
<1>2. queue \in Seq(Accesses) /\ Len(queue) \in Nat /\ Head(queue) = queue[1]
  BY DropHead DEF Types
<1>3. m = 0
  <2> SUFFICES ASSUME m # 0 PROVE FALSE
    OBVIOUS
  <2>1. m \in 1..Len(queue) /\ m - 1 \in Nat
    BY <1>2
  <2>2. PICK c, d : /\ c = Cardinality({i \in 1..m : IsRead(queue[i])})
                    /\ d = Cardinality({i \in 1..m - 1 : IsRead(Tail(queue)[i])})
    OBVIOUS
  <2>3. c = d + IF IsRead(queue[1]) THEN 1 ELSE 0
    BY <1>2, <2>1, <2>2, ReadsCountedLess
  <2>4. c = d + 1
    BY <1>2, <2>3
  <2>5. d \in Nat
    BY <2>1, <2>2, ReadsCounted
  <2>6. c = 0
    BY <1>1, <2>2, Zenon
  <2> QED BY ONLY <2>4, <2>5, <2>6
<1>4. Queued(0) = queue
  BY QueuedLess, Zenon
<1> QED BY <1>1, <1>3, <1>4, Zenon

\* A read of the memory's bytes that nobody still writes gets what is wanted there.
LEMMA ReadsWhatIsWanted ==
  ASSUME Types, BytesRight, Pending = {}, NEW e \in Accesses, IsRead(e), Amiss(e) = {},
         NEW k \in 1..e.size
  PROVE  \/ <<e.ap, e.addr + k - 1>> \in spoilt
         \/ Brings(e, k) = wanted[e.ap][e.addr + k - 1]
<1>1. e.reg = "drw"
  BY Zenon DEF IsRead
<1>2. /\ e.ap \in APs /\ RangeOf(e) = e.addr..(e.addr + e.size - 1) /\ RangeOf(e) \subseteq Memory
      /\ Brings(e, k) = mem[e.ap][e.addr + k - 1]
  BY <1>1, RightTransfer
<1>3. e.addr + k - 1 \in e.addr..(e.addr + e.size - 1)
  <2>1. PICK addr \in Nat, size \in Nat : addr = e.addr /\ size = e.size
    BY <1>1, TransferSize
  <2>2. k \in 1..size => addr + k - 1 \in addr..(addr + size - 1)
    BY <2>1
  <2> QED BY <2>1, <2>2, Zenon
<1>4. PICK b \in Memory : b = e.addr + k - 1
  BY <1>2, <1>3
<1>5. <<e.ap, b>> \in spoilt \/ mem[e.ap][b] = wanted[e.ap][b]
  BY <1>2, Zenon DEF BytesRight
<1> QED BY <1>2, <1>4, <1>5, Zenon

\* What the read in progress gets from its next access is right.
LEMMA GotMore ==
  ASSUME Control, Copies, BytesRight, GotRight, Execute, IsRead(Head(queue)),
         reading.length # 0, reading.skip = 0
  PROVE  GotRight'
<1>1. PICK e : e = Head(queue)
  OBVIOUS
<1>2. /\ Types /\ queue # << >> /\ queue' = Tail(queue) /\ IsRead(e)
      /\ UNCHANGED <<todo, phase, wanted, failure>>
  BY <1>1, Zenon DEF Control, Execute, host
<1>3. /\ reading'.length = reading.length /\ reading'.ap = reading.ap
      /\ reading'.addr = reading.addr /\ reading'.skip = 0
      /\ Len(reading'.got) = Len(reading.got) + e.size
      /\ \A k \in 1..Len(reading.got) : reading'.got[k] = reading.got[k]
      /\ \A k \in 1..e.size : reading'.got[Len(reading.got) + k] = Brings(e, k)
      /\ reading'.sound => reading.sound /\ (Amiss(e) = {} \/ ~Excused(e))
  BY <1>1, <1>2, ExecutedReading
<1>4. spoilt' = spoilt
  <2>1. PICK ap : ap = hw.select[1]
    OBVIOUS
  <2>2. ~e.write
    BY <1>2, Zenon DEF IsRead
  <2> QED BY <1>1, <1>2, <2>1, <2>2, ExecutedSpoilt
<1>5. PICK addr \in Nat, n \in Nat, length \in Nat :
        addr = reading.addr /\ n = Len(reading.got) /\ length = reading.length
  <2>1. reading.addr \in Nat /\ reading.length \in Nat /\ reading.got \in Seq(Nat)
    BY DEF Types, ReadingType, Control
  <2> QED BY <2>1
<1>6. PICK low \in Nat, high \in Int :
        low = ReadLow /\ high = ReadHigh /\ low = addr + n /\ high = addr + length - 1
  <2>1. addr + n \in Nat /\ addr + length - 1 \in Int
    OBVIOUS
  <2> QED BY <1>5, <2>1, Zenon DEF ReadLow, ReadHigh
<1>7. PICK m : m \in 0..Len(queue) /\ Rest(m)
  BY Zenon DEF GotRight
<1>8. InLists(queue, todo, low, high)
  BY <1>1, <1>2, <1>6, <1>7, AllIsOfTheRead, Zenon
<1>9. queue \in Seq(Accesses) /\ todo \in Seq(Accesses) /\ Len(queue') \in Nat
  BY <1>2, DropHead DEF Types
<1>10. /\ e.addr = low /\ e.size \in Nat /\ low + e.size - 1 <= high /\ e.ap = reading.ap
       /\ InLists(Tail(queue), todo, low + e.size, high) /\ e \in Accesses
  <2>1. e \in Accesses
    BY <1>1, <1>2, <1>9, DropHead
  <2> QED BY <1>1, <1>2, <1>6, <1>8, <1>9, <2>1, FirstRead
<1>11. PICK size \in Nat : size = e.size
  BY <1>10
<1>12. Pending = {}
  <2>1. Ours(queue) /\ Ours(todo)
    BY <1>8, Zenon DEF InLists
  <2>2. WrittenBy(queue) = {} /\ WrittenBy(todo) = {}
    BY <1>9, <2>1, OursWriteNothing
  <2> QED BY <2>2 DEF Pending
<1>13. Rest(0)' /\ 0 \in 0..Len(queue')
  <2>1. {i \in 1..0 : IsRead(queue'[i])} = {}
    OBVIOUS
  <2>2. Cardinality({i \in 1..0 : IsRead(queue'[i])}) = reading'.skip
    BY <1>3, <2>1, FS_EmptySet
  <2>3. Queued(0)' = Tail(queue)
    BY <1>2, QueuedLess
  <2>4. ReadLow' = low + e.size
    <3>1. addr + (n + size) = (addr + n) + size
      OBVIOUS
    <3>2. ReadLow' = addr + (n + size)
      BY <1>3, <1>5, <1>11, Zenon DEF ReadLow
    <3> QED BY <1>6, <1>11, <3>1, <3>2, Zenon
  <2>5. ReadHigh' = high
    BY <1>3, <1>5, <1>6, Zenon DEF ReadHigh
  <2>6. Rest(0)'
    BY <1>2, <1>3, <1>10, <2>2, <2>3, <2>4, <2>5, RestHolds
  <2> QED BY <1>9, <2>6
<1>14. Len(reading'.got) <= reading'.length
  <2>1. (addr + n) + size - 1 <= addr + length - 1
    BY <1>6, <1>10, <1>11, Zenon
  <2>2. n + size <= length
    BY <2>1
  <2> QED BY <1>3, <1>5, <1>11, <2>2, Zenon
<1>15. reading'.addr..reading'.addr + reading'.length - 1 \subseteq Memory
  BY <1>3, Zenon DEF GotRight
<1>16. ASSUME reading'.sound, NEW k \in 1..Len(reading'.got)
       PROVE  \/ <<reading'.ap, reading'.addr + k - 1>> \in spoilt'
              \/ reading'.got[k] = wanted'[reading'.ap][reading'.addr + k - 1]
  <2>1. reading.sound /\ Amiss(e) = {}
    BY <1>1, <1>2, <1>3, <1>16, AmissIsExcused, Zenon
  <2>2. CASE k \in 1..Len(reading.got)
    <3>1. \/ <<reading.ap, reading.addr + k - 1>> \in spoilt
          \/ reading.got[k] = wanted[reading.ap][reading.addr + k - 1]
      BY <2>1, <2>2, Zenon DEF GotRight
    <3> QED BY <1>2, <1>3, <1>4, <2>2, <3>1, Zenon
  <2>3. CASE k \notin 1..Len(reading.got)
    <3>1. k \in 1..n + size /\ k \notin 1..n
      BY <1>3, <1>5, <1>11, <1>16, <2>3, Zenon
    <3>2. PICK j : j \in 1..size /\ k = n + j
      <4>1. k - n \in 1..size /\ k = n + (k - n)
        BY <3>1
      <4> QED BY <4>1, Zenon
    <3>3. \/ <<e.ap, e.addr + j - 1>> \in spoilt
          \/ Brings(e, j) = wanted[e.ap][e.addr + j - 1]
      BY <1>2, <1>10, <1>11, <1>12, <2>1, <3>2, ReadsWhatIsWanted, Zenon
    <3>4. reading'.got[k] = Brings(e, j)
      BY <1>3, <1>5, <1>11, <3>2, Zenon
    <3>5. e.addr + j - 1 = reading'.addr + k - 1
      <4>1. (addr + n) + j - 1 = addr + (n + j) - 1
        BY <3>2
      <4> QED BY <1>3, <1>5, <1>6, <1>10, <3>2, <4>1, Zenon
    <3> QED BY <1>2, <1>3, <1>4, <1>10, <3>3, <3>4, <3>5, Zenon
  <2> QED BY <2>2, <2>3
<1> QED BY <1>13, <1>14, <1>15, <1>16, Zenon DEF GotRight

\* An access that is executed leaves the read in progress right.
LEMMA ExecuteRead ==
  ASSUME Control, Copies, BytesRight, ReadRight, Execute
  PROVE  ReadRight'
<1>1. PICK e : e = Head(queue)
  OBVIOUS
<1>2. /\ Types /\ queue # << >> /\ queue' = Tail(queue)
      /\ UNCHANGED <<todo, phase, wanted, failure>>
  BY Zenon DEF Control, Execute, host
<1>3. /\ reading'.length = reading.length
      /\ reading'.ap = reading.ap /\ reading'.addr = reading.addr
      /\ ~IsRead(e) \/ reading.length = 0 => reading' = reading
      /\ IsRead(e) /\ reading.length # 0 /\ reading.skip # 0 =>
           reading'.skip = reading.skip - 1 /\ reading'.got = reading.got
           /\ reading'.sound = reading.sound
  BY <1>1, <1>2, ExecutedReading
<1>4. InCall'
  <2>1. reading = NoReading => reading' = NoReading
    BY <1>3, NoReadingType
  <2> QED BY <1>2, <2>1, Zenon DEF ReadRight, InCall
<1>5. ASSUME reading'.length > 0, failure' = NoError
      PROVE  GotRight'
  <2>1. reading.length > 0 /\ failure = NoError
    BY <1>2, <1>3, <1>5, Zenon
  <2>2. GotRight
    BY <2>1, ReadRightIs, Zenon
  <2>3. reading.length # 0
    BY <2>1
  <2>4. CASE IsRead(e) /\ reading.skip = 0
    BY <1>1, <2>2, <2>3, <2>4, GotMore
  <2>5. CASE ~IsRead(e) \/ reading.skip # 0
    <3>1. /\ reading'.got = reading.got /\ reading'.sound = reading.sound
          /\ IF IsRead(e) THEN reading.skip # 0 /\ reading'.skip = reading.skip - 1
             ELSE reading'.skip = reading.skip
      BY <1>3, <2>3, <2>5
    <3>2. ReadLow' = ReadLow /\ ReadHigh' = ReadHigh
      BY <1>3, <3>1, Zenon DEF ReadLow, ReadHigh
    <3>3. \A m \in 0..Len(queue) : Rest(m) => \E n \in 0..Len(queue') : Rest(n)'
      BY <1>1, <1>2, <1>3, <3>1, <3>2, RestLess
    <3>4. spoilt \subseteq spoilt'
      <4>1. PICK ap : ap = hw.select[1]
        OBVIOUS
      <4> QED BY <1>1, <1>2, <4>1, ExecutedSpoilt
    <3> QED BY <1>2, <1>3, <2>2, <3>1, <3>3, <3>4, GotGoesOn
  <2> QED BY <2>4, <2>5
<1>6. (ReadRight <=> InCall /\ (reading.length > 0 /\ failure = NoError => GotRight))'
  BY Zenon DEF ReadRight, InCall, GotRight
<1> QED BY <1>4, <1>5, <1>6, Zenon

-----------------------------------------------------------------------------
(* The memory and the calls that start.                                    *)

\* Between two calls no read is in progress.
LEMMA IdleIsNotReading ==
  ASSUME ReadRight, todo = << >>
  PROVE  reading = NoReading
BY Zenon DEF ReadRight

\* Steps of which none writes the memory.
LEMMA NoWritesWriteNothing ==
  ASSUME NEW s \in Seq(Accesses), NoWrites(s)
  PROVE  WrittenBy(s) = {}
<1>1. ASSUME NEW e \in Range(s)
      PROVE  Writes(e) = {}
  <2>1. PICK k \in 1..Len(s) : e = s[k]
    BY DEF Range
  <2>2. e.reg # "drw" \/ ~e.write
    BY <2>1, Zenon DEF NoWrites
  <2> QED BY <2>2, TransfersWrite
<1> QED BY <1>1, WrittenIs

\* A call starts that writes nothing.
LEMMA NothingToWrite ==
  ASSUME Types, BytesRight, todo = << >>, todo' \in Seq(Accesses), NoWrites(todo'),
         UNCHANGED <<queue, mem, wanted, spoilt>>, phase' # "open" => phase # "open"
  PROVE  BytesRight'
<1>1. WrittenBy(todo') = {}
  <2>1. PICK s : s = todo'
    OBVIOUS
  <2>2. WrittenBy(s) = {}
    BY <2>1, NoWritesWriteNothing
  <2> QED BY <2>1, <2>2, Zenon
<1>2. WrittenBy(todo) = {}
  BY Writing, Zenon
<1>3. Pending' = Pending
  BY <1>1, <1>2, Zenon DEF Pending
<1>4. phase' # "open" => \A k \in 1..Len(queue') : queue'[k].reg # "drw"
  BY Zenon DEF BytesRight
<1> QED BY <1>3, <1>4, BytesKept, Zenon

\* A call that writes no memory starts.
LEMMA CallMemory ==
  ASSUME Types, MemoryInv, todo = << >>, todo' \in Seq(Accesses), NoWrites(todo'),
         UNCHANGED <<queue, mem, wanted, spoilt, reading, wrong>>, phase' # "open" => phase # "open"
  PROVE  MemoryInv'
<1>1. BytesRight'
  BY NothingToWrite, Zenon DEF MemoryInv
<1>2. reading' = NoReading
  BY IdleIsNotReading, Zenon DEF MemoryInv
<1> QED BY <1>1, <1>2, NoReadInProgress, Zenon DEF MemoryInv

\* What the steps of a memory access transfer.
Transferred(s, ap, write, range) ==
  /\ write => WrittenBy(s) = {ap} \X range
  /\ ~write => ReadBytes(s) = range

\* The list of a request transfers the bytes asked for, upwards.
LEMMA ListBytes ==
  ASSUME NEW s, NEW ap, NEW write, NEW low, NEW high, IsList(s, ap, write, low, high)
  PROVE  Transferred(s, ap, write, low..(high - 1))
<1>1. /\ s \in Seq(Accesses) /\ Bytes(s) = low..(high - 1)
      /\ \A e \in Range(s) : CallStep(e, ap, write)
  BY Zenon DEF IsList, Lists, Parts
<1>2. \A e \in Range(s) : e.reg = "drw" => e.ap = ap /\ e.write = write
  BY <1>1, Zenon DEF CallStep
<1>3. ASSUME write PROVE WrittenBy(s) = {ap} \X (low..(high - 1))
  <2>1. ASSUME NEW e \in Range(s) PROVE Writes(e) = {ap} \X RangeOf(e)
    <3>1. CASE e.reg = "drw"
      <4>1. Writes(e) = {<<e.ap, b>> : b \in RangeOf(e)} /\ e.ap = ap
        BY <1>2, <1>3, <3>1, Zenon DEF Writes
      <4> QED BY <4>1
    <3>2. CASE e.reg # "drw"
      <4>1. Writes(e) = {} /\ RangeOf(e) = {}
        BY <3>2, TransfersWrite
      <4> QED BY <4>1
    <3> QED BY <3>1, <3>2
  <2>2. WrittenBy(s) = UNION {Writes(e) : e \in Range(s)}
    BY <1>1, WrittenIs
  <2>3. WrittenBy(s) = {ap} \X Bytes(s)
    BY <2>1, <2>2 DEF Bytes
  <2> QED BY <1>1, <2>3
<1>4. ASSUME ~write PROVE ReadBytes(s) = low..(high - 1)
  <2>1. ASSUME NEW e \in Range(s) PROVE ReadsOf(e) = RangeOf(e)
    <3>1. CASE e.reg = "drw"
      BY <1>2, <1>4, <3>1 DEF ReadsOf, IsRead
    <3>2. CASE e.reg # "drw"
      BY <3>2, TransfersWrite DEF ReadsOf
    <3> QED BY <3>1, <3>2
  <2>2. \A b : b \in ReadBytes(s) <=> \E e \in Range(s) : b \in RangeOf(e)
    BY <2>1, ReadBytesAre
  <2>3. ReadBytes(s) = Bytes(s)
    BY <2>2 DEF Bytes
  <2> QED BY <1>1, <2>3
<1> QED BY <1>3, <1>4, Zenon DEF Transferred

\* A write begins: its bytes are wanted and pending.
LEMMA WriteBeginsBytes ==
  ASSUME Types, BytesRight, todo = << >>, NEW r \in menu.requests, Access(r), r.write
  PROVE  BytesRight'
<1>1. PICK range : range = r.addr..(r.addr + r.length - 1)
  OBVIOUS
<1>2. /\ spoilt' = spoilt \ ({r.ap} \X range)
      /\ \A a \in APs, b \in Memory :
           wanted'[a][b] = IF a = r.ap /\ b \in range THEN Stamp(a, b) ELSE wanted[a][b]
  BY <1>1, WriteBegins
<1>3. WrittenBy(todo') = {r.ap} \X range
  <2>1. PICK s : s = todo'
    OBVIOUS
  <2>2. IsList(s, r.ap, r.write, r.addr, r.addr + r.length)
    BY <2>1, AccessIs, Zenon
  <2>3. r.ap \in APs /\ r.write \in BOOLEAN
    BY RequestsAre, Zenon DEF Request
  <2>4. PICK ap \in APs, write \in BOOLEAN : ap = r.ap /\ write = r.write
    BY <2>3, Zenon
  <2>5. PICK low, high : low = r.addr /\ high = r.addr + r.length
    OBVIOUS
  <2>6. write /\ IsList(s, ap, write, low, high)
    BY <2>2, <2>4, <2>5, Zenon
  <2>7. Transferred(s, ap, write, low..(high - 1))
    BY <2>6, ListBytes, Zenon
  <2>8. range = low..(high - 1)
    <3>1. PICK addr \in Nat, length \in Nat : addr = r.addr /\ length = r.length
      <4>1. r.addr \in Nat /\ r.length \in Nat \ {0}
        BY RequestsAre, Zenon DEF Request
      <4> QED BY <4>1
    <3>2. range = addr..(addr + length - 1) /\ low = addr /\ high = addr + length
      BY <1>1, <2>5, <3>1, Zenon
    <3> QED BY <3>2
  <2>9. Transferred(todo', r.ap, r.write, range)
    BY <2>1, <2>4, <2>7, <2>8, Zenon
  <2> QED BY <2>9 DEF Transferred
<1>4. UNCHANGED <<queue, mem, phase>>
  BY Zenon DEF Access, target
<1>5. Pending = WrittenBy(queue) /\ Pending' = WrittenBy(queue) \cup ({r.ap} \X range)
  <2>1. WrittenBy(queue') = WrittenBy(queue)
    BY <1>4, Zenon
  <2>2. WrittenBy(todo) = {}
    BY Writing, Zenon
  <2>3. Pending = WrittenBy(queue) \cup {} /\ Pending' = WrittenBy(queue) \cup ({r.ap} \X range)
    BY <1>3, <2>1, <2>2, Zenon DEF Pending
  <2> QED BY <2>3
<1>6. ASSUME NEW a \in APs, NEW b \in Memory, <<a, b>> \notin spoilt' \cup Pending'
      PROVE  mem'[a][b] = wanted'[a][b]
  <2>1. ~(a = r.ap /\ b \in range) /\ <<a, b>> \notin spoilt \cup Pending
    BY <1>2, <1>5, <1>6
  <2>2. wanted'[a][b] = wanted[a][b] /\ mem[a][b] = wanted[a][b]
    BY <1>2, <2>1, Zenon DEF BytesRight
  <2> QED BY <1>4, <2>2, Zenon
<1>7. ASSUME NEW a \in APs, NEW b \in Memory, <<a, b>> \in Pending'
      PROVE  wanted'[a][b] = Stamp(a, b)
  <2>1. CASE a = r.ap /\ b \in range
    BY <1>2, <2>1, Zenon
  <2>2. CASE ~(a = r.ap /\ b \in range)
    <3>1. <<a, b>> \in Pending
      BY <1>5, <1>7, <2>2
    <3> QED BY <1>2, <2>2, <3>1, Zenon DEF BytesRight
  <2> QED BY <2>1, <2>2
<1>8. phase' # "open" => \A k \in 1..Len(queue') : queue'[k].reg # "drw"
  BY <1>4, Zenon DEF BytesRight
<1> QED BY <1>6, <1>7, <1>8, Zenon DEF BytesRight

\* A read begins: what it is to read is what its steps read.
LEMMA ReadBeginsRead ==
  ASSUME Types, NEW r \in menu.requests, Access(r), ~r.write
  PROVE  ReadRight'
<1>1. PICK s, low, high : s = todo' /\ low = r.addr /\ high = r.addr + r.length
  OBVIOUS
<1>2. /\ reading'.ap = r.ap /\ reading'.addr = r.addr /\ reading'.length = r.length
      /\ reading'.skip = Cardinality({i \in 1..Len(queue) : IsRead(queue[i])})
      /\ reading'.got = << >>
  BY ReadBegins
<1>3. PICK ap \in APs, write \in BOOLEAN : ap = r.ap /\ write = r.write
  <2>1. r.ap \in APs /\ r.write \in BOOLEAN
    BY RequestsAre, Zenon DEF Request
  <2> QED BY <2>1, Zenon
<1>4. IsList(s, ap, write, low, high) /\ ~write
  BY <1>1, <1>3, AccessIs, Zenon
<1>5. ReadBytes(s) = low..(high - 1)
  <2>1. Transferred(s, ap, write, low..(high - 1))
    BY <1>4, ListBytes, Zenon
  <2> QED BY <1>4, <2>1, Zenon DEF Transferred
<1>6. /\ s \in Seq(Accesses) /\ s # << >> /\ s[Len(s)].reg = "await" /\ InRelation(s, Upwards)
      /\ \A e \in Range(s) : CallStep(e, ap, write)
  BY <1>4, Zenon DEF IsList, Lists, Parts
<1>7. phase' = "open" /\ queue' = queue
  BY Zenon DEF Access
<1>8. \A e \in Range(s) : e.reg = "drw" => ~e.write /\ e.ap = ap
  BY <1>4, <1>6, Zenon DEF CallStep
<1>9. InRelation(s, InOrder)
  <2>1. ASSUME NEW x \in Accesses, NEW y \in Accesses, <<x, y>> \in Upwards
        PROVE  <<x, y>> \in InOrder
    <3>1. PICK p : p = <<x, y>>
      OBVIOUS
    <3>2. p \in Accesses \X Accesses /\ p[1] = x /\ p[2] = y
      BY <3>1
    <3>3. x.reg = "drw" /\ y.reg = "drw" => x.addr + x.size <= y.addr
      <4>1. p[1].reg = "drw" /\ p[2].reg = "drw" => p[1].addr + p[1].size <= p[2].addr
        BY <2>1, <3>1, Zenon DEF Upwards
      <4> QED BY <3>2, <4>1, Zenon
    <3>4. IsRead(p[1]) /\ IsRead(p[2]) => p[1].addr + p[1].size <= p[2].addr
      BY <3>2, <3>3, Zenon DEF IsRead
    <3> QED BY <3>1, <3>2, <3>4, Zenon DEF InOrder
  <2>2. \A i \in DOMAIN s : s[i] \in Accesses
    BY <1>6
  <2> QED BY <1>6, <2>1, <2>2, Zenon DEF InRelation
<1>10. PICK n : n = Len(queue) /\ n \in 0..Len(queue') /\ Queued(n)' = << >>
  <2>1. PICK q \in Seq(Accesses) : q = queue
    BY DEF Types
  <2>2. SubSeq(q, Len(q) + 1, Len(q)) = << >> /\ Len(q) \in 0..Len(q)
    OBVIOUS
  <2>3. PICK n : n = Len(q)
    OBVIOUS
  <2>4. Queued(n)' = SubSeq(q, n + 1, Len(q))
    BY <1>7, <2>1, Zenon DEF Queued
  <2> QED BY <1>7, <2>1, <2>2, <2>3, <2>4, Zenon
<1>11. Rest(n)'
  <2>1. Cardinality({i \in 1..n : IsRead(queue'[i])}) = reading'.skip
    BY <1>2, <1>7, <1>10, Zenon
  <2>2. Range(<< >>) = {} /\ ReadBytes(<< >>) = {}
    BY <1>6, ReadListEnds
  <2>3. Ours(Queued(n))' /\ Ours(todo)'
    <3>1. \A e \in Range(Queued(n)') : e.reg = "drw" => ~e.write /\ e.ap = reading'.ap
      BY <1>10, <2>2, Zenon
    <3>2. \A e \in Range(todo') : e.reg = "drw" => ~e.write /\ e.ap = reading'.ap
      BY <1>1, <1>2, <1>3, <1>8, Zenon
    <3> QED BY <3>1, <3>2, Zenon DEF Ours
  <2>4. InRelation(Queued(n)', InOrder) /\ InRelation(todo', InOrder)
    <3>1. InRelation(<< >>, InOrder)
      BY DEF InRelation
    <3> QED BY <1>1, <1>9, <1>10, <3>1, Zenon
  <2>5. \A x \in Range(Queued(n)'), y \in Range(todo') : <<x, y>> \in InOrder
    BY <1>10, <2>2, Zenon
  <2>6. ReadBytes(Queued(n)') \cup ReadBytes(todo')
          = reading'.addr + Len(reading'.got)..reading'.addr + reading'.length - 1
    <3>1. PICK addr \in Nat, length \in Nat : addr = r.addr /\ length = r.length
      <4>1. r.addr \in Nat /\ r.length \in Nat \ {0}
        BY RequestsAre, Zenon DEF Request
      <4> QED BY <4>1
    <3>2. ReadBytes(s) = addr..(addr + length - 1)
      <4>1. low = addr /\ high = addr + length
        BY <1>1, <3>1, Zenon
      <4> QED BY <1>5, <4>1
    <3>3. addr + Len(<< >>)..addr + length - 1 = addr..(addr + length - 1)
      BY <3>1
    <3>4. ReadBytes(Queued(n)') \cup ReadBytes(todo') = addr..(addr + length - 1)
      <4>1. ReadBytes(Queued(n)') = {} /\ ReadBytes(todo') = ReadBytes(s)
        BY <1>1, <1>10, <2>2, Zenon
      <4> QED BY <3>2, <4>1
    <3>5. /\ reading'.addr = addr /\ reading'.length = length /\ reading'.got = << >>
      BY <1>2, <3>1, Zenon
    <3>6. reading'.addr + Len(reading'.got)..reading'.addr + reading'.length - 1
            = addr + Len(<< >>)..addr + length - 1
      BY <3>5
    <3> QED BY <3>3, <3>4, <3>6, Zenon
  <2> QED BY <2>1, <2>3, <2>4, <2>5, <2>6, Zenon DEF Rest
<1>12. GotRight'
  <2>1. /\ Len(reading'.got) <= reading'.length
        /\ \A k \in 1..Len(reading'.got) : FALSE
    <3>1. Len(<< >>) = 0 /\ \A k \in 1..0 : FALSE
      OBVIOUS
    <3>2. r.length \in Nat
      <4>1. r.length \in Nat \ {0}
        BY RequestsAre, Zenon DEF Request
      <4> QED BY <4>1
    <3> QED BY <1>2, <3>1, <3>2
  <2>2. reading'.addr..reading'.addr + reading'.length - 1 \subseteq Memory
    <3>1. Request(r.ap, r.addr, r.length, r.write, high)
      BY <1>1, RequestsAre, Zenon
    <3>2. r.addr..(high - 1) \subseteq Memory
      BY <3>1, Zenon DEF Request
    <3>3. PICK addr \in Nat, length \in Nat : addr = r.addr /\ length = r.length
      <4>1. r.addr \in Nat /\ r.length \in Nat \ {0}
        BY RequestsAre, Zenon DEF Request
      <4> QED BY <4>1
    <3>4. addr..(addr + length - 1) \subseteq Memory
      <4>1. high = addr + length
        BY <1>1, <3>3, Zenon
      <4> QED BY <3>2, <3>3, <4>1
    <3>5. reading'.addr = addr /\ reading'.length = length
      BY <1>2, <3>3, Zenon
    <3> QED BY <3>4, <3>5, Zenon
  <2> QED BY <1>10, <1>11, <2>1, <2>2, Zenon DEF GotRight
<1>13. todo' # << >> /\ todo'[Len(todo')].reg = "await"
  BY <1>1, <1>6, Zenon
<1> QED BY <1>7, <1>12, <1>13, Zenon DEF ReadRight, GotRight

\* The calls that start.
LEMMA StartedMemory ==
  ASSUME Control, MemoryInv,
         Open \/ Reset \/ OtherCalls \/ (\E r \in menu.requests : Access(r))
  PROVE  MemoryInv'
<1>1. Types /\ BytesRight /\ ReadRight /\ <<"answer", 0>> \notin wrong
  BY Zenon DEF Control, MemoryInv
<1>2. CASE Open
  <2>1. /\ todo = << >> /\ todo' = Opening /\ phase # "open"
        /\ UNCHANGED <<queue, mem, wanted, spoilt, reading, wrong>>
    <3>1. /\ todo = << >> /\ todo' = Opening /\ phase = "closed"
          /\ UNCHANGED <<queue, mem, wanted, spoilt, reading, wrong>>
      BY <1>2, Zenon DEF Open, Call, history, target
    <3> QED BY <3>1
  <2>2. todo' \in Seq(Accesses) /\ NoWrites(todo')
    <3>1. \A k \in 1..10 : Opening[k].reg # "drw"
      BY OpeningIs DEF OpeningSteps
    <3>2. NoWrites(Opening)
      BY <3>1, OpeningIs, Zenon DEF NoWrites
    <3> QED BY <2>1, <3>2, OpeningIs, Zenon
  <2> QED BY <1>1, <2>1, <2>2, CallMemory
<1>3. CASE Reset
  <2>1. /\ todo = << >> /\ phase' = phase
        /\ UNCHANGED <<queue, mem, wanted, spoilt, reading, wrong>>
    BY <1>3, Zenon DEF Reset, Call, history, target
  <2>2. todo' \in Seq(Accesses) /\ NoWrites(todo')
    BY <1>3, ResetIs, Zenon DEF OpenCall
  <2> QED BY <1>1, <2>1, <2>2, CallMemory, Zenon
<1>4. CASE OtherCalls
  <2>1. PICK name, steps : OtherCall(name, steps) /\ OpenCall(steps) /\ NoWrites(steps)
                           /\ todo' = steps
    BY <1>1, <1>4, OtherCallsAre, Zenon
  <2>2. /\ todo = << >> /\ phase' = phase
        /\ UNCHANGED <<queue, mem, wanted, spoilt, reading, wrong>>
    BY <2>1, Zenon DEF OtherCall, Call, history, target
  <2>3. todo' \in Seq(Accesses) /\ NoWrites(todo')
    BY <2>1, Zenon DEF OpenCall
  <2> QED BY <1>1, <2>2, <2>3, CallMemory, Zenon
<1>5. ASSUME NEW r \in menu.requests, Access(r)
      PROVE  MemoryInv'
  <2>1. todo = << >> /\ phase' = phase /\ UNCHANGED <<queue, mem, wrong>>
    BY <1>5, Zenon DEF Access, Call, target
  <2>2. CASE r.write
    <3>1. BytesRight'
      BY <1>1, <1>5, <2>1, <2>2, WriteBeginsBytes
    <3>2. reading' = NoReading
      <4>1. reading' = reading
        BY <1>1, <1>5, <2>2, WriteBegins
      <4> QED BY <1>1, <2>1, <4>1, IdleIsNotReading, Zenon
    <3> QED BY <1>1, <2>1, <3>1, <3>2, NoReadInProgress, Zenon DEF MemoryInv
  <2>3. CASE ~r.write
    <3>1. UNCHANGED <<wanted, spoilt>>
      BY <1>1, <1>5, <2>3, ReadBegins
    <3>2. todo' \in Seq(Accesses) /\ NoWrites(todo')
      BY <1>1, <1>5, <2>3, AccessIs, Zenon DEF OpenCall
    <3>3. BytesRight'
      BY <1>1, <2>1, <3>1, <3>2, NothingToWrite, Zenon
    <3>4. ReadRight'
      BY <1>1, <1>5, <2>3, ReadBeginsRead
    <3> QED BY <1>1, <2>1, <3>3, <3>4, Zenon DEF MemoryInv
  <2> QED BY <2>2, <2>3
<1> QED BY <1>2, <1>3, <1>4, <1>5, Zenon

-----------------------------------------------------------------------------
(* The memory and the steps of calls.                                      *)

\* The call goes on, and the read that is in progress with it.
LEMMA GoesOnMemory ==
  ASSUME Types, MemoryInv, todo # << >>,
         UNCHANGED <<reading, mem, wanted, spoilt, wrong, phase, failure>>,
         \/ todo' = Tail(todo) /\ Step1.reg # "drw" /\ queue' = queue
         \/ todo' = Tail(todo) /\ queue' = Append(queue, Step1)
         \/ todo' = todo /\ \E e \in Accesses : e.reg # "drw" /\ queue' = Append(queue, e),
         phase' # "open" => \A k \in 1..Len(queue') : queue'[k].reg # "drw",
         Step1.reg # "await" \/ Tail(todo) # << >>
  PROVE  MemoryInv'
<1>1. BytesRight /\ ReadRight /\ InCall /\ <<"answer", 0>> \notin wrong
  BY Zenon DEF MemoryInv, ReadRight, InCall
<1>2. BytesRight'
  BY <1>1, BytesGoOn, Zenon
<1>3. InCall'
  BY <1>1, InCallGoesOn, Zenon
<1>4. \A m \in 0..Len(queue) : Rest(m) => \E n \in 0..Len(queue') : Rest(n)'
  BY RestGoesOn, Zenon
<1>5. ReadRight'
  BY <1>1, <1>3, <1>4, ReadKept, Zenon
<1> QED BY <1>1, <1>2, <1>5, Zenon DEF MemoryInv

\* A queued SELECT write is no transfer.
LEMMA IssueSelectMemory ==
  ASSUME Control, MemoryInv, IssueSelect
  PROVE  MemoryInv'
<1>1. Types /\ todo # << >> /\ BytesRight /\ IsAccess(Step1)
  BY Zenon DEF Control, MemoryInv, IssueSelect
<1>2. PICK e : e = Step("select", Step1.ap, BankOf(Step1), 0, TRUE, FALSE)
  OBVIOUS
<1>3. e \in Accesses /\ e.reg # "drw"
  <2>1. e \in Accesses /\ e.reg = "select"
    BY <1>1, <1>2, RestOfCall, QueuedSelect
  <2> QED BY <2>1
<1>4. /\ UNCHANGED <<reading, mem, wanted, spoilt, wrong, phase, failure>>
      /\ todo' = todo /\ queue' = Append(queue, e)
  BY <1>2, Zenon DEF IssueSelect, Enqueue, history, target
<1>5. phase' # "open" => \A k \in 1..Len(queue') : queue'[k].reg # "drw"
  BY <1>1, <1>3, <1>4, QueueBeforeOpen, Zenon
<1>6. Step1.reg # "await"
  BY <1>1 DEF IsAccess
<1> QED BY <1>1, <1>3, <1>4, <1>5, <1>6, GoesOnMemory, Zenon

\* A transfer that moves from the call to the queue remains to be made.
LEMMA IssueMemory ==
  ASSUME Control, MemoryInv, Issue
  PROVE  MemoryInv'
<1>1. Types /\ todo # << >> /\ BytesRight /\ IsAccess(Step1) /\ Shape
  BY Zenon DEF Control, MemoryInv, Issue
<1>2. Step1 \in Accesses /\ Step1 = todo[1] /\ 1 \in 1..Len(todo)
  BY <1>1, RestOfCall
<1>3. /\ UNCHANGED <<reading, mem, wanted, spoilt, wrong, phase, failure>>
      /\ todo' = Tail(todo) /\ queue' = Append(queue, Step1)
  BY Zenon DEF Issue, Enqueue, Return, history, target
<1>4. phase # "open" => Step1.reg # "drw"
  <2>1. CASE phase = "opening"
    <3>1. Step1.reg \in OpeningSteps
      BY <1>1, <1>2, <2>1, Zenon DEF Shape
    <3> QED BY <3>1 DEF OpeningSteps
  <2>2. phase # "closed" /\ phase \in {"closed", "opening", "open"}
    BY <1>1, TypesAre, Zenon DEF Shape, HostTypes
  <2> QED BY <2>1, <2>2
<1>5. phase' # "open" => \A k \in 1..Len(queue') : queue'[k].reg # "drw"
  BY <1>1, <1>2, <1>3, <1>4, QueueBeforeOpen, Zenon
<1>6. Step1.reg # "await"
  BY <1>1 DEF IsAccess
<1> QED BY <1>1, <1>3, <1>5, <1>6, GoesOnMemory, Zenon

\* What a read got is its answer: there is nothing left to read.
LEMMA AllIsRead ==
  ASSUME Types, ReadRight, todo # << >>, Tail(todo) = << >>, Step1.reg # "drw", queue = << >>,
         failure = NoError, reading.length > 0, reading.sound
  PROVE  /\ Len(reading.got) = reading.length
         /\ \A k \in 1..reading.length :
              LET a == reading.addr + k - 1
              IN <<reading.ap, a>> \in spoilt \/ reading.got[k] = wanted[reading.ap][a]
<1>1. GotRight
  BY ReadRightIs, Zenon
<1>2. PICK m : m \in 0..Len(queue) /\ Rest(m)
  BY <1>1, Zenon DEF GotRight
<1>3. ReadBytes(Queued(m)) \cup ReadBytes(todo) = ReadLow..ReadHigh
  BY <1>2, RestIs, Zenon DEF InLists
<1>4. ReadBytes(todo) = {}
  <2>1. todo \in Seq(Accesses)
    BY DEF Types
  <2>2. ReadBytes(todo) = ReadsOf(Step1) \cup ReadBytes(Tail(todo)) /\ ReadBytes(<< >>) = {}
    BY <2>1, ReadListEnds DEF Step1
  <2>3. ReadsOf(Step1) = {}
    BY TransfersWrite DEF ReadsOf
  <2> QED BY <2>2, <2>3
<1>5. ReadBytes(Queued(m)) = {}
  <2>1. m = 0
    <3>1. Len(queue) = 0
      BY Zenon, LenZero
    <3> QED BY <1>2, <3>1
  <2>2. Queued(0) = << >>
    <3>1. SubSeq(<< >>, 0 + 1, Len(<< >>)) = << >>
      OBVIOUS
    <3> QED BY <3>1, Zenon DEF Queued
  <2>3. ReadBytes(<< >>) = {}
    BY ReadListEnds DEF Types
  <2> QED BY <2>1, <2>2, <2>3, Zenon
<1>6. PICK addr \in Nat, n \in Nat, length \in Nat :
        addr = reading.addr /\ n = Len(reading.got) /\ length = reading.length
  <2>1. reading.addr \in Nat /\ reading.length \in Nat /\ reading.got \in Seq(Nat)
    BY DEF Types, ReadingType
  <2> QED BY <2>1
<1>7. addr + n..addr + length - 1 = {}
  BY <1>3, <1>4, <1>5, <1>6, Zenon DEF ReadLow, ReadHigh
<1>8. n = length
  <2>1. n <= length
    BY <1>1, <1>6, Zenon DEF GotRight
  <2>2. addr + n \notin addr + n..addr + length - 1
    BY <1>7, Zenon
  <2> QED BY <2>1, <2>2
<1> QED BY <1>1, <1>6, <1>8, Zenon DEF GotRight

\* A read whose last transfer is executed has all its bytes: they are compared
\* with what is wanted.
LEMMA CompletedMemory ==
  ASSUME Control, MemoryInv, Completed
  PROVE  MemoryInv'
<1>1. Types /\ BytesRight /\ ReadRight /\ <<"answer", 0>> \notin wrong
  BY Zenon DEF Control, MemoryInv
<1>2. /\ todo # << >> /\ (Step1.reg = "await" \/ Step1.reg = "flush") /\ todo' = Tail(todo)
      /\ queue = << >> /\ failure = NoError /\ UNCHANGED <<queue, failure, mem, wanted, spoilt>>
  BY Zenon DEF Completed, At, Step1, Return, target
<1>3. Step1.reg # "drw"
  BY <1>2
<1>4. \A k \in 1..Len(queue') : queue'[k].reg # "drw"
  <2>1. Len(queue') = 0
    BY <1>2, Zenon, LenZero
  <2> QED BY <2>1
<1>5. BytesRight'
  BY <1>1, <1>2, <1>3, <1>4, BytesGoOn, Zenon
<1>6. CASE Tail(todo) = << >>
  <2>1. reading' = NoReading /\ <<"answer", 0>> \notin wrong'
    <3>1. CASE reading.length > 0 /\ reading.sound
      <4>1. /\ Len(reading.got) = reading.length
            /\ \A k \in 1..reading.length :
                 LET a == reading.addr + k - 1
                 IN <<reading.ap, a>> \in spoilt \/ reading.got[k] = wanted[reading.ap][a]
        BY <1>1, <1>2, <1>3, <1>6, <3>1, AllIsRead, Zenon
      <4> QED BY <1>1, <1>6, <4>1, Zenon DEF Completed
    <3>2. CASE ~(reading.length > 0 /\ reading.sound)
      BY <1>1, <1>6, <3>2, Zenon DEF Completed
    <3> QED BY <3>1, <3>2
  <2> QED BY <1>5, <2>1, NoReadInProgress, Zenon DEF MemoryInv
<1>7. CASE Tail(todo) # << >>
  <2>1. UNCHANGED <<reading, wrong, phase>>
    BY <1>7, Zenon DEF Completed
  <2> QED BY <1>1, <1>2, <1>3, <1>4, <1>7, <2>1, GoesOnMemory, Zenon
<1> QED BY <1>6, <1>7

\* Waiting for a result, a saved CSW write and polling leave memory alone.
LEMMA QuietMemory ==
  ASSUME Control, MemoryInv, ResultThere \/ IssueCswCached \/ Poll
  PROVE  MemoryInv'
<1>1. Types /\ BytesRight
  BY Zenon DEF Control, MemoryInv
<1>2. /\ todo # << >> /\ todo' = Tail(todo)
      /\ UNCHANGED <<queue, reading, mem, wanted, spoilt, wrong, phase, failure>>
      /\ Step1.reg = "result" \/ Step1.reg = "csw" \/ Step1.reg = "poll"
  BY Zenon DEF ResultThere, IssueCswCached, Poll, At, Step1, Return, history, target
<1>3. Step1.reg # "drw" /\ Step1.reg # "await"
  BY <1>2
<1>4. phase' # "open" => \A k \in 1..Len(queue') : queue'[k].reg # "drw"
  BY <1>1, <1>2, Zenon DEF BytesRight
<1> QED BY <1>1, <1>2, <1>3, <1>4, GoesOnMemory, Zenon

\* While a session is opened nothing is read or written.
LEMMA OpeningMemory ==
  ASSUME Types, MemoryInv, phase # "open", \A k \in 1..Len(todo) : todo[k].reg # "drw",
         todo' \in Seq(Accesses), \A k \in 1..Len(todo') : todo'[k].reg # "drw",
         queue' \in Seq(Accesses), \A k \in 1..Len(queue') : queue'[k].reg # "drw",
         UNCHANGED <<reading, mem, wanted, spoilt, wrong>>
  PROVE  MemoryInv'
<1>1. BytesRight /\ ReadRight /\ <<"answer", 0>> \notin wrong
  BY Zenon DEF MemoryInv
<1>2. WrittenBy(todo) = {} /\ WrittenBy(queue) = {}
  <2>1. \A k \in 1..Len(queue) : queue[k].reg # "drw"
    BY <1>1, Zenon DEF BytesRight
  <2>2. todo \in Seq(Accesses) /\ queue \in Seq(Accesses)
    BY Zenon DEF Types
  <2> QED BY <2>1, <2>2, NoTransfers
<1>3. WrittenBy(todo') = {} /\ WrittenBy(queue') = {}
  <2>1. ASSUME NEW s \in Seq(Accesses), \A k \in 1..Len(s) : s[k].reg # "drw"
        PROVE  WrittenBy(s) = {}
    BY <2>1, NoTransfers
  <2> QED BY <2>1, Zenon
<1>4. Pending' = Pending
  BY <1>2, <1>3, Zenon DEF Pending
<1>5. BytesRight'
  BY <1>1, <1>4, BytesKept, Zenon
<1>6. reading' = NoReading
  BY <1>1, Zenon DEF ReadRight
<1> QED BY <1>1, <1>5, <1>6, NoReadInProgress, Zenon DEF MemoryInv

\* So do the steps of opening the link.
LEMMA OpeningStepMemory ==
  ASSUME Control, MemoryInv, DpWrite \/ Connect \/ ReadIdCode \/ ReadIdCodeFails
  PROVE  MemoryInv'
<1>1. Types /\ Shape /\ BytesRight
  BY Zenon DEF Control, MemoryInv
<1>2. /\ todo # << >>
      /\ Step1.reg \in {"connect", "idcode", "idcode2", "clear", "select0", "power", "poll"}
      /\ UNCHANGED <<reading, mem, wanted, spoilt, wrong>>
  <2>1. UNCHANGED <<reading, mem, wanted, spoilt, wrong>>
    BY Zenon DEF DpWrite, Connect, ReadIdCode, ReadIdCodeFails, history, target
  <2>2. /\ todo # << >>
        /\ Step1.reg \in {"connect", "idcode", "idcode2", "clear", "select0", "power", "poll"}
    BY DEF DpWrite, Connect, ReadIdCode, ReadIdCodeFails, At, Step1
  <2> QED BY <2>1, <2>2
<1>3. /\ phase = "opening" /\ phase # "open"
      /\ \A k \in 1..Len(todo) : todo[k].reg # "drw"
  <2>1. phase = "opening" /\ \A k \in 1..Len(todo) : todo[k].reg # "drw"
    BY <1>1, <1>2, NoTransfersInOpening
  <2> QED BY <2>1
<1>4. queue \in Seq(Accesses) /\ \A k \in 1..Len(queue) : queue[k].reg # "drw"
  <2>1. queue \in Seq(Accesses)
    BY <1>1, Zenon DEF Types
  <2> QED BY <1>1, <1>3, <2>1, Zenon DEF BytesRight
<1>5. ASSUME todo' = Tail(todo)
      PROVE  todo' \in Seq(Accesses) /\ \A k \in 1..Len(todo') : todo'[k].reg # "drw"
  <2>1. /\ Tail(todo) \in Seq(Accesses) /\ Len(Tail(todo)) = Len(todo) - 1
        /\ \A k \in 1..Len(todo) - 1 : Tail(todo)[k] = todo[k + 1] /\ k + 1 \in 1..Len(todo)
    BY <1>1, <1>2, RestOfCall
  <2> QED BY <1>3, <1>5, <2>1, Zenon
<1>6. /\ << >> \in Seq(Accesses) /\ Len(<< >>) = 0
      /\ \A k \in 1..0 : FALSE
  OBVIOUS
<1>7. CASE DpWrite
  <2>1. PICK s : s = Step1
    OBVIOUS
  <2>2. PICK e : e = IF s.reg = "select0" THEN [s EXCEPT !.reg = "select"] ELSE s
    OBVIOUS
  <2>3. todo' = Tail(todo) /\ (queue' = queue \/ queue' = Append(queue, e))
    <3>1. At("select0") <=> s.reg = "select0"
      BY <1>2, <2>1, Zenon DEF At, Step1
    <3> QED BY <1>7, <2>1, <2>2, <3>1, Zenon DEF DpWrite, Enqueue, Return
  <2>4. e \in Accesses /\ e.reg # "drw"
    <3>1. s.reg \in {"clear", "select0", "power"}
      BY <1>7, <2>1 DEF DpWrite, At, Step1
    <3>2. s \in Accesses
      BY <1>1, <1>2, <2>1, RestOfCall
    <3>3. e \in Accesses /\ ~IsAccess(e)
      BY <2>2, <3>1, <3>2, DpStep
    <3> QED BY <3>3 DEF IsAccess
  <2>5. queue' \in Seq(Accesses) /\ \A k \in 1..Len(queue') : queue'[k].reg # "drw"
    <3>1. CASE queue' = queue
      BY <1>4, <3>1
    <3>2. CASE queue' = Append(queue, e)
      <4>1. PICK q : q = queue'
        OBVIOUS
      <4>2. /\ q \in Seq(Accesses)
            /\ \A k \in 1..Len(q) : IF k \in 1..Len(queue) THEN q[k] = queue[k] ELSE q[k] = e
        <5>1. q = Append(queue, e) /\ queue \in Seq(Accesses) /\ e \in Accesses
          BY <1>4, <2>4, <3>2, <4>1, Zenon
        <5> QED BY ONLY <5>1
      <4> QED BY <1>4, <2>4, <4>1, <4>2, Zenon
    <3> QED BY <2>3, <3>1, <3>2
  <2> QED BY <1>1, <1>2, <1>3, <1>5, <2>3, <2>5, OpeningMemory, Zenon
<1>8. CASE Connect
  <2>1. todo' = Tail(todo) /\ queue' = << >>
    BY <1>8, Zenon DEF Connect, Return
  <2> QED BY <1>1, <1>2, <1>3, <1>5, <1>6, <2>1, OpeningMemory, Zenon
<1>9. CASE ReadIdCode
  <2>1. queue' = queue
    BY <1>9, Zenon DEF ReadIdCode
  <2>2. CASE Step1.reg = "idcode"
    <3>1. todo' = Tail(Tail(todo))
      BY <1>2, <1>9, <2>2, Zenon DEF ReadIdCode, At, Step1
    <3>2. todo' \in Seq(Accesses) /\ \A k \in 1..Len(todo') : todo'[k].reg # "drw"
      BY <1>1, <1>2, <1>3, <2>2, <3>1, TailOfTail, Zenon
    <3> QED BY <1>1, <1>2, <1>3, <1>4, <2>1, <3>2, OpeningMemory, Zenon
  <2>3. CASE Step1.reg # "idcode"
    <3>1. todo' = Tail(todo)
      BY <1>2, <1>9, <2>3, Zenon DEF ReadIdCode, At, Step1
    <3> QED BY <1>1, <1>2, <1>3, <1>4, <1>5, <2>1, <3>1, OpeningMemory, Zenon
  <2> QED BY <2>2, <2>3
<1>10. CASE ReadIdCodeFails
  <2>1. queue' = queue /\ (todo' = Tail(todo) \/ todo' = << >>)
    BY <1>10, Zenon DEF ReadIdCodeFails, Return
  <2>2. todo' \in Seq(Accesses) /\ \A k \in 1..Len(todo') : todo'[k].reg # "drw"
    BY <1>5, <1>6, <2>1, Zenon
  <2> QED BY <1>1, <1>2, <1>3, <1>4, <2>1, <2>2, OpeningMemory, Zenon
<1> QED BY <1>7, <1>8, <1>9, <1>10

\* So does a command of the probe.
LEMMA ProbeCommandMemory ==
  ASSUME Control, MemoryInv, ProbeCommand
  PROVE  MemoryInv'
<1>1. Types /\ Shape /\ BytesRight /\ ReadRight /\ <<"answer", 0>> \notin wrong
  BY Zenon DEF Control, MemoryInv
<1>2. /\ todo # << >> /\ todo' = Tail(todo) /\ queue' = queue /\ queue = << >>
      /\ UNCHANGED <<reading, mem, wanted, spoilt, wrong>>
  BY Zenon DEF ProbeCommand, At, Return
<1>3. Step1.reg \in {"clock", "reset", "close"}
  BY DEF ProbeCommand, At, Step1
<1>4. Step1.reg # "drw" /\ Step1.reg # "await"
  BY <1>3
<1>5. \A k \in 1..Len(queue') : queue'[k].reg # "drw"
  <2>1. Len(queue') = 0
    BY <1>2, Zenon, LenZero
  <2> QED BY <2>1
<1>6. BytesRight'
  BY <1>1, <1>2, <1>4, <1>5, BytesGoOn, Zenon
<1>7. reading = NoReading
  <2>1. Step1 = todo[1] /\ 1 \in 1..Len(todo)
    BY <1>1, <1>2, RestOfCall
  <2>2. Len(todo) = 1
    BY <1>1, <1>3, <2>1 DEF Shape
  <2>3. todo[Len(todo)].reg # "await"
    BY <1>4, <2>1, <2>2
  <2> QED BY <1>1, <2>3, Zenon DEF ReadRight
<1> QED BY <1>1, <1>2, <1>6, <1>7, NoReadInProgress, Zenon DEF MemoryInv

\* A call that ends by an exception leaves its writes spoilt.
LEMMA RaiseMemory ==
  ASSUME Control, MemoryInv, Raise
  PROVE  MemoryInv'
<1>1. Types /\ BytesRight /\ <<"answer", 0>> \notin wrong
  BY Zenon DEF Control, MemoryInv
<1>2. /\ todo' = << >> /\ queue' = Handled /\ reading' = NoReading
      /\ UNCHANGED <<mem, wanted, wrong>>
      /\ spoilt' = spoilt \cup WrittenBy(todo) \cup WrittenBy(queue)
  BY Zenon DEF Raise, target
<1>3. /\ queue' \in Seq(Accesses)
      /\ \A k \in 1..Len(queue') : queue'[k].reg \in {"clear", "abort"}
  BY <1>2, HandledIs
<1>4. \A k \in 1..Len(queue') : queue'[k].reg # "drw"
  BY <1>3
<1>5. WrittenBy(queue') = {} /\ WrittenBy(todo') = {}
  <2>1. PICK q : q = queue'
    OBVIOUS
  <2>2. q \in Seq(Accesses) /\ \A k \in 1..Len(q) : q[k].reg # "drw"
    BY <1>3, <1>4, <2>1, Zenon
  <2>3. WrittenBy(q) = {}
    BY ONLY <2>2, NoTransfers
  <2>4. WrittenBy(<< >>) = {}
    BY <1>1, Writing, Zenon
  <2> QED BY <1>2, <2>1, <2>3, <2>4, Zenon
<1>6. Pending' = {} \cup {}
  BY <1>5, Zenon DEF Pending
<1>7. Pending' \subseteq Pending /\ Pending \subseteq Pending' \cup spoilt' /\ spoilt \subseteq spoilt'
  <2>1. Pending \subseteq spoilt' /\ spoilt \subseteq spoilt'
    BY <1>2 DEF Pending
  <2> QED BY <1>6, <2>1
<1>8. BytesRight'
  BY <1>1, <1>2, <1>4, <1>7, BytesKept, Zenon
<1> QED BY <1>1, <1>2, <1>8, NoReadInProgress, Zenon DEF MemoryInv

-----------------------------------------------------------------------------
(* The memory and the target.                                              *)
\* The bytes of an access that is not executed are spoilt.
LEMMA DroppedMemory ==
  ASSUME Control, MemoryInv, Fail \/ Refuse \/ SkipRest
  PROVE  MemoryInv'
<1>1. Types /\ BytesRight /\ ReadRight /\ <<"answer", 0>> \notin wrong
  BY Zenon DEF Control, MemoryInv
<1>2. PICK e : e = Head(queue)
  OBVIOUS
<1>3. /\ queue # << >> /\ queue' = Tail(queue)
      /\ spoilt' = spoilt \cup Writes(e) /\ failure' # NoError
      /\ UNCHANGED <<todo, phase, mem, wanted, reading, wrong>>
  BY <1>1, <1>2, DroppedIs DEF host
<1>4. Pending = Writes(e) \cup Pending'
  <2>1. WrittenBy(queue) = Writes(e) \cup WrittenBy(queue')
    BY <1>1, <1>2, <1>3, Writing, Zenon
  <2>2. WrittenBy(todo') = WrittenBy(todo)
    BY <1>3, Zenon
  <2> QED BY <2>1, <2>2, Zenon DEF Pending
<1>5. Pending' \subseteq Pending /\ Pending \subseteq Pending' \cup spoilt' /\ spoilt \subseteq spoilt'
  BY <1>3, <1>4
<1>6. phase' # "open" => \A k \in 1..Len(queue') : queue'[k].reg # "drw"
  <2>1. \A k \in 1..Len(queue') : queue'[k] = queue[k + 1] /\ k + 1 \in 1..Len(queue)
    BY <1>1, <1>3, QueueTypesLess
  <2> QED BY <1>1, <1>3, <2>1, Zenon DEF BytesRight
<1>7. BytesRight'
  BY <1>1, <1>3, <1>5, <1>6, BytesKept, Zenon
<1>8. InCall'
  BY <1>1, <1>3, Zenon DEF ReadRight, InCall
<1>9. ReadRight'
  BY <1>1, <1>3, <1>5, <1>8, ReadKept, Zenon
<1> QED BY <1>1, <1>3, <1>7, <1>9, Zenon DEF MemoryInv

\* What does not touch the memory, the queue or the call.
LEMMA SameMemory ==
  ASSUME MemoryInv,
         UNCHANGED <<phase, todo, queue, failure, mem, wanted, spoilt, reading, wrong>>
  PROVE  MemoryInv'
<1>1. BytesRight'
  <2>1. Pending' = Pending
    BY Zenon DEF Pending
  <2>2. phase' # "open" => \A k \in 1..Len(queue') : queue'[k].reg # "drw"
    BY Zenon DEF MemoryInv, BytesRight
  <2> QED BY <2>1, <2>2, BytesKept, Zenon DEF MemoryInv
<1>2. ReadRight'
  <2>1. InCall'
    BY Zenon DEF MemoryInv, ReadRight, InCall
  <2>2. ASSUME NEW m \in 0..Len(queue), Rest(m)
        PROVE  \E n \in 0..Len(queue') : Rest(n)'
    <3>1. /\ Cardinality({i \in 1..m : IsRead(queue[i])}) = reading.skip
          /\ InLists(Queued(m), todo, ReadLow, ReadHigh)
      BY <2>2, RestIs, Zenon
    <3>2. Queued(m)' = Queued(m) /\ ReadLow' = ReadLow /\ ReadHigh' = ReadHigh
      BY Zenon DEF Queued, ReadLow, ReadHigh
    <3>3. Cardinality({i \in 1..m : IsRead(queue'[i])}) = reading'.skip
      BY <3>1, Zenon
    <3>4. Rest(m)'
      BY <3>1, <3>2, <3>3, RestHolds, Zenon
    <3> QED BY <3>4, Zenon
  <2> QED BY <2>1, <2>2, ReadKept, Zenon DEF MemoryInv
<1> QED BY <1>1, <1>2, Zenon DEF MemoryInv

\* The target executes an access: memory and the read in progress.
LEMMA ExecuteMemory ==
  ASSUME Control, Copies, MemoryInv, Execute
  PROVE  MemoryInv'
<1>1. BytesRight /\ ReadRight /\ <<"answer", 0>> \notin wrong /\ Types
  BY Zenon DEF MemoryInv, Control
<1>2. BytesRight' /\ ReadRight'
  BY <1>1, ExecuteBytes, ExecuteRead
<1>3. <<"answer", 0>> \notin wrong'
  <2>1. PICK e : e = Head(queue)
    OBVIOUS
  <2>2. wrong' \subseteq wrong \cup Amiss(e)
    BY <2>1, Zenon DEF Execute
  <2>3. <<"answer", 0>> \notin Amiss(e)
    BY DEF Amiss, Select
  <2> QED BY <1>1, <2>2, <2>3
<1> QED BY <1>2, <1>3, Zenon DEF MemoryInv

-----------------------------------------------------------------------------
(* The inductive invariant.                                                *)
\* Nothing is wanted of the memory at the beginning.
LEMMA InitMemory ==
  ASSUME Init
  PROVE  MemoryInv
<1>1. /\ queue = << >> /\ todo = << >> /\ mem = wanted /\ reading = NoReading
      /\ wrong = {}
  BY Zenon DEF Init
<1>2. Pending = {}
  <2>1. << >> \in Seq(Accesses)
    OBVIOUS
  <2>2. WrittenBy(<< >>) = {}
    BY <2>1, WrittenByParts
  <2>3. Pending = {} \cup {}
    BY <1>1, <2>2, Zenon DEF Pending
  <2> QED BY <2>3
<1>3. \A k \in 1..Len(queue) : queue[k].reg # "drw"
  <2>1. Len(queue) = 0
    BY <1>1, Zenon, LenZero
  <2> QED BY <2>1
<1>4. BytesRight
  BY <1>1, <1>2, <1>3, Zenon DEF BytesRight
<1>5. ReadRight
  <2>1. ~(reading.length > 0)
    BY <1>1, NoReadingType
  <2> QED BY <1>1, <2>1, Zenon DEF ReadRight
<1> QED BY <1>1, <1>4, <1>5 DEF MemoryInv

\* Every step keeps what is known of the memory.
LEMMA NextMemory ==
  ASSUME Control, Copies, MemoryInv, [Next]_vars
  PROVE  MemoryInv'
<1>1. CASE UNCHANGED vars
  BY <1>1, SameMemory, Zenon DEF vars, host, target, history, counters
<1>2. CASE Open \/ Reset \/ OtherCalls \/ (\E r \in menu.requests : Access(r))
  BY <1>2, StartedMemory
<1>3. CASE Fail \/ Refuse \/ SkipRest
  BY <1>3, DroppedMemory
<1>4. CASE ForeignAccess \/ PowersUp \/ InvalidateCache
  <2>1. UNCHANGED <<phase, todo, queue, failure, mem, wanted, spoilt, reading, wrong>>
    BY <1>4, Zenon DEF ForeignAccess, PowersUp, InvalidateCache, host, target, history
  <2> QED BY <2>1, SameMemory
<1>5. CASE Execute
  BY <1>5, ExecuteMemory
<1>6. CASE Raise
  BY <1>6, RaiseMemory
<1>7. CASE IssueSelect
  BY <1>7, IssueSelectMemory
<1>8. CASE Issue
  BY <1>8, IssueMemory
<1>9. CASE DpWrite \/ Connect \/ ReadIdCode \/ ReadIdCodeFails
  BY <1>9, OpeningStepMemory
<1>10. CASE Completed
  BY <1>10, CompletedMemory
<1>11. CASE ResultThere \/ IssueCswCached \/ Poll
  BY <1>11, QuietMemory
<1>12. CASE ProbeCommand
  BY <1>12, ProbeCommandMemory
<1>13. CASE Calls
  BY <1>2, <1>4, <1>13, CallsAre
<1>14. CASE Steps
  BY <1>6, <1>7, <1>8, <1>9, <1>10, <1>11, <1>12, <1>14 DEF Steps
<1> QED BY <1>1, <1>3, <1>4, <1>5, <1>13, <1>14 DEF Next

\* IInv holds in the initial states and is kept by every step.
LEMMA Invariance == Spec => []IInv
<1>1. Init => IInv
  BY InitControl, InitMemory DEF IInv
<1>2. IInv /\ [Next]_vars => IInv'
  <2> SUFFICES ASSUME IInv, [Next]_vars PROVE IInv'
    OBVIOUS
  <2>1. Control /\ Copies /\ MemoryInv
    BY Zenon DEF IInv
  <2>2. Control' /\ Copies' /\ MemoryInv'
    BY <2>1, NextControl, NextMemory
  <2> QED BY <2>2, Zenon DEF IInv
<1> QED BY <1>1, <1>2, PTL DEF Spec

\* The variables have their types in every state, for every target, page size,
\* memory and menus of requests.
THEOREM TypesCorrect == Spec => []TypeOK
<1>1. IInv => TypeOK
  BY Zenon DEF IInv, Control, Types
<1> QED BY <1>1, Invariance, PTL

\* Every access, those of packets under way when an error occurs included, finds
\* the AP, the bank, the address and the transfer size it is for, unless the
\* register is known to be lost or an access that was to set it was dropped and
\* no call has raised that error yet: the copies of SELECT and CSW that
\* _dp_select and _csw keep never save a write that is needed.
THEOREM AccessesRight == Spec => []AccessRight
<1>1. IInv => AccessRight
  BY Zenon DEF IInv, Copies
<1> QED BY <1>1, Invariance, PTL

\* Between calls, with everything executed, the target's memory holds what was
\* written to it, and no read was ever answered with something else.
THEOREM MemoryRight == Spec => []MemoryAsAsked
<1>1. IInv => MemoryAsAsked
  <2> SUFFICES ASSUME IInv PROVE MemoryAsAsked
    OBVIOUS
  <2>1. <<"answer", 0>> \notin wrong /\ BytesRight /\ Types
    BY Zenon DEF IInv, MemoryInv, Control
  <2>2. ASSUME todo = << >>, queue = << >>
        PROVE  Pending = {}
    <3>1. WrittenBy(<< >>) = {}
      BY <2>1, Writing, Zenon
    <3>2. Pending = {} \cup {}
      BY <2>2, <3>1, Zenon DEF Pending
    <3> QED BY <3>2
  <2>3. ASSUME todo = << >>, queue = << >>, NEW a \in APs, NEW b \in Memory, <<a, b>> \notin spoilt
        PROVE  mem[a][b] = wanted[a][b]
    <3>1. <<a, b>> \notin spoilt \cup Pending
      BY <2>2, <2>3
    <3> QED BY <2>1, <3>1, Zenon DEF BytesRight
  <2> QED BY <2>1, <2>3, Zenon DEF MemoryAsAsked, Idle
<1> QED BY <1>1, Invariance, PTL
=============================================================================
