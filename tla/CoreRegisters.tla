--------------------------- MODULE CoreRegisters ---------------------------
(***************************************************************************)
(* The core registers as cortex_m.py names them and as the DCRSR register  *)
(* of the core transfers them, and the RegisterCache of cache.py.          *)
(*                                                                         *)
(* Several names stand for parts of one hardware register: CONTROL,        *)
(* BASEPRI and PRIMASK are bytes of CFBP, IPSR is a field of XPSR, and D0  *)
(* is the concatenation of S0 and S1.  A name denotes a set of fields,     *)
(* and a value is a function from fields to bits: a mask is the            *)
(* restriction of a value to a name's fields.  One name of each kind       *)
(* stands for the others of its kind.                                      *)
(***************************************************************************)
EXTENDS Sequences, FiniteSets, SequencesExt, Functions

Fields == {"r0", "control", "basepri", "primask", "ipsr", "epsr", "s0", "s1"}

\* The fields of a name; FieldsOf("cfbp") is what DCRSR index 20 transfers.
FieldsOf(reg) ==
  CASE reg = "cfbp" -> {"control", "basepri", "primask"}
    [] reg = "xpsr" -> {"ipsr", "epsr"}
    [] reg = "d0"   -> {"s0", "s1"}
    [] OTHER        -> {reg}

CORE_REGISTER == Fields \cup {"cfbp", "xpsr", "d0"}

IsFloat(reg) == reg \in {"s0", "s1", "d0"}
IsDouble(reg) == reg = "d0"
IsCfbpSub(reg) == reg \in {"control", "basepri", "primask"}
IsPsrSub(reg) == reg \in {"ipsr", "epsr"}

CFBP_REGS == {"cfbp", "control", "basepri", "primask"}
XPSR_REGS == {"xpsr", "ipsr", "epsr"}

\* The registers by which the hardware transfers a name, in order.
Selectors(reg) ==
  CASE IsCfbpSub(reg) -> <<"cfbp">>
    [] IsPsrSub(reg)  -> <<"xpsr">>
    [] IsDouble(reg)  -> <<"s0", "s1">>
    [] OTHER          -> <<reg>>

\* What a name reads from the values of the registers.
ValueOf(regs, reg) == Restrict(regs, FieldsOf(reg))

\* A register's value with some of its fields replaced (the mask of a
\* read-modify-write), and a cache with some of its entries.
Merged(old, new) ==
  [x \in DOMAIN old \cup DOMAIN new |-> IF x \in DOMAIN new THEN new[x] ELSE old[x]]

(***************************************************************************)
(* write_core_registers_raw: the list of single transfers, from the list   *)
(* of names and the value of each.  The first name of the CFBP group makes *)
(* the code read CFBP, the first of the XPSR group XPSR; in both cases the *)
(* elif takes the place of the append, so that name is not written          *)
(* (cortex_m.py:1135 and 1137).                                            *)
(***************************************************************************)
Dropped(list, k) ==
  \/ IsCfbpSub(list[k]) /\ \A j \in 1..(k - 1) : ~IsCfbpSub(list[j])
  \/ IsPsrSub(list[k]) /\ \A j \in 1..(k - 1) : ~IsPsrSub(list[j])

Transfers(list, k) ==
  CASE IsDouble(list[k])  -> <<"s0", "s1">>
    [] Dropped(list, k)   -> << >>
    [] OTHER              -> <<list[k]>>

RegDataList(list) == FlattenSeq([k \in DOMAIN list |-> Transfers(list, k)])

\* The registers read first, to be merged into.
ReadFirst(list) ==
  (IF \E k \in DOMAIN list : IsCfbpSub(list[k]) THEN <<"cfbp">> ELSE << >>)
    \o (IF \E k \in DOMAIN list : IsPsrSub(list[k]) THEN <<"xpsr">> ELSE << >>)

\* The data of a list: one bit for all the fields of all its names.
Data(reg, bit) == [field \in FieldsOf(reg) |-> bit]

\* What a write of the list promises: the fields of all its names take the
\* bit, and no other field changes.
Intended(regs, list, bit) ==
  LET Named == UNION {FieldsOf(reg) : reg \in ToSet(list)}
  IN [field \in Fields |-> IF field \in Named THEN bit ELSE regs[field]]

\* The fields of the names that are dropped.
DroppedFields(list) == UNION {FieldsOf(list[k]) : k \in {j \in DOMAIN list : Dropped(list, j)}}

(***************************************************************************)
(* RegisterCache: a partial function from names to values.                 *)
(***************************************************************************)
EmptyCache == [reg \in {} |-> << >>]

Forget(cache, names) == Restrict(cache, DOMAIN cache \ names)

\* read_core_registers_raw of the cache: the names it reads from the core.  A
\* member of a group makes it read the group's register as well.
Missing(cache, list) ==
  LET Uncached == ToSet(list) \ DOMAIN cache
  IN Uncached
       \cup (IF Uncached \cap CFBP_REGS # {} THEN {"cfbp"} ELSE {})
       \cup (IF Uncached \cap XPSR_REGS # {} THEN {"xpsr"} ELSE {})

\* The names whose entries are filled from what was read: the whole group
\* when its register was read.
Filled(names) ==
  names \cup (IF "cfbp" \in names THEN CFBP_REGS ELSE {})
        \cup (IF "xpsr" \in names THEN XPSR_REGS ELSE {})

\* (A wrong variant of AfterRead: the parts of a group are not masked.)
AfterReadUnmasked(cache, list, regs) ==
  Merged(cache, [reg \in Filled(Missing(cache, list)) |-> ValueOf(regs, Selectors(reg)[1])])

AfterRead(cache, list, regs) ==
  Merged(cache, [reg \in Filled(Missing(cache, list)) |-> ValueOf(regs, reg)])

\* write_core_registers_raw of the cache, done before the core's registers
\* are written: the new values are entered, and the groups forgotten whole.
Groups(names) ==
  (IF names \cap CFBP_REGS # {} THEN CFBP_REGS ELSE {})
    \cup (IF names \cap XPSR_REGS # {} THEN XPSR_REGS ELSE {})

\* (A wrong variant of AfterWrite: only the names written are forgotten.)
AfterWriteNamed(cache, list, bit) ==
  LET names == ToSet(list)
      Entered == Merged(cache, [reg \in names |-> Data(reg, bit)])
  IN Forget(Entered, Groups(names) \cap names)

AfterWrite(cache, list, bit) ==
  LET names == ToSet(list)
      Entered == Merged(cache, [reg \in names |-> Data(reg, bit)])
  IN Forget(Entered, Groups(names))

\* Names that share a field with a written name and that the cache keeps: the
\* single and the double names of the floating point registers.
Aliases(list) ==
  LET names == ToSet(list)
  IN {reg \in CORE_REGISTER \ (names \cup Groups(names)) :
        \E other \in names : FieldsOf(reg) \cap FieldsOf(other) # {}}
=============================================================================
