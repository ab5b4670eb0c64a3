--------------------------- MODULE CortexMProofs ---------------------------
(***************************************************************************)
(* For every set of reset types, register lists and sessions, any bound on *)
(* the runs and any number of failing accesses, posted writes that fail    *)
(* later among them, and of outside resets: step and reset_and_halt leave  *)
(* the mask and the vector catch as they were (the latter unless an error  *)
(* is owed), the mask changes only while C_HALT is set, reset_and_halt     *)
(* stops the core at its reset values unless it caught an error, the       *)
(* register cache holds what the core has, and a write gives every field   *)
(* that no dropped name has its value, and the others keep theirs.         *)
(*                                                                         *)
(* An operation is a list of steps.  The invariant says, for each of the   *)
(* operations, which lists may be left of it, and what is true when one    *)
(* is: it is the operation's program counter.                              *)
(***************************************************************************)
EXTENDS CortexM, SequenceLemmas

-----------------------------------------------------------------------------
(* The types of what TypeOK leaves out.                                    *)

Values == UNION {[group -> 0..1] : group \in SUBSET Fields}
Locals == [state : {"unread", "running", "halted", "sleeping", "lockup", "reset"},
           vc : BOOLEAN, merge : Values]
Pasts == [regs : Values, mask : BOOLEAN, vc : BOOLEAN, raised : BOOLEAN, disturbed : BOOLEAN,
          caught : BOOLEAN]

DhcsrValues == [debugen : BOOLEAN, halt : BOOLEAN, step : BOOLEAN, mask : BOOLEAN]

\* Every step of an operation.
Plain ==
  {GetState, <<"state_again">>, <<"resume">>, <<"release">>, <<"step">>, <<"await_step">>,
   <<"count">>, <<"nreset">>, <<"aircr">>, <<"await_reset">>, <<"await_halt">>, <<"read_demcr">>,
   <<"restore_vc">>, <<"thumb">>, <<"check_cache">>, <<"fill">>, <<"enter">>}
Vcs == {<<"write_vc", on>> : on \in BOOLEAN}
Resets == {<<"reset", type>> : type \in ResetTypes}
Dhcsrs == {<<"dhcsr", value>> : value \in DhcsrValues}
ReadFirsts == {<<"read_first", reg>> : reg \in CORE_REGISTER}
Puts == {Put(reg, value) : reg \in CORE_REGISTER, value \in Values}

Steps == Plain \cup Vcs \cup Resets \cup Dhcsrs \cup ReadFirsts \cup Puts

Types ==
  /\ TypeOK /\ menu \in Menus /\ loc \in Locals /\ past \in Pasts /\ todo \in Seq(Steps)
  /\ owed => faults > 0

-----------------------------------------------------------------------------
(* What is left of the operations.                                         *)

Go == Dhcsr(FALSE, FALSE, FALSE)

\* halt, set_vector_catch and read.
HaltOp == op.name = "halt" => todo \in {<< >>, Cons(Halt, << >>)}

Catch(on, rest) == Cons(<<"write_vc", on>>, rest)

CatchOp ==
  op.name = "set_vector_catch" =>
    todo \in {<< >>, Catch(op.on, << >>), Cons(<<"read_demcr">>, Catch(op.on, << >>))}

Fill1 == Cons(<<"fill">>, << >>)
Checked(rest) == Cons(<<"check_cache">>, rest)

ReadOp ==
  op.name = "read" =>
    todo \in {<< >>, Cons(GetState, Checked(Fill1)), Cons(<<"state_again">>, Checked(Fill1)),
              Checked(Fill1), Fill1}

\* write: once the new values are entered, transfers.
TransferSteps(o) ==
  {<<"read_first", "cfbp">>, <<"read_first", "xpsr">>}
    \cup {Put(reg, Data(reg, o.bit)) : reg \in CORE_REGISTER}

Enter1 == Cons(<<"enter">>, << >>)

WriteOp ==
  op.name = "write" =>
    \/ todo \in {Cons(GetState, Checked(Enter1)), Cons(<<"state_again">>, Checked(Enter1)),
                 Checked(Enter1), Enter1}
    \/ todo \in Seq(TransferSteps(op))

\* resume, and the resume of disconnect.
Resume1(rest) == Cons(<<"resume">>, rest)

Resuming(rest) ==
  \/ /\ todo \in {Cons(GetState, Resume1(rest)), Cons(<<"state_again">>, Resume1(rest)),
                  Resume1(rest)}
     /\ token < MaxToken
  \/ todo = Cons(Go, rest)

ResumeOp == op.name = "resume" => todo = << >> \/ Resuming(<< >>)

\* disconnect: what was released stays so, unless an error is owed.
Releasing == Cons(<<"release">>, << >>)
Released == ~vc /\ ~dhcsr.debugen /\ ~dhcsr.mask /\ ~dhcsr.step /\ core # "halted"

DisconnectOp ==
  op.name = "disconnect" =>
    \/ todo = << >> /\ (past.raised \/ ~op.resume \/ Released \/ owed)
    \/ ~op.resume /\ todo = Catch(FALSE, << >>)
    \/ /\ op.resume /\ todo = Catch(FALSE, Cons(GetState, Resume1(Releasing)))
       /\ token < MaxToken
    \/ op.resume /\ (~vc \/ owed) /\ (Resuming(Releasing) \/ todo = Releasing)

\* step: with Masking it masks the interrupts before the core goes and unmasks
\* them afterwards.
Excused == faults > 0 \/ outside > 0 \/ past.disturbed
Masking == ~past.mask /\ op.disable
StepMask == past.mask \/ op.disable

Counting == Cons(<<"count">>, << >>)
Unmasking == Cons(Halt, Counting)
AwaitingStep == Cons(<<"await_step">>, IF Masking THEN Unmasking ELSE Counting)
Going == Cons(Dhcsr(FALSE, TRUE, StepMask), AwaitingStep)
Mask1 == Cons(Dhcsr(TRUE, FALSE, TRUE), Going)
Step1 == Cons(<<"step">>, << >>)

StepOp ==
  op.name = "step" =>
    /\ past.mask => faults > 0
    /\ \/ todo = << >> /\ ((past.raised /\ faults > 0) \/ dhcsr.mask = past.mask)
       \/ /\ token < MaxToken
          /\ \/ todo \in {Step1, Counting} /\ dhcsr.mask = past.mask
             \/ todo \in {Going, AwaitingStep} /\ dhcsr.mask = StepMask
             \/ /\ todo \in {Mask1, Unmasking} /\ Masking
                /\ (dhcsr.mask <=> todo = Unmasking) /\ (dhcsr.halt \/ Excused)

\* No other operation leaves interrupts masked, and a core that is to step has
\* halted when the step is over, unless an access failed.
MaskQuiet == op.name # "step" /\ dhcsr.mask => faults > 0
StepBit ==
  dhcsr.step /\ ~dhcsr.halt => faults > 0 \/ (op.name = "step" /\ todo = AwaitingStep)

\* The reset itself, in reset and reset_and_halt.
AwaitingReset(rest) == Cons(<<"await_reset">>, rest)
EmulatedPut(k) == Put(EmulatedList[k], ValueOf(ResetValues(1), EmulatedList[k]))
PutsFrom(k, rest) == [i \in 1..6 - k |-> EmulatedPut(k + i - 1)] \o AwaitingReset(rest)
PutsDone(k) == UNION {FieldsOf(EmulatedList[i]) : i \in 1..k - 1}

Resetting(rest) ==
  \/ todo \in {Cons(<<"nreset">>, AwaitingReset(rest)), Cons(<<"aircr">>, AwaitingReset(rest)),
               Cons(Halt, PutsFrom(1, rest)), AwaitingReset(rest)}
  \/ \E k \in 1..5 : todo = PutsFrom(k, rest)

Reset1(type, rest) == Cons(<<"reset", type>>, rest)

ResetOp ==
  op.name = "reset" =>
    \/ todo = << >>
    \/ todo = Reset1(op.type, << >>) /\ token < MaxToken
    \/ Resetting(<< >>)

\* A reset is under way only while it is waited for; later it is overlooked.
Asked == request = "asked" => todo # << >> /\ Head(todo) = <<"await_reset">>

\* reset_and_halt: once the reset was performed the core is in reset or caught;
\* when the write of the catch was lost, its error is owed or was caught.
Restoring == Cons(<<"restore_vc">>, << >>)
Thumbing == Cons(<<"thumb">>, Restoring)
AwaitingHalt == Cons(<<"await_halt">>, Thumbing)
Looking == Cons(GetState, AwaitingHalt)
LookingAgain == Cons(<<"state_again">>, AwaitingHalt)
Catching(type) == Catch(TRUE, Reset1(type, Looking))
Reading(type) == Cons(<<"read_demcr">>, Catching(type))

Caught == (vc \/ owed \/ past.caught) /\ dhcsr.debugen /\ loc.vc = past.vc
Unsure == past.disturbed \/ past.caught \/ request # "none"
AtReset == core = "halted" /\ regs = ResetValues(1)
Rested == core = "held" \/ (core = "halted" /\ \E thumb \in 0..1 : regs = ResetValues(thumb))
PutsAreIn(k) ==
  core = "halted" /\ \A field \in PutsDone(k) : regs[field] = ResetValues(1)[field]

Over ==
  todo = << >> /\ (past.raised \/ ((vc = past.vc \/ owed) /\ (Unsure \/ AtReset)))

Before(type) ==
  /\ token < MaxToken
  /\ \/ todo = Cons(Halt, Reading(type)) /\ vc = past.vc
     \/ todo = Reading(type) /\ vc = past.vc /\ dhcsr.debugen
     \/ todo = Catching(type) /\ loc.vc = past.vc /\ dhcsr.debugen
     \/ todo = Reset1(type, Looking) /\ Caught

During ==
  /\ Caught /\ Resetting(Looking)
  /\ todo = AwaitingReset(Looking) => Unsure \/ Rested
  /\ \A k \in 2..5 : todo = PutsFrom(k, Looking) => past.disturbed \/ PutsAreIn(k)

After ==
  /\ Caught /\ ~owed /\ todo \in {Looking, LookingAgain, AwaitingHalt, Thumbing}
  /\ Unsure \/ Rested

Finishing == Caught /\ todo = Restoring /\ (Unsure \/ AtReset)

ResetHaltOp ==
  op.name = "reset_and_halt" => Over \/ Before(op.type) \/ During \/ After \/ Finishing

\* An operation that goes on with an error owed has not yet come to an access
\* that awaits an answer, and does not return without one when it has any.
Clearing == {"dhcsr", "state", "step", "reset", "nreset", "aircr", "read_demcr", "write_vc"}
Owing ==
  owed => IF todo = << >> THEN op.name \notin Awaiting ELSE Head(todo)[1] \in Clearing

Where ==
  /\ op = None => todo = << >>
  /\ HaltOp /\ CatchOp /\ ReadOp /\ WriteOp /\ ResumeOp /\ DisconnectOp
  /\ StepOp /\ ResetOp /\ ResetHaltOp

IInv == Types /\ Where /\ Owing /\ MaskQuiet /\ StepBit /\ Asked

-----------------------------------------------------------------------------
(* Lists of steps.                                                         *)

IsList(list, first, rest) ==
  list \in Seq(Steps) /\ list # << >> /\ Head(list) = first /\ Tail(list) = rest

\* A step in front of others.
LEMMA ConsIs ==
  ASSUME NEW first \in Steps, NEW rest \in Seq(Steps)
  PROVE  IsList(Cons(first, rest), first, rest)
<1> DEFINE list == <<first>> \o rest
<1>1. <<first>> \in Seq(Steps) /\ Len(<<first>>) = 1 /\ <<first>>[1] = first
  OBVIOUS
<1>2. /\ list \in Seq(Steps) /\ Len(list) = 1 + Len(rest) /\ list[1] = first
      /\ \A i \in 1..Len(rest) : list[i + 1] = rest[i]
  BY <1>1
<1>3. list # << >> /\ Head(list) = first
  BY <1>2
<1>4. Tail(list) = rest
  <2>1. Tail(list) \in Seq(Steps) /\ Len(Tail(list)) = Len(rest)
    BY <1>2, <1>3
  <2>2. \A i \in 1..Len(rest) : Tail(list)[i] = list[i + 1]
    BY <1>2, <1>3
  <2> QED BY <2>1, <2>2, <1>2, SeqEqual
<1> QED BY <1>2, <1>3, <1>4 DEF IsList, Cons

\* The steps that are named.
LEMMA PlainSteps ==
  /\ GetState \in Steps /\ <<"state_again">> \in Steps /\ <<"resume">> \in Steps
  /\ <<"release">> \in Steps /\ <<"step">> \in Steps /\ <<"await_step">> \in Steps
  /\ <<"count">> \in Steps /\ <<"nreset">> \in Steps /\ <<"aircr">> \in Steps
  /\ <<"await_reset">> \in Steps /\ <<"await_halt">> \in Steps /\ <<"read_demcr">> \in Steps
  /\ <<"restore_vc">> \in Steps /\ <<"thumb">> \in Steps /\ <<"check_cache">> \in Steps
  /\ <<"fill">> \in Steps /\ <<"enter">> \in Steps
<1>1. \A step \in Plain : step \in Steps
  BY Zenon DEF Steps
<1> QED BY <1>1 DEF Plain

\* And those that have arguments.
LEMMA OtherSteps ==
  /\ \A on \in BOOLEAN : <<"write_vc", on>> \in Steps
  /\ \A type \in ResetTypes : <<"reset", type>> \in Steps
  /\ \A halt, step, mask \in BOOLEAN : Dhcsr(halt, step, mask) \in Steps
  /\ \A reg \in CORE_REGISTER : <<"read_first", reg>> \in Steps
  /\ \A reg \in CORE_REGISTER, value \in Values : Put(reg, value) \in Steps
<1>1. /\ \A step \in Vcs : step \in Steps
      /\ \A step \in Resets : step \in Steps
      /\ \A step \in Dhcsrs : step \in Steps
      /\ \A step \in ReadFirsts : step \in Steps
      /\ \A step \in Puts : step \in Steps
  BY Zenon DEF Steps
<1>2. \A halt, step, mask \in BOOLEAN : Dhcsr(halt, step, mask) \in Dhcsrs
  BY DEF DhcsrValues, Dhcsrs, Dhcsr
<1>3. \A on \in BOOLEAN : <<"write_vc", on>> \in Vcs
  BY DEF Vcs
<1>4. \A type \in ResetTypes : <<"reset", type>> \in Resets
  BY DEF Resets
<1>5. \A reg \in CORE_REGISTER : <<"read_first", reg>> \in ReadFirsts
  BY DEF ReadFirsts
<1>6. \A reg \in CORE_REGISTER, value \in Values : Put(reg, value) \in Puts
  BY DEF Puts
<1> QED BY <1>1, <1>2, <1>3, <1>4, <1>5, <1>6, Zenon

\* Lists as literals.
LEMMA ConsEqual ==
  ASSUME NEW s \in Seq(Steps), NEW t \in Seq(Steps), Len(s) = Len(t) + 1,
         \A i \in 1..Len(t) : s[i + 1] = t[i]
  PROVE  s = Cons(s[1], t)
<1> DEFINE u == <<s[1]>> \o t
<1>1. s[1] \in Steps /\ Len(t) \in Nat
  OBVIOUS
<1>2. <<s[1]>> \in Seq(Steps) /\ Len(<<s[1]>>) = 1 /\ <<s[1]>>[1] = s[1]
  BY <1>1
<1>3. /\ u \in Seq(Steps) /\ Len(u) = Len(t) + 1 /\ u[1] = s[1]
      /\ \A i \in 1..Len(t) : u[i + 1] = t[i]
  BY <1>2
<1> HIDE DEF u
<1>4. \A i \in 1..Len(s) : s[i] = u[i]
  <2> SUFFICES ASSUME NEW i \in 1..Len(s), i # 1 PROVE s[i] = u[i]
    BY <1>3
  <2>1. i - 1 \in 1..Len(t) /\ (i - 1) + 1 = i
    BY <1>1
  <2> QED BY <2>1, <1>3
<1>5. s = u
  BY <1>3, <1>4, SeqEqual
<1> QED BY <1>5, Zenon DEF u, Cons

\* A list of a few steps is its first step and the rest.
LEMMA ShortLiterals ==
  ASSUME NEW a \in Steps, NEW b \in Steps, NEW c \in Steps
  PROVE  /\ <<a>> = Cons(a, << >>)
         /\ <<a, b>> = Cons(a, Cons(b, << >>))
         /\ <<a, b, c>> = Cons(a, Cons(b, Cons(c, << >>)))
<1>1. << >> \in Seq(Steps) /\ Len(<< >>) = 0
  BY EmptySeq
<1>2. \A x \in Steps : <<x>> = Cons(x, << >>)
  BY <1>1 DEF Cons
<1>3. ASSUME NEW x \in Steps, NEW y \in Steps PROVE <<x, y>> = Cons(x, <<y>>)
  <2> DEFINE s == <<x, y>>
             t == <<y>>
  <2>1. /\ s \in Seq(Steps) /\ t \in Seq(Steps) /\ Len(s) = 2 /\ Len(t) = 1
        /\ s[1] = x /\ s[2] = t[1]
    OBVIOUS
  <2> HIDE DEF s, t
  <2>2. Len(s) = Len(t) + 1 /\ \A i \in 1..Len(t) : s[i + 1] = t[i]
    BY <2>1
  <2>3. s = Cons(x, t)
    BY <2>1, <2>2, ConsEqual
  <2> QED BY <2>3 DEF s, t
<1>4. <<a, b, c>> = Cons(a, <<b, c>>)
  <2> DEFINE s == <<a, b, c>>
             t == <<b, c>>
  <2>1. /\ s \in Seq(Steps) /\ t \in Seq(Steps) /\ Len(s) = 3 /\ Len(t) = 2
        /\ s[1] = a /\ s[2] = t[1] /\ s[3] = t[2]
    OBVIOUS
  <2> HIDE DEF s, t
  <2>2. Len(s) = Len(t) + 1 /\ \A i \in 1..Len(t) : s[i + 1] = t[i]
    BY <2>1
  <2>3. s = Cons(a, t)
    BY <2>1, <2>2, ConsEqual
  <2> QED BY <2>3 DEF s, t
<1> QED BY <1>2, <1>3, <1>4, Zenon

\* The same of the eight transfers of a written-out list.
LEMMA LongLiteral ==
  ASSUME NEW a \in Steps, NEW b \in Steps, NEW c \in Steps, NEW d \in Steps,
         NEW e \in Steps, NEW f \in Steps, NEW g \in Steps, NEW h \in Steps
  PROVE  <<a, b, c, d, e, f, g, h>> = Cons(a, Cons(b, Cons(c, Cons(d, Cons(e, <<f, g, h>>)))))
<1> DEFINE s8 == <<a, b, c, d, e, f, g, h>>
           s7 == <<b, c, d, e, f, g, h>>
           s6 == <<c, d, e, f, g, h>>
           s5 == <<d, e, f, g, h>>
           s4 == <<e, f, g, h>>
           s3 == <<f, g, h>>
<1>8. /\ s8 \in Seq(Steps) /\ Len(s8) = 8 /\ s8[1] = a /\ s8[2] = b /\ s8[3] = c
      /\ s8[4] = d /\ s8[5] = e /\ s8[6] = f /\ s8[7] = g /\ s8[8] = h
  OBVIOUS
<1>7. /\ s7 \in Seq(Steps) /\ Len(s7) = 7 /\ s7[1] = b /\ s7[2] = c /\ s7[3] = d
      /\ s7[4] = e /\ s7[5] = f /\ s7[6] = g /\ s7[7] = h
  OBVIOUS
<1>6. /\ s6 \in Seq(Steps) /\ Len(s6) = 6 /\ s6[1] = c /\ s6[2] = d /\ s6[3] = e
      /\ s6[4] = f /\ s6[5] = g /\ s6[6] = h
  OBVIOUS
<1>5. /\ s5 \in Seq(Steps) /\ Len(s5) = 5 /\ s5[1] = d /\ s5[2] = e /\ s5[3] = f
      /\ s5[4] = g /\ s5[5] = h
  OBVIOUS
<1>4. s4 \in Seq(Steps) /\ Len(s4) = 4 /\ s4[1] = e /\ s4[2] = f /\ s4[3] = g /\ s4[4] = h
  OBVIOUS
<1>3. s3 \in Seq(Steps) /\ Len(s3) = 3 /\ s3[1] = f /\ s3[2] = g /\ s3[3] = h
  OBVIOUS
<1> HIDE DEF s8, s7, s6, s5, s4, s3
<1>9. s8 = Cons(a, s7) /\ s7 = Cons(b, s6) /\ s6 = Cons(c, s5)
  <2>1. \A i \in 1..Len(s7) : s8[i + 1] = s7[i]
    BY <1>8, <1>7
  <2>2. \A i \in 1..Len(s6) : s7[i + 1] = s6[i]
    BY <1>7, <1>6
  <2>3. \A i \in 1..Len(s5) : s6[i + 1] = s5[i]
    BY <1>6, <1>5
  <2>4. Len(s8) = Len(s7) + 1 /\ Len(s7) = Len(s6) + 1 /\ Len(s6) = Len(s5) + 1
    BY <1>8, <1>7, <1>6, <1>5
  <2>5. s8 = Cons(a, s7)
    BY <2>1, <2>4, <1>8, <1>7, ConsEqual
  <2>6. s7 = Cons(b, s6)
    BY <2>2, <2>4, <1>7, <1>6, ConsEqual
  <2>7. s6 = Cons(c, s5)
    BY <2>3, <2>4, <1>6, <1>5, ConsEqual
  <2> QED BY <2>5, <2>6, <2>7
<1>10. s5 = Cons(d, s4) /\ s4 = Cons(e, s3)
  <2>1. \A i \in 1..Len(s4) : s5[i + 1] = s4[i]
    BY <1>5, <1>4
  <2>2. \A i \in 1..Len(s3) : s4[i + 1] = s3[i]
    BY <1>4, <1>3
  <2>3. Len(s5) = Len(s4) + 1 /\ Len(s4) = Len(s3) + 1
    BY <1>5, <1>4, <1>3
  <2>4. s5 = Cons(d, s4)
    BY <2>1, <2>3, <1>5, <1>4, ConsEqual
  <2>5. s4 = Cons(e, s3)
    BY <2>2, <2>3, <1>4, <1>3, ConsEqual
  <2> QED BY <2>4, <2>5
<1> QED BY <1>9, <1>10, Zenon DEF s8, s3

\* The lists of the invariant are lists.
LEMMA Wraps ==
  ASSUME NEW rest \in Seq(Steps)
  PROVE  /\ IsList(Cons(GetState, rest), GetState, rest)
         /\ IsList(Cons(<<"state_again">>, rest), <<"state_again">>, rest)
         /\ IsList(Resume1(rest), <<"resume">>, rest)
         /\ IsList(Cons(Go, rest), Go, rest)
         /\ IsList(Cons(Halt, rest), Halt, rest)
         /\ IsList(Checked(rest), <<"check_cache">>, rest)
         /\ IsList(AwaitingReset(rest), <<"await_reset">>, rest)
         /\ IsList(Cons(<<"nreset">>, rest), <<"nreset">>, rest)
         /\ IsList(Cons(<<"aircr">>, rest), <<"aircr">>, rest)
         /\ IsList(Cons(<<"read_demcr">>, rest), <<"read_demcr">>, rest)
         /\ IsList(Cons(<<"await_halt">>, rest), <<"await_halt">>, rest)
         /\ IsList(Cons(<<"thumb">>, rest), <<"thumb">>, rest)
         /\ IsList(Cons(<<"await_step">>, rest), <<"await_step">>, rest)
         /\ \A on \in BOOLEAN : IsList(Catch(on, rest), <<"write_vc", on>>, rest)
         /\ \A type \in ResetTypes : IsList(Reset1(type, rest), <<"reset", type>>, rest)
         /\ \A halt, step, mask \in BOOLEAN :
              IsList(Cons(Dhcsr(halt, step, mask), rest), Dhcsr(halt, step, mask), rest)
<1> USE PlainSteps, OtherSteps, ConsIs
<1>1. Go \in Steps /\ Halt \in Steps
  BY Zenon DEF Go, Halt
<1>2. /\ IsList(Cons(GetState, rest), GetState, rest)
      /\ IsList(Cons(<<"state_again">>, rest), <<"state_again">>, rest)
      /\ IsList(Cons(<<"nreset">>, rest), <<"nreset">>, rest)
      /\ IsList(Cons(<<"aircr">>, rest), <<"aircr">>, rest)
      /\ IsList(Cons(<<"read_demcr">>, rest), <<"read_demcr">>, rest)
      /\ IsList(Cons(<<"await_halt">>, rest), <<"await_halt">>, rest)
      /\ IsList(Cons(<<"thumb">>, rest), <<"thumb">>, rest)
      /\ IsList(Cons(<<"await_step">>, rest), <<"await_step">>, rest)
  BY Zenon
<1>3. /\ IsList(Resume1(rest), <<"resume">>, rest)
      /\ IsList(Checked(rest), <<"check_cache">>, rest)
      /\ IsList(AwaitingReset(rest), <<"await_reset">>, rest)
  BY Zenon DEF Resume1, Checked, AwaitingReset
<1>4. IsList(Cons(Go, rest), Go, rest) /\ IsList(Cons(Halt, rest), Halt, rest)
  BY <1>1, Zenon
<1>5. \A on \in BOOLEAN : IsList(Catch(on, rest), <<"write_vc", on>>, rest)
  BY Zenon DEF Catch
<1>6. \A type \in ResetTypes : IsList(Reset1(type, rest), <<"reset", type>>, rest)
  BY Zenon DEF Reset1
<1>7. \A halt, step, mask \in BOOLEAN :
        IsList(Cons(Dhcsr(halt, step, mask), rest), Dhcsr(halt, step, mask), rest)
  BY Zenon
<1> QED BY <1>2, <1>3, <1>4, <1>5, <1>6, <1>7, Zenon

\* The lists of one step.
LEMMA LastLists ==
  /\ << >> \in Seq(Steps)
  /\ IsList(Fill1, <<"fill">>, << >>) /\ IsList(Enter1, <<"enter">>, << >>)
  /\ IsList(Restoring, <<"restore_vc">>, << >>)
  /\ IsList(Releasing, <<"release">>, << >>)
  /\ IsList(Counting, <<"count">>, << >>)
  /\ IsList(Step1, <<"step">>, << >>)
<1>1. << >> \in Seq(Steps)
  BY EmptySeq
<1> QED BY <1>1, PlainSteps, ConsIs, Zenon
        DEF Fill1, Enter1, Restoring, Releasing, Counting, Step1

\* Four lists in a row, taken from the left or from the right.
LEMMA Regrouped ==
  \A p, q, h, z \in Seq(Steps) : ((p \o q) \o h) \o z = p \o (q \o (h \o z))
<1> DEFINE T == Seq(Steps)
           C(u, v) == u \o v
<1>1. \A u, v \in T : C(u, v) \in T
  BY ConcatProperties
<1>2. \A u, v, w \in T : C(C(u, v), w) = C(u, C(v, w))
  BY ConcatAssociative
<1> HIDE DEF T, C
<1>3. \A p, q, h, z \in T : C(C(C(p, q), h), z) = C(p, C(q, C(h, z)))
  <2> TAKE p, q, h, z \in T
  <2>1. C(p, q) \in T /\ C(h, z) \in T
    BY <1>1
  <2>2. C(C(C(p, q), h), z) = C(C(p, q), C(h, z))
    BY <2>1, <1>2
  <2>3. C(C(p, q), C(h, z)) = C(p, C(q, C(h, z)))
    BY <2>1, <1>2
  <2> QED BY <2>2, <2>3
<1> QED BY <1>3, Zenon DEF T, C

\* Steps put in front of what is left.
LEMMA InFront ==
  ASSUME NEW a \in Steps, NEW b \in Steps, NEW rest \in Seq(Steps)
  PROVE  /\ << >> \o rest = rest
         /\ <<a>> \o rest = Cons(a, rest)
         /\ <<a, b>> \o rest = Cons(a, Cons(b, rest))
<1>1. << >> \o rest = rest
  BY ConcatEmptySeq
<1>2. \A x \in Steps, s \in Seq(Steps) : <<x>> \o s = Cons(x, s)
  BY Zenon DEF Cons
<1>3. <<a, b>> = <<a>> \o <<b>>
  <2>1. <<a, b>> = Cons(a, Cons(b, << >>)) /\ <<b>> = Cons(b, << >>)
    BY ShortLiterals, Zenon
  <2> QED BY <2>1, Zenon DEF Cons
<1>4. <<a>> \in Seq(Steps) /\ <<b>> \in Seq(Steps)
  OBVIOUS
<1>5. (<<a>> \o <<b>>) \o rest = <<a>> \o (<<b>> \o rest)
  BY <1>4, ConcatAssociative
<1> QED BY <1>1, <1>2, <1>3, <1>5, Zenon DEF Cons

-----------------------------------------------------------------------------
(* The registers of an emulated reset, and of a list.                      *)

\* A sequence of sequences of three kinds of names is flattened into one of names.
LEMMA RegDataType ==
  ASSUME NEW list \in Seq(CORE_REGISTER)
  PROVE  RegDataList(list) \in Seq(CORE_REGISTER)
<1> DEFINE pieces == [k \in DOMAIN list |-> Transfers(list, k)]
           W == Seq(CORE_REGISTER)
<1>1. DOMAIN list = 1..Len(list) /\ Len(list) \in Nat
  BY LenProperties
<1>2. \A k \in 1..Len(list) : Transfers(list, k) \in W
  <2> TAKE k \in 1..Len(list)
  <2>1. list[k] \in CORE_REGISTER
    OBVIOUS
  <2>2. << >> \in W
    BY EmptySeq
  <2>3. <<list[k]>> \in W
    BY <2>1
  <2>4. "s0" \in CORE_REGISTER /\ "s1" \in CORE_REGISTER
    BY DEF CORE_REGISTER, Fields
  <2>5. <<"s0", "s1">> \in W
    BY <2>4
  <2> QED BY <2>2, <2>3, <2>5, Zenon DEF Transfers
<1>3. pieces \in Seq(W) /\ Len(pieces) = Len(list)
  BY <1>1, <1>2
<1> HIDE DEF pieces
<1>4. CASE pieces = << >>
  <2>1. FlattenSeq(pieces) = << >>
    BY <1>4, Zenon, EmptySeq DEF FlattenSeq
  <2> QED BY <2>1, EmptySeq DEF RegDataList, pieces
<1>5. CASE pieces # << >>
  <2>1. \A i \in 1..Len(pieces) : pieces[i] \in W
    BY <1>3, ElementOfSeq
  <2>2. pieces[1] \in W /\ \A i \in 2..Len(pieces) : i \in 1..Len(pieces)
    BY <1>3, <1>5, <2>1
  <2>3. \A u \in W : \A i \in 2..Len(pieces) : u \o pieces[i] \in W
    BY <2>1, <2>2, ConcatProperties, Zenon
  <2>4. FlattenSeq(pieces) \in W
    BY <1>3, <1>5, <2>2, <2>3, FlattenIn
  <2> QED BY <2>4, Zenon DEF RegDataList, pieces
<1> QED BY <1>4, <1>5

\* The registers of an emulated reset are transferred as they are listed: none is a
\* double and none a part.
LEMMA EmulatedListIs ==
  /\ EmulatedList \in Seq(CORE_REGISTER) /\ Len(EmulatedList) = 5
  /\ RegDataList(EmulatedList) = EmulatedList
<1> DEFINE R == CORE_REGISTER
<1>1. /\ EmulatedList[1] = "r0" /\ EmulatedList[2] = "xpsr" /\ EmulatedList[3] = "cfbp"
      /\ EmulatedList[4] = "s0" /\ EmulatedList[5] = "s1"
      /\ DOMAIN EmulatedList = 1..5 /\ Len(EmulatedList) = 5
  BY DEF EmulatedList
<1>2. \A k \in 1..5 : Transfers(EmulatedList, k) = <<EmulatedList[k]>>
  BY <1>1 DEF Transfers, IsDouble, Dropped, IsCfbpSub, IsPsrSub
<1>3. EmulatedList \in Seq(R)
  BY DEF CORE_REGISTER, Fields, EmulatedList
<1>4. \A k \in 1..5 : EmulatedList[k] \in R
  BY <1>1, <1>3, ElementOfSeq
<1>5. \A k \in 1..5 : <<EmulatedList[k]>> \in Seq(R)
  <2> TAKE k \in 1..5
  <2>1. EmulatedList[k] \in R
    BY <1>4, Zenon
  <2> QED BY <2>1
<1>6. PICK list : list = EmulatedList
  OBVIOUS
<1>7. PICK pieces : pieces = [k \in DOMAIN list |-> Transfers(list, k)]
  OBVIOUS
<1>8. \A k \in 1..5 : pieces[k] = <<list[k]>> /\ <<list[k]>> \in Seq(R)
  BY <1>1, <1>2, <1>5, <1>6, <1>7, Zenon
<1>9. pieces \in Seq(Seq(R)) /\ Len(pieces) = 5
  <2>1. pieces = [k \in 1..5 |-> pieces[k]] /\ \A k \in 1..5 : pieces[k] \in Seq(R)
    BY <1>1, <1>6, <1>7, <1>8, Zenon
  <2> DEFINE W == Seq(R)
  <2>2. \A k \in 1..5 : pieces[k] \in W
    BY <2>1
  <2> HIDE DEF W
  <2>3. pieces \in Seq(W) /\ Len(pieces) = 5
    BY <2>1, <2>2
  <2> QED BY <2>3, Zenon DEF W
<1>10. list \in Seq(R) /\ list # << >> /\ Len(list) = 5
  BY <1>1, <1>3, <1>6
<1> HIDE DEF R
<1>11. FlattenSeq(pieces) = list
  BY <1>8, <1>9, <1>10, FlattenSingles, Zenon
<1> QED BY <1>1, <1>3, <1>6, <1>7, <1>11, Zenon DEF RegDataList, R

\* The writes of an emulated reset are steps.
LEMMA EmulatedPuts == \A k \in 1..5 : EmulatedPut(k) \in Steps
<1> TAKE k \in 1..5
<1>1. EmulatedList[k] \in CORE_REGISTER
  BY EmulatedListIs, ElementOfSeq
<1>2. \A reg \in CORE_REGISTER : ValueOf(ResetValues(1), reg) \in Values
  <2> TAKE reg \in CORE_REGISTER
  <2>1. FieldsOf(reg) \subseteq Fields
    BY DEF FieldsOf, CORE_REGISTER, Fields
  <2>2. ValueOf(ResetValues(1), reg) \in [FieldsOf(reg) -> 0..1]
    BY <2>1 DEF ValueOf, Restrict, ResetValues
  <2> QED BY <2>1, <2>2 DEF Values
<1> QED BY <1>1, <1>2, OtherSteps, Zenon DEF EmulatedPut

\* What is left of the registers of an emulated reset.
Emulated(k) == [i \in 1..6 - k |-> EmulatedPut(k + i - 1)]

\* What is left of an emulated reset after k - 1 writes is the k-th and the rest.
LEMMA EmulatedIs ==
  /\ \A k \in 1..6 : Emulated(k) \in Seq(Steps) /\ Len(Emulated(k)) = 6 - k
  /\ \A k \in 1..5 : Emulated(k) = Cons(EmulatedPut(k), Emulated(k + 1))
  /\ Emulated(6) = << >>
<1> USE EmulatedPuts
<1>1. ASSUME NEW k \in 1..6
      PROVE  /\ Emulated(k) \in Seq(Steps) /\ Len(Emulated(k)) = 6 - k
             /\ \A i \in 1..6 - k : Emulated(k)[i] = EmulatedPut(k + i - 1)
  <2>1. 6 - k \in Nat
    OBVIOUS
  <2>2. \A i \in 1..6 - k : k + i - 1 \in 1..5
    OBVIOUS
  <2>3. \A i \in 1..6 - k : EmulatedPut(k + i - 1) \in Steps
    BY <2>2, Zenon
  <2> QED BY <2>1, <2>3 DEF Emulated
<1>2. ASSUME NEW k \in 1..5 PROVE Emulated(k) = Cons(EmulatedPut(k), Emulated(k + 1))
  <2>1. PICK s : s = Emulated(k)
    OBVIOUS
  <2>2. PICK t : t = Emulated(k + 1)
    OBVIOUS
  <2>3. s \in Seq(Steps) /\ Len(s) = 6 - k /\ \A i \in 1..6 - k : s[i] = EmulatedPut(k + i - 1)
    <3>1. k \in 1..6
      OBVIOUS
    <3> QED BY <1>1, <2>1, <3>1, Zenon
  <2>4. /\ t \in Seq(Steps) /\ Len(t) = 6 - (k + 1)
        /\ \A i \in 1..6 - (k + 1) : t[i] = EmulatedPut((k + 1) + i - 1)
    <3>1. k + 1 \in 1..6
      OBVIOUS
    <3> QED BY <1>1, <2>2, <3>1, Zenon
  <2>5. Len(s) = Len(t) + 1
    BY <2>3, <2>4
  <2>6. \A i \in 1..Len(t) : s[i + 1] = t[i]
    <3> TAKE i \in 1..Len(t)
    <3>1. i + 1 \in 1..6 - k /\ i \in 1..6 - (k + 1) /\ k + (i + 1) - 1 = (k + 1) + i - 1
      BY <2>4
    <3>2. s[i + 1] = EmulatedPut(k + (i + 1) - 1) /\ t[i] = EmulatedPut((k + 1) + i - 1)
      BY <3>1, <2>3, <2>4, Zenon
    <3> QED BY <3>1, <3>2, Zenon
  <2>7. s[1] = EmulatedPut(k)
    <3>1. 1 \in 1..6 - k /\ k + 1 - 1 = k
      OBVIOUS
    <3> QED BY <3>1, <2>3, Zenon
  <2>8. s = Cons(s[1], t)
    BY <2>3, <2>4, <2>5, <2>6, ConsEqual
  <2> QED BY <2>1, <2>2, <2>7, <2>8
<1>3. Emulated(6) = << >>
  <2>1. Emulated(6) \in Seq(Steps) /\ Len(Emulated(6)) = 0
    BY <1>1
  <2> QED BY <2>1, LenZero
<1> QED BY <1>1, <1>2, <1>3, Zenon

\* The same with the wait for the reset and what follows it behind.
LEMMA PutsFromIs ==
  ASSUME NEW rest \in Seq(Steps)
  PROVE  /\ \A k \in 1..5 : IsList(PutsFrom(k, rest), EmulatedPut(k), PutsFrom(k + 1, rest))
         /\ PutsFrom(6, rest) = AwaitingReset(rest)
<1>1. AwaitingReset(rest) \in Seq(Steps)
  BY Wraps, Zenon DEF IsList
<1>2. \A k : PutsFrom(k, rest) = Emulated(k) \o AwaitingReset(rest)
  BY DEF PutsFrom, Emulated
<1>3. ASSUME NEW k \in 1..5
      PROVE  IsList(PutsFrom(k, rest), EmulatedPut(k), PutsFrom(k + 1, rest))
  <2>1. k \in 1..6 /\ k + 1 \in 1..6
    OBVIOUS
  <2>2. EmulatedPut(k) \in Steps /\ <<EmulatedPut(k)>> \in Seq(Steps)
    BY EmulatedPuts
  <2>3. Emulated(k + 1) \in Seq(Steps) /\ Emulated(k) = <<EmulatedPut(k)>> \o Emulated(k + 1)
    BY <2>1, EmulatedIs, Zenon DEF Cons
  <2>4. (<<EmulatedPut(k)>> \o Emulated(k + 1)) \o AwaitingReset(rest)
          = <<EmulatedPut(k)>> \o (Emulated(k + 1) \o AwaitingReset(rest))
    BY <1>1, <2>2, <2>3, ConcatAssociative
  <2>5. PutsFrom(k, rest) = Cons(EmulatedPut(k), PutsFrom(k + 1, rest))
    BY <1>2, <2>3, <2>4, Zenon DEF Cons
  <2>6. PutsFrom(k + 1, rest) \in Seq(Steps)
    BY <1>1, <1>2, <2>3, ConcatProperties, Zenon
  <2> QED BY <2>2, <2>5, <2>6, ConsIs, Zenon
<1>4. PutsFrom(6, rest) = AwaitingReset(rest)
  BY <1>1, <1>2, EmulatedIs, ConcatEmptySeq, Zenon
<1> QED BY <1>3, <1>4

\* The reset of each type, with the wait for it.
LEMMA PerformIs ==
  ASSUME NEW type \in ResetTypes, NEW rest \in Seq(Steps)
  PROVE  (PerformReset(ActualReset(type)) \o <<<<"await_reset">>>>) \o rest \in
           {Cons(<<"nreset">>, AwaitingReset(rest)), Cons(<<"aircr">>, AwaitingReset(rest)),
            Cons(Halt, PutsFrom(1, rest))}
<1> DEFINE wait == <<<<"await_reset">>>>
<1>1. wait \in Seq(Steps) /\ wait \o rest = AwaitingReset(rest)
  <2>1. \A x \in Steps : <<x>> \in Seq(Steps)
    OBVIOUS
  <2> QED BY <2>1, PlainSteps, Zenon DEF Cons, AwaitingReset
<1>2. \A x \in Steps : (<<x>> \o wait) \o rest = Cons(x, AwaitingReset(rest))
  <2> TAKE x \in Steps
  <2>1. <<x>> \in Seq(Steps)
    OBVIOUS
  <2>2. (<<x>> \o wait) \o rest = <<x>> \o (wait \o rest)
    BY <1>1, <2>1, ConcatAssociative
  <2> QED BY <1>1, <2>2, Zenon DEF Cons
<1>3. (EmulatedReset \o wait) \o rest = Cons(Halt, PutsFrom(1, rest))
  <2>1. EmulatedReset = <<Halt>> \o Emulated(1)
    <3>1. [k \in DOMAIN EmulatedList |->
              Put(EmulatedList[k], ValueOf(ResetValues(1), EmulatedList[k]))] = Emulated(1)
      <4>1. DOMAIN EmulatedList = 1..5 /\ 6 - 1 = 5 /\ \A k \in 1..5 : 1 + k - 1 = k
        BY EmulatedListIs
      <4>2. Emulated(1) = [k \in 1..5 |-> EmulatedPut(k)]
        BY <4>1 DEF Emulated
      <4> QED BY <4>1, <4>2, Zenon DEF EmulatedPut
    <3> QED BY <3>1, EmulatedListIs, Zenon DEF EmulatedReset
  <2>2. Halt \in Steps /\ <<Halt>> \in Seq(Steps)
    <3>1. Halt \in Steps
      BY OtherSteps, Zenon DEF Halt
    <3> QED BY <3>1
  <2>3. Emulated(1) \in Seq(Steps) /\ Emulated(1) \o (wait \o rest) = PutsFrom(1, rest)
    <3>1. 1 \in 1..6
      OBVIOUS
    <3>2. Emulated(1) \in Seq(Steps)
      BY <3>1, EmulatedIs, Zenon
    <3>3. PutsFrom(1, rest) = Emulated(1) \o AwaitingReset(rest)
      BY Zenon DEF PutsFrom, Emulated
    <3> QED BY <3>2, <3>3, <1>1, Zenon
  <2>4. <<Halt>> \o Emulated(1) \in Seq(Steps)
    BY <2>2, <2>3, ConcatProperties, Zenon
  <2> HIDE DEF wait
  <2>5. ((<<Halt>> \o Emulated(1)) \o wait) \o rest
          = <<Halt>> \o (Emulated(1) \o (wait \o rest))
    <3> DEFINE Holds(p, q, h, z) == ((p \o q) \o h) \o z = p \o (q \o (h \o z))
    <3>1. \A p, q, h, z \in Seq(Steps) : Holds(p, q, h, z)
      BY Regrouped, Zenon
    <3> HIDE DEF Holds
    <3>2. Holds(<<Halt>>, Emulated(1), wait, rest)
      BY <1>1, <2>2, <2>3, <3>1
    <3> QED BY <3>2, Zenon DEF Holds
  <2> QED BY <2>1, <2>3, <2>5, Zenon DEF Cons
<1>4. <<"nreset">> \in Steps /\ <<"aircr">> \in Steps
  BY PlainSteps
<1>5. PerformReset(ActualReset(type)) \in {<<<<"nreset">>>>, EmulatedReset, <<<<"aircr">>>>}
  BY Zenon DEF PerformReset
<1> HIDE DEF wait
<1>6. CASE PerformReset(ActualReset(type)) = <<<<"nreset">>>>
  BY <1>2, <1>4, <1>6, Zenon DEF wait
<1>7. CASE PerformReset(ActualReset(type)) = <<<<"aircr">>>>
  BY <1>2, <1>4, <1>7, Zenon DEF wait
<1>8. CASE PerformReset(ActualReset(type)) = EmulatedReset
  BY <1>3, <1>8, Zenon DEF wait
<1> QED BY <1>5, <1>6, <1>7, <1>8, Zenon

-----------------------------------------------------------------------------
(* The programs of the operations.                                         *)

\* The operations and their arguments.
LEMMA OpsAre ==
  ASSUME NEW o \in Ops
  PROVE  /\ o.name \in {"halt", "resume", "set_vector_catch", "step", "disconnect", "reset",
                        "reset_and_halt", "read", "write"}
         /\ o.name = "set_vector_catch" => o.on \in BOOLEAN
         /\ o.name = "step" => o.disable \in BOOLEAN
         /\ o.name = "disconnect" => o.resume \in BOOLEAN
         /\ o.name \in {"reset", "reset_and_halt"} => o.type \in ResetTypes
         /\ o.name \in {"read", "write"} => o.list \in Seq(CORE_REGISTER)
         /\ o.name = "write" => o.bit \in 0..1 /\ o.list \in WriteLists
<1> DEFINE Fine(p) ==
         /\ p.name \in {"halt", "resume", "set_vector_catch", "step", "disconnect", "reset",
                        "reset_and_halt", "read", "write"}
         /\ p.name = "set_vector_catch" => p.on \in BOOLEAN
         /\ p.name = "step" => p.disable \in BOOLEAN
         /\ p.name = "disconnect" => p.resume \in BOOLEAN
         /\ p.name \in {"reset", "reset_and_halt"} => p.type \in ResetTypes
         /\ p.name \in {"read", "write"} => p.list \in Seq(CORE_REGISTER)
         /\ p.name = "write" => p.bit \in 0..1 /\ p.list \in WriteLists
<1> DEFINE A == {[name |-> "halt"], [name |-> "resume"],
                 [name |-> "set_vector_catch", on |-> TRUE],
                 [name |-> "set_vector_catch", on |-> FALSE]}
           B == {[name |-> "step", disable |-> d] : d \in BOOLEAN}
           C == {[name |-> "disconnect", resume |-> r] : r \in BOOLEAN}
           D == {[name |-> "reset", type |-> t] : t \in ResetTypes}
           E == {[name |-> "reset_and_halt", type |-> t] : t \in ResetTypes}
           F == {[name |-> "read", list |-> l] : l \in ReadLists}
           G == {[name |-> "write", list |-> l, bit |-> b] : l \in WriteLists, b \in 0..1}
<1>1. ReadLists \subseteq Seq(CORE_REGISTER) /\ WriteLists \subseteq Seq(CORE_REGISTER)
  BY CortexMAssumption
<1> HIDE DEF Fine
<1>2. (\A p \in A : Fine(p)) /\ (\A p \in B : Fine(p)) /\ (\A p \in C : Fine(p))
  BY DEF Fine
<1>3. (\A p \in D : Fine(p)) /\ (\A p \in E : Fine(p))
  BY DEF Fine
<1>4. (\A p \in F : Fine(p)) /\ (\A p \in G : Fine(p))
  BY <1>1 DEF Fine
<1> HIDE DEF A, B, C, D, E, F, G
<1>5. Ops = A \cup B \cup C \cup D \cup E \cup F \cup G
  BY SMT DEF Ops, A, B, C, D, E, F, G
<1>6. Fine(o)
  BY <1>2, <1>3, <1>4, <1>5, Zenon
<1> QED BY <1>6 DEF Fine

\* Two and three steps.
LEMMA Two == \A a, b \in Steps : <<a, b>> = Cons(a, Cons(b, << >>))
BY ShortLiterals, Zenon

\* ShortLiterals for every three steps at once.
LEMMA Three == \A a, b, c \in Steps : <<a, b, c>> = Cons(a, Cons(b, Cons(c, << >>)))
BY ShortLiterals, Zenon

\* LongLiteral for every eight steps at once.
LEMMA Eight ==
  \A a, b, c, d, e, f, g, h \in Steps :
    <<a, b, c, d, e, f, g, h>> = Cons(a, Cons(b, Cons(c, Cons(d, Cons(e, <<f, g, h>>)))))
BY LongLiteral

\* What each operation is at first.
LEMMA Programs ==
  ASSUME NEW o \in Ops
  PROVE  /\ o.name = "halt" => Program(o) = Cons(Halt, << >>)
         /\ o.name = "resume" => Program(o) = Cons(GetState, Resume1(<< >>))
         /\ o.name = "step" => Program(o) = Step1
         /\ o.name = "reset" => Program(o) = Reset1(o.type, << >>)
         /\ o.name = "reset_and_halt" => Program(o) = Cons(Halt, Reading(o.type))
         /\ o.name = "set_vector_catch" =>
              Program(o) = Cons(<<"read_demcr">>, Catch(o.on, << >>))
         /\ o.name = "disconnect" =>
              Program(o) = IF o.resume THEN Catch(FALSE, Cons(GetState, Resume1(Releasing)))
                                       ELSE Catch(FALSE, << >>)
         /\ o.name = "read" => Program(o) = Cons(GetState, Checked(Fill1))
         /\ o.name = "write" => Program(o) = Cons(GetState, Checked(Enter1))
<1>h. Halt \in Steps
  BY OtherSteps, Zenon DEF Halt
<1>s. /\ GetState \in Steps /\ <<"resume">> \in Steps /\ <<"release">> \in Steps
      /\ <<"step">> \in Steps /\ <<"check_cache">> \in Steps /\ <<"read_demcr">> \in Steps
  BY PlainSteps, Zenon
<1>t. /\ <<"await_halt">> \in Steps /\ <<"thumb">> \in Steps /\ <<"restore_vc">> \in Steps
      /\ <<"fill">> \in Steps /\ <<"enter">> \in Steps
  BY PlainSteps, Zenon
<1>1. o.name = "halt" => Program(o) = Cons(Halt, << >>)
  <2>1. o.name = "halt" => Program(o) = <<Halt>>
    BY DEF Program
  <2> QED BY <1>h, <2>1, ShortLiterals, Zenon
<1>2. o.name = "resume" => Program(o) = Cons(GetState, Resume1(<< >>))
  <2>1. o.name = "resume" => Program(o) = <<GetState, <<"resume">>>>
    BY DEF Program
  <2> QED BY <2>1, <1>s, Two, Zenon DEF Resume1
<1>3. o.name = "step" => Program(o) = Step1
  <2>1. o.name = "step" => Program(o) = <<<<"step">>>>
    BY DEF Program
  <2> QED BY <2>1, <1>s, ShortLiterals, Zenon DEF Step1
<1>4. o.name = "reset" => Program(o) = Reset1(o.type, << >>)
  <2>1. o.name = "reset" => Program(o) = <<<<"reset", o.type>>>>
    BY DEF Program
  <2>2. o.name = "reset" => <<"reset", o.type>> \in Steps
    BY OpsAre, OtherSteps
  <2> QED BY <2>1, <2>2, ShortLiterals, Zenon DEF Reset1
<1>5. o.name = "reset_and_halt" => Program(o) = Cons(Halt, Reading(o.type))
  <2> SUFFICES ASSUME o.name = "reset_and_halt" PROVE Program(o) = Cons(Halt, Reading(o.type))
    OBVIOUS
  <2>1. Program(o) = <<Halt, <<"read_demcr">>, <<"write_vc", TRUE>>, <<"reset", o.type>>,
                       GetState, <<"await_halt">>, <<"thumb">>, <<"restore_vc">>>>
    BY DEF Program
  <2>2. <<"reset", o.type>> \in Steps
    BY OpsAre, OtherSteps
  <2>3. TRUE \in BOOLEAN
    OBVIOUS
  <2>4. <<"write_vc", TRUE>> \in Steps
    BY <2>3, OtherSteps, Zenon
  <2> DEFINE demcr == <<"read_demcr">>
             on == <<"write_vc", TRUE>>
             reset == <<"reset", o.type>>
             wait == <<"await_halt">>
             thumb == <<"thumb">>
             restore == <<"restore_vc">>
  <2>5. <<wait, thumb, restore>> = AwaitingHalt
    <3>1. \A a, b, c \in Steps : <<a, b, c>> = Cons(a, Cons(b, Cons(c, << >>)))
      BY Three, Zenon
    <3>2. wait \in Steps /\ thumb \in Steps /\ restore \in Steps
      BY <1>t, Zenon
    <3> HIDE DEF wait, thumb, restore
    <3>3. <<wait, thumb, restore>> = Cons(wait, Cons(thumb, Cons(restore, << >>)))
      BY <3>1, <3>2, Zenon
    <3> QED BY <3>3, Zenon DEF AwaitingHalt, Thumbing, Restoring, wait, thumb, restore
  <2>6. Program(o) = <<Halt, demcr, on, reset, GetState, wait, thumb, restore>>
    BY <2>1, Zenon
  <2>8. /\ demcr \in Steps /\ on \in Steps /\ reset \in Steps /\ wait \in Steps
        /\ thumb \in Steps /\ restore \in Steps /\ GetState \in Steps
    BY <2>1, <2>2, <2>4, <1>s, <1>t, Zenon
  <2> HIDE DEF demcr, on, reset, wait, thumb, restore
  <2>7. <<Halt, demcr, on, reset, GetState, wait, thumb, restore>>
          = Cons(Halt, Cons(demcr, Cons(on, Cons(reset, Cons(GetState,
              <<wait, thumb, restore>>)))))
    <3> DEFINE Holds(a, b, c, d, e, f, g, h) ==
                 <<a, b, c, d, e, f, g, h>>
                   = Cons(a, Cons(b, Cons(c, Cons(d, Cons(e, <<f, g, h>>)))))
    <3>1. \A a, b, c, d, e, f, g, h \in Steps : Holds(a, b, c, d, e, f, g, h)
      BY Eight, Zenon
    <3> HIDE DEF Holds
    <3>2. \A c, d, e, f, g, h \in Steps : Holds(Halt, demcr, c, d, e, f, g, h)
      BY <1>h, <2>8, <3>1
    <3>3. \A e, f, g, h \in Steps : Holds(Halt, demcr, on, reset, e, f, g, h)
      BY <2>8, <3>2
    <3>4. Holds(Halt, demcr, on, reset, GetState, wait, thumb, restore)
      BY <2>8, <3>3
    <3> QED BY <3>4 DEF Holds
  <2> QED BY <2>5, <2>6, <2>7, Zenon
          DEF Reading, Catching, Catch, Reset1, Looking, demcr, on, reset
<1>6. o.name = "set_vector_catch" => Program(o) = Cons(<<"read_demcr">>, Catch(o.on, << >>))
  <2>1. o.name = "set_vector_catch" => Program(o) = <<<<"read_demcr">>, <<"write_vc", o.on>>>>
    BY DEF Program
  <2>2. o.name = "set_vector_catch" => <<"write_vc", o.on>> \in Steps
    BY OpsAre, OtherSteps
  <2> QED BY <2>1, <2>2, <1>s, Two, Zenon DEF Catch
<1>7. o.name = "disconnect" =>
        Program(o) = IF o.resume THEN Catch(FALSE, Cons(GetState, Resume1(Releasing)))
                                 ELSE Catch(FALSE, << >>)
  <2> SUFFICES ASSUME o.name = "disconnect"
               PROVE  Program(o) = IF o.resume THEN Catch(FALSE, Cons(GetState, Resume1(Releasing)))
                                               ELSE Catch(FALSE, << >>)
    OBVIOUS
  <2>1. Program(o) = <<<<"write_vc", FALSE>>>>
                       \o (IF o.resume THEN <<GetState, <<"resume">>, <<"release">>>> ELSE << >>)
    BY DEF Program
  <2>2. <<GetState, <<"resume">>, <<"release">>>> = Cons(GetState, Resume1(Releasing))
    <3> DEFINE resume == <<"resume">>
               release == <<"release">>
    <3>1. resume \in Steps /\ release \in Steps /\ GetState \in Steps
      BY <1>s, Zenon
    <3> HIDE DEF resume, release
    <3>2. <<GetState, resume, release>> = Cons(GetState, Cons(resume, Cons(release, << >>)))
      BY <3>1, Three
    <3> QED BY <3>2, Zenon DEF resume, release, Resume1, Releasing
  <2>3. CASE o.resume
    BY <2>1, <2>2, <2>3, Zenon DEF Catch, Cons
  <2>4. CASE ~o.resume
    BY <2>1, <2>4, Zenon DEF Catch, Cons
  <2> QED BY <2>3, <2>4
<1>8. o.name = "read" => Program(o) = Cons(GetState, Checked(Fill1))
  <2>1. o.name = "read" => Program(o) = <<GetState, <<"check_cache">>, <<"fill">>>>
    BY DEF Program
  <2>2. <<GetState, <<"check_cache">>, <<"fill">>>>
          = Cons(GetState, Cons(<<"check_cache">>, Cons(<<"fill">>, << >>)))
    <3> DEFINE check == <<"check_cache">>
               last == <<"fill">>
    <3>1. check \in Steps /\ last \in Steps /\ GetState \in Steps
      BY <1>s, <1>t
    <3> HIDE DEF check, last
    <3>2. <<GetState, check, last>> = Cons(GetState, Cons(check, Cons(last, << >>)))
      BY <3>1, Three
    <3> QED BY <3>2, Zenon DEF check, last
  <2> QED BY <2>1, <2>2, Zenon DEF Checked, Fill1
<1>9. o.name = "write" => Program(o) = Cons(GetState, Checked(Enter1))
  <2>1. o.name = "write" => Program(o) = <<GetState, <<"check_cache">>, <<"enter">>>>
    BY DEF Program
  <2>2. <<GetState, <<"check_cache">>, <<"enter">>>>
          = Cons(GetState, Cons(<<"check_cache">>, Cons(<<"enter">>, << >>)))
    <3> DEFINE check == <<"check_cache">>
               last == <<"enter">>
    <3>1. check \in Steps /\ last \in Steps /\ GetState \in Steps
      BY <1>s, <1>t
    <3> HIDE DEF check, last
    <3>2. <<GetState, check, last>> = Cons(GetState, Cons(check, Cons(last, << >>)))
      BY <3>1, Three
    <3> QED BY <3>2, Zenon DEF check, last
  <2> QED BY <2>1, <2>2, Zenon DEF Checked, Enter1
<1> QED BY <1>1, <1>2, <1>3, <1>4, <1>5, <1>6, <1>7, <1>8, <1>9, Zenon

\* The program of step: with the masking it does, and without.
LEMMA StepProgramIs ==
  ASSUME NEW masked \in BOOLEAN, NEW disable \in BOOLEAN
  PROVE  LET go == Dhcsr(FALSE, TRUE, masked \/ disable)
         IN StepProgram(masked, disable) \o << >> =
              IF ~masked /\ disable
                THEN Cons(Dhcsr(TRUE, FALSE, TRUE),
                          Cons(go, Cons(<<"await_step">>, Unmasking)))
                ELSE Cons(go, Cons(<<"await_step">>, Counting))
<1> DEFINE go == Dhcsr(FALSE, TRUE, masked \/ disable)
           mask == Dhcsr(TRUE, FALSE, TRUE)
           wait == <<"await_step">>
           count == <<"count">>
           T == Seq(Steps)
<1>1. go \in Steps /\ mask \in Steps /\ Halt \in Steps /\ wait \in Steps /\ count \in Steps
  <2>1. (masked \/ disable) \in BOOLEAN /\ TRUE \in BOOLEAN /\ FALSE \in BOOLEAN
    OBVIOUS
  <2> QED BY <2>1, PlainSteps, OtherSteps, Zenon DEF Halt
<1>2. \A x, y \in Steps : <<x>> \in T /\ <<x, y>> \in T
  OBVIOUS
<1>3. \A u, v \in T : u \o v \in T
  BY ConcatProperties
<1>5. \A u \in T : << >> \o u = u /\ u \o << >> = u
  BY ConcatEmptySeq
<1>6. \A x, y \in Steps, u \in T : <<x, y>> \o u = Cons(x, Cons(y, u))
  BY InFront, Zenon
<1>7. <<count>> = Counting
  BY <1>1, ShortLiterals, Zenon DEF Counting
<1>8. << >> \in T
  BY EmptySeq
<1>9. \A x \in Steps, u \in T : <<x>> \o u = Cons(x, u)
  BY Zenon DEF Cons
<1>10. CASE ~masked /\ disable
  <2>1. StepProgram(masked, disable) = ((<<mask>> \o <<go, wait>>) \o <<Halt>>) \o <<count>>
    BY <1>10, Zenon DEF StepProgram
  <2> HIDE DEF go, mask, wait, count, T
  <2>2. /\ <<mask>> \in T /\ <<go, wait>> \in T /\ <<Halt>> \in T /\ <<count>> \in T
        /\ <<mask>> \o <<go, wait>> \in T /\ <<Halt>> \o <<count>> \in T
    BY <1>1, <1>2, <1>3, Zenon
  <2>3. /\ (<<mask>> \o <<go, wait>>) \o <<Halt>> \in T
        /\ <<go, wait>> \o (<<Halt>> \o <<count>>) \in T
    BY <2>2, <1>3, Zenon
  <2>4. StepProgram(masked, disable) \in T
    BY <2>1, <2>2, <2>3, <1>3, Zenon
  <2>6. StepProgram(masked, disable) = <<mask>> \o (<<go, wait>> \o (<<Halt>> \o <<count>>))
    <3> DEFINE Holds(p, q, h, z) == ((p \o q) \o h) \o z = p \o (q \o (h \o z))
    <3>1. \A p, q, h, z \in T : Holds(p, q, h, z)
      BY Regrouped, Zenon DEF T
    <3> HIDE DEF Holds
    <3>2. Holds(<<mask>>, <<go, wait>>, <<Halt>>, <<count>>)
      BY <2>2, <3>1
    <3> QED BY <2>1, <3>2, Zenon DEF Holds
  <2>7. <<Halt>> \o <<count>> = Unmasking
    BY <1>1, <1>7, <1>9, <2>2, Zenon DEF Unmasking
  <2>8. <<go, wait>> \o Unmasking = Cons(go, Cons(wait, Unmasking))
    <3>1. Unmasking \in T
      BY <2>2, <2>7, Zenon
    <3> QED BY <1>1, <1>6, <3>1, Zenon
  <2>9. StepProgram(masked, disable) = Cons(mask, Cons(go, Cons(wait, Unmasking)))
    <3>1. Cons(go, Cons(wait, Unmasking)) \in T
      BY <2>3, <2>7, <2>8, Zenon
    <3> QED BY <2>6, <2>7, <2>8, <3>1, <1>1, <1>9, Zenon
  <2>10. StepProgram(masked, disable) \o << >> = Cons(mask, Cons(go, Cons(wait, Unmasking)))
    BY <2>4, <2>9, <1>5, Zenon
  <2> QED BY <1>10, <2>10, Zenon DEF go, mask, wait
<1>11. CASE ~(~masked /\ disable)
  <2>1. StepProgram(masked, disable) = ((<< >> \o <<go, wait>>) \o << >>) \o <<count>>
    BY <1>11, Zenon DEF StepProgram
  <2> HIDE DEF go, mask, wait, count, T
  <2>2. <<go, wait>> \in T /\ <<count>> \in T
    BY <1>1, <1>2, Zenon
  <2>3. StepProgram(masked, disable) = <<go, wait>> \o <<count>>
    BY <2>1, <2>2, <1>5, Zenon
  <2>4. StepProgram(masked, disable) \in T
    BY <2>2, <2>3, <1>3, Zenon
  <2>5. <<go, wait>> \o <<count>> = Cons(go, Cons(wait, Counting))
    BY <1>1, <1>6, <1>7, <2>2, Zenon
  <2>6. StepProgram(masked, disable) \o << >> = Cons(go, Cons(wait, Counting))
    BY <2>3, <2>4, <2>5, <1>5, Zenon
  <2> QED BY <1>11, <2>6, Zenon DEF go, mask, wait
<1> QED BY <1>10, <1>11

-----------------------------------------------------------------------------
(* What a step does.                                                       *)

\* The arguments of a step.
LEMMA StepKinds ==
  ASSUME NEW s \in Steps
  PROVE  /\ s[1] = "dhcsr" => s[2] \in DhcsrValues
         /\ s[1] = "write_vc" => s[2] \in BOOLEAN
         /\ s[1] = "reset" => s[2] \in ResetTypes
         /\ s[1] = "read_first" => s[2] \in CORE_REGISTER
         /\ s[1] = "put" => s[2] \in CORE_REGISTER /\ s[3] \in Values
<1> DEFINE Fine(t) == /\ t[1] = "dhcsr" => t[2] \in DhcsrValues
                      /\ t[1] = "write_vc" => t[2] \in BOOLEAN
                      /\ t[1] = "reset" => t[2] \in ResetTypes
                      /\ t[1] = "read_first" => t[2] \in CORE_REGISTER
                      /\ t[1] = "put" => t[2] \in CORE_REGISTER /\ t[3] \in Values
<1>1. \A t \in Plain : Fine(t)
  BY DEF Plain, GetState
<1>2. \A t \in Vcs : Fine(t)
  BY DEF Vcs
<1>3. \A t \in Resets : Fine(t)
  BY DEF Resets
<1>4. \A t \in Dhcsrs : Fine(t)
  BY DEF Dhcsrs
<1>5. \A t \in ReadFirsts : Fine(t)
  BY DEF ReadFirsts
<1>6. \A t \in Puts : Fine(t)
  BY DEF Puts, Put
<1> HIDE DEF Fine
<1>7. Fine(s)
  BY <1>1, <1>2, <1>3, <1>4, <1>5, <1>6, Zenon DEF Steps
<1> QED BY <1>7 DEF Fine

\* The first step left tells which action goes on.
LEMMA Dispatch ==
  ASSUME HostStep
  PROVE  /\ todo # << >>
         /\ Head(todo)[1] = "dhcsr" => WriteDhcsr
         /\ Head(todo)[1] = "release" => Release
         /\ Head(todo)[1] = "state" => ReadState
         /\ Head(todo)[1] = "state_again" => ReadStateAgain
         /\ Head(todo)[1] = "resume" => Resume
         /\ Head(todo)[1] = "step" => BeginStep
         /\ Head(todo)[1] = "await_step" => AwaitStep
         /\ Head(todo)[1] = "count" => CountStep
         /\ Head(todo)[1] = "reset" => Reset
         /\ Head(todo)[1] = "nreset" => HardwareReset
         /\ Head(todo)[1] = "aircr" => WriteAircr
         /\ Head(todo)[1] = "await_reset" => AwaitReset
         /\ Head(todo)[1] = "await_halt" => AwaitHalt
         /\ Head(todo)[1] = "read_demcr" => ReadDemcr
         /\ Head(todo)[1] = "write_vc" => WriteVc
         /\ Head(todo)[1] = "restore_vc" => RestoreVc
         /\ Head(todo)[1] = "thumb" => SetThumb
         /\ Head(todo)[1] = "check_cache" => CheckCache
         /\ Head(todo)[1] = "fill" => Fill
         /\ Head(todo)[1] = "enter" => Enter
         /\ Head(todo)[1] = "read_first" => ReadFirstRegister
         /\ Head(todo)[1] = "put" => PutRegister
<1>1. /\ WriteDhcsr => Doing("dhcsr")
      /\ Release => Doing("release")
      /\ ReadState => Doing("state")
      /\ ReadStateAgain => Doing("state_again")
      /\ Resume => Doing("resume")
      /\ BeginStep => Doing("step")
      /\ AwaitStep => Doing("await_step")
      /\ CountStep => Doing("count")
      /\ Reset => Doing("reset")
      /\ HardwareReset => Doing("nreset")
      /\ WriteAircr => Doing("aircr")
  BY Zenon DEF WriteDhcsr, Release, ReadState, ReadStateAgain, Resume, BeginStep, AwaitStep,
               CountStep, Reset, HardwareReset, WriteAircr
<1>2. /\ AwaitReset => Doing("await_reset")
      /\ AwaitHalt => Doing("await_halt")
      /\ ReadDemcr => Doing("read_demcr")
      /\ WriteVc => Doing("write_vc")
      /\ RestoreVc => Doing("restore_vc")
      /\ SetThumb => Doing("thumb")
      /\ CheckCache => Doing("check_cache")
      /\ Fill => Doing("fill")
      /\ Enter => Doing("enter")
      /\ ReadFirstRegister => Doing("read_first")
      /\ PutRegister => Doing("put")
  BY Zenon DEF AwaitReset, AwaitHalt, ReadDemcr, WriteVc, RestoreVc, SetThumb, CheckCache, Fill,
               Enter, ReadFirstRegister, PutRegister
<1> QED BY <1>1, <1>2 DEF HostStep, Awaited, Doing, Idle

\* Steps taken from the front of what is left, and put there.
LEMMA Moves ==
  ASSUME NEW rest \in Seq(Steps), Tail(todo) = rest, NEW a \in Steps, NEW b \in Steps
  PROVE  /\ Done <=> todo' = rest
         /\ Then(<< >>) <=> todo' = rest
         /\ Then(<<a>>) <=> todo' = Cons(a, rest)
         /\ Then(<<a, b>>) <=> todo' = Cons(a, Cons(b, rest))
BY InFront, Zenon DEF Done, Then

\* What each action of an operation leaves alone.
LEMMA HostKeeps ==
  ASSUME Types, HostStep
  PROVE  /\ op' = op /\ menu' = menu /\ owed' = owed
         /\ faults' = faults /\ outside' = outside
         /\ past'.raised = past.raised /\ past'.mask = past.mask /\ past'.vc = past.vc
         /\ past'.caught = past.caught
         /\ past.disturbed => past'.disturbed
         /\ ~Doing("write_vc") /\ ~Doing("restore_vc") => vc' = vc
         /\ ~Doing("dhcsr") /\ ~Doing("release") /\ ~Doing("nreset") => dhcsr' = dhcsr
         /\ ~Doing("dhcsr") /\ ~Doing("release") /\ ~Doing("nreset") => core' = core
         /\ ~Doing("thumb") /\ ~Doing("put") => regs' = regs
         /\ ~Doing("resume") /\ ~Doing("count") /\ ~Doing("reset") => token' = token
         /\ ~Doing("aircr") => request' \in {request, "overlooked"}
         /\ ~Doing("aircr") /\ ~Doing("await_reset") => request' = request
         /\ ~Doing("read_demcr") => loc'.vc = loc.vc
<1>p. past \in Pasts /\ loc \in Locals /\ owed' = owed
  BY DEF Types, HostStep
<1> USE <1>p DEF Pasts, Locals, hardware, history
<1>1. CASE WriteDhcsr BY <1>1 DEF WriteDhcsr
<1>2. CASE Release BY <1>2 DEF Release
<1>3. CASE ReadState BY <1>p, <1>3 DEF ReadState
<1>4. CASE ReadStateAgain BY <1>p, <1>4 DEF ReadStateAgain
<1>5. CASE Resume BY <1>5 DEF Resume
<1>6. CASE BeginStep BY <1>6 DEF BeginStep
<1>7. CASE AwaitStep BY <1>7 DEF AwaitStep
<1>8. CASE CountStep BY <1>8 DEF CountStep
<1>9. CASE Reset BY <1>9 DEF Reset
<1>10. CASE HardwareReset BY <1>10 DEF HardwareReset
<1>11. CASE WriteAircr BY <1>11 DEF WriteAircr
<1>12. CASE AwaitReset BY <1>12 DEF AwaitReset, Overlook
<1>13. CASE AwaitHalt BY <1>13 DEF AwaitHalt
<1>14. CASE ReadDemcr BY <1>p, <1>14 DEF ReadDemcr
<1>15. CASE WriteVc BY <1>15 DEF WriteVc
<1>16. CASE RestoreVc BY <1>16 DEF RestoreVc
<1>17. CASE SetThumb BY <1>p, <1>17 DEF SetThumb, Unhalted
<1>18. CASE CheckCache BY <1>18 DEF CheckCache
<1>19. CASE Fill BY <1>p, <1>19 DEF Fill, Unhalted
<1>20. CASE Enter BY <1>p, <1>20 DEF Enter
<1>21. CASE ReadFirstRegister BY <1>p, <1>21 DEF ReadFirstRegister, Unhalted
<1>22. CASE PutRegister BY <1>p, <1>22 DEF PutRegister, Unhalted
<1> QED BY <1>1, <1>2, <1>3, <1>4, <1>5, <1>6, <1>7, <1>8, <1>9, <1>10, <1>11, <1>12, <1>13,
           <1>14, <1>15, <1>16, <1>17, <1>18, <1>19, <1>20, <1>21, <1>22 DEF HostStep, Awaited

\* The steps in which an operation fails or waits in vain.
Fails == NotReady \/ AccessFails \/ WriteAircrFails \/ AwaitTimesOut

\* A failing access raises and ends the operation, but at the write of AIRCR and in the
\* polling loops, which swallow it; the core stays as it was.
LEMMA FailsKeep ==
  ASSUME Types, Fails
  PROVE  /\ op' = op /\ menu' = menu /\ outside' = outside /\ token' = token
         /\ UNCHANGED <<core, dhcsr, sticky, vc, regs, loc, cache, ctoken>>
         /\ past'.mask = past.mask /\ past'.vc = past.vc
         /\ past.disturbed => past'.disturbed
         /\ past.caught => past'.caught
         /\ faults > 0 => faults' > 0
         /\ todo # << >> /\ (owed' => owed /\ ~AccessFails /\ ~WriteAircrFails)
         /\ \/ todo' = << >> /\ past'.raised /\ (AccessFails => faults' > 0)
            \/ todo' = todo /\ past' = past /\ Head(todo)[1] = "await_reset" /\ faults' > 0
            \/ /\ Head(todo)[1] \in {"aircr", "await_reset", "await_halt"}
               /\ todo' = Tail(todo) /\ past'.raised = past.raised
               /\ IF Head(todo)[1] = "aircr" THEN past'.caught ELSE past'.disturbed
         /\ request # "none" => request' # "none"
         /\ request' = "asked" => request = "asked" \/ Doing("aircr")
<1>1. /\ past \in Pasts /\ faults \in Nat /\ owed \in BOOLEAN
      /\ Tail(todo) \in Seq(Steps) \/ todo = << >>
      /\ todo \in Seq(Steps)
  BY DEF Types, TypeOK
<1>2. todo # << >> => << >> \o Tail(todo) = Tail(todo)
  BY <1>1, ConcatEmptySeq
<1>o. owed => faults > 0
  BY DEF Types
<1>t. Trouble => faults' > 0 /\ ~owed'
  BY <1>1, <1>o DEF Trouble
<1> USE DEF Pasts, hardware, history
<1>a. AccessFails => faults' > 0
  BY <1>t DEF AccessFails
<1>3. CASE NotReady
  BY <1>a, <1>t, <1>1, <1>3 DEF NotReady, Doing, Idle, WriteAircrFails, AccessFails
<1>4. CASE AccessFails
  BY <1>1, <1>t, <1>4 DEF AccessFails, Doing, Idle, Overlook
<1>5. CASE WriteAircrFails
  BY <1>a, <1>t, <1>1, <1>2, <1>5 DEF WriteAircrFails, Doing, Idle, Done, Then
<1>6. CASE AwaitTimesOut
  BY <1>a, <1>t, <1>1, <1>2, <1>6 DEF AwaitTimesOut, Doing, Idle, Done, Then, Overlook,
                                     WriteAircrFails, AccessFails
<1> QED BY <1>3, <1>4, <1>5, <1>6 DEF Fails

\* What the core does by itself.
LEMMA HardwareKeeps ==
  ASSUME Types, Hardware
  PROVE  /\ UNCHANGED host
         /\ vc' = vc /\ faults' = faults
         /\ dhcsr'.debugen = dhcsr.debugen /\ dhcsr'.mask = dhcsr.mask
         /\ past'.raised = past.raised /\ past'.mask = past.mask /\ past'.vc = past.vc
         /\ past'.caught = past.caught
         /\ past.disturbed => past'.disturbed
         /\ outside > 0 => outside' > 0
         /\ request' = request \/ (request' = "none" /\ TakeReset)
<1>1. past \in Pasts /\ outside \in Nat /\ dhcsr \in DhcsrValues
  BY DEF Types, TypeOK, DhcsrValues
<1> USE DEF Pasts, host, history, DhcsrValues
<1>2. CASE Execute BY <1>1, <1>2 DEF Execute
<1>3. CASE HitBreakpoint BY <1>1, <1>3 DEF HitBreakpoint
<1>4. CASE StopRequested BY <1>1, <1>4 DEF StopRequested
<1>5. CASE SleepOrWake BY <1>1, <1>5 DEF SleepOrWake
<1>6. CASE TakeReset BY <1>1, <1>6 DEF TakeReset, IntoReset
<1>7. CASE OutsideReset BY <1>1, <1>7 DEF OutsideReset, IntoReset
<1>8. CASE LeaveReset BY <1>1, <1>8 DEF LeaveReset
<1> QED BY <1>2, <1>3, <1>4, <1>5, <1>6, <1>7, <1>8 DEF Hardware

\* What is left of an operation after one of its steps.
LEMMA Advance ==
  ASSUME Types, HostStep, NEW first, NEW rest, IsList(todo, first, rest)
  PROVE  /\ first[1] \notin {"state", "resume", "step", "await_step", "reset", "await_reset",
                             "await_halt", "enter"} => todo' = rest
         /\ first[1] = "state" => todo' \in {rest, Cons(<<"state_again">>, rest)}
         /\ first[1] = "resume" =>
              \/ todo' = rest /\ token' = token
              \/ todo' = Cons(Go, rest) /\ token' = token + 1
         /\ first[1] \in {"await_step", "await_reset"} => todo' \in {todo, rest}
         /\ first[1] = "await_halt" => todo' \in {rest, Cons(GetState, Cons(<<"await_halt">>, rest))}
         /\ first[1] = "reset" =>
              /\ token' = token + 1
              /\ todo' \in {Cons(<<"nreset">>, AwaitingReset(rest)),
                            Cons(<<"aircr">>, AwaitingReset(rest)), Cons(Halt, PutsFrom(1, rest))}
         /\ first \in Steps /\ rest \in Seq(Steps)
<1>1. Head(todo) = first /\ Tail(todo) = rest /\ todo # << >> /\ todo \in Seq(Steps)
  BY DEF IsList
<1>2. first \in Steps /\ rest \in Seq(Steps)
  BY <1>1
<1>d. /\ first[1] = "dhcsr" => WriteDhcsr
      /\ first[1] = "release" => Release
      /\ first[1] = "state" => ReadState
      /\ first[1] = "state_again" => ReadStateAgain
      /\ first[1] = "resume" => Resume
      /\ first[1] = "await_step" => AwaitStep
      /\ first[1] = "count" => CountStep
      /\ first[1] = "reset" => Reset
      /\ first[1] = "nreset" => HardwareReset
      /\ first[1] = "aircr" => WriteAircr
      /\ first[1] = "await_reset" => AwaitReset
      /\ first[1] = "await_halt" => AwaitHalt
  BY <1>1, Dispatch
<1>e. /\ first[1] = "read_demcr" => ReadDemcr
      /\ first[1] = "write_vc" => WriteVc
      /\ first[1] = "restore_vc" => RestoreVc
      /\ first[1] = "thumb" => SetThumb
      /\ first[1] = "check_cache" => CheckCache
      /\ first[1] = "fill" => Fill
      /\ first[1] = "read_first" => ReadFirstRegister
      /\ first[1] = "put" => PutRegister
  BY <1>1, Dispatch, Zenon
<1>k. first[1] \in {"dhcsr", "release", "state", "state_again", "resume", "step", "await_step",
                    "count", "reset", "nreset", "aircr", "await_reset", "await_halt",
                    "read_demcr", "write_vc", "restore_vc", "thumb", "check_cache", "fill",
                    "enter", "read_first", "put"}
  <2>1. /\ \A s \in Plain : s[1] \in {"release", "state", "state_again", "resume", "step",
                    "await_step", "count", "nreset", "aircr", "await_reset", "await_halt",
                    "read_demcr", "restore_vc", "thumb", "check_cache", "fill", "enter"}
        /\ \A s \in Vcs : s[1] = "write_vc"
        /\ \A s \in Resets : s[1] = "reset"
        /\ \A s \in Dhcsrs : s[1] = "dhcsr"
        /\ \A s \in ReadFirsts : s[1] = "read_first"
        /\ \A s \in Puts : s[1] = "put"
    BY DEF Plain, GetState, Vcs, Resets, Dhcsrs, ReadFirsts, Puts, Put
  <2>2. \/ first \in Plain \/ first \in Vcs \/ first \in Resets \/ first \in Dhcsrs
        \/ first \in ReadFirsts \/ first \in Puts
    BY <1>2, Zenon DEF Steps
  <2>3. CASE first \in Plain BY <2>1, <2>3, Zenon
  <2>4. CASE first \in Vcs BY <2>1, <2>4, Zenon
  <2>5. CASE first \in Resets BY <2>1, <2>5, Zenon
  <2>6. CASE first \in Dhcsrs BY <2>1, <2>6, Zenon
  <2>7. CASE first \in ReadFirsts BY <2>1, <2>7, Zenon
  <2>8. CASE first \in Puts BY <2>1, <2>8, Zenon
  <2> QED BY <2>2, <2>3, <2>4, <2>5, <2>6, <2>7, <2>8
<1>s. /\ GetState \in Steps /\ <<"state_again">> \in Steps /\ <<"await_halt">> \in Steps
      /\ Go \in Steps
  BY PlainSteps, OtherSteps, Zenon DEF Go
<1>m. /\ Done <=> todo' = rest
      /\ Then(<< >>) <=> todo' = rest
      /\ Then(<<<<"state_again">>>>) <=> todo' = Cons(<<"state_again">>, rest)
      /\ Then(<<Go>>) <=> todo' = Cons(Go, rest)
      /\ Then(<<GetState, <<"await_halt">>>>) <=>
           todo' = Cons(GetState, Cons(<<"await_halt">>, rest))
  BY <1>1, <1>2, <1>s, Moves, Zenon
<1>3. first[1] \in {"dhcsr", "release", "state_again", "count", "nreset", "aircr"} => Done
  BY <1>d, Zenon DEF WriteDhcsr, Release, ReadStateAgain, CountStep, HardwareReset, WriteAircr
<1>4. first[1] \in {"read_demcr", "write_vc", "restore_vc", "thumb", "check_cache", "fill",
                    "read_first", "put"} => Done
  BY <1>e, Zenon DEF ReadDemcr, WriteVc, RestoreVc, SetThumb, CheckCache, Fill,
                     ReadFirstRegister, PutRegister
<1>5. first[1] \notin {"state", "resume", "step", "await_step", "reset", "await_reset",
                       "await_halt", "enter"} => todo' = rest
  BY <1>k, <1>m, <1>3, <1>4
<1>6. first[1] = "state" => todo' \in {rest, Cons(<<"state_again">>, rest)}
  <2>1. first[1] = "state" => Then(<<<<"state_again">>>>) \/ Then(<< >>)
    BY <1>d, Zenon DEF ReadState
  <2> QED BY <2>1, <1>m, Zenon
<1>7. first[1] = "resume" =>
        \/ todo' = rest /\ token' = token
        \/ todo' = Cons(Go, rest) /\ token' = token + 1
  <2>1. first[1] = "resume" =>
          (Done /\ token' = token) \/ (Then(<<Go>>) /\ token' = token + 1)
    BY <1>d, Zenon DEF Resume, Go
  <2> QED BY <2>1, <1>m, Zenon
<1>8. first[1] \in {"await_step", "await_reset"} => todo' \in {todo, rest}
  <2>1. first[1] \in {"await_step", "await_reset"} => Done \/ todo' = todo
    BY <1>d, Zenon DEF AwaitStep, AwaitReset
  <2> QED BY <2>1, <1>m, Zenon
<1>9. first[1] = "await_halt" => todo' \in {rest, Cons(GetState, Cons(<<"await_halt">>, rest))}
  <2>1. first[1] = "await_halt" => Done \/ Then(<<GetState, <<"await_halt">>>>)
    BY <1>d, Zenon DEF AwaitHalt
  <2> QED BY <2>1, <1>m, Zenon
<1>10. first[1] = "reset" =>
         /\ token' = token + 1
         /\ todo' \in {Cons(<<"nreset">>, AwaitingReset(rest)),
                       Cons(<<"aircr">>, AwaitingReset(rest)), Cons(Halt, PutsFrom(1, rest))}
  <2> SUFFICES ASSUME first[1] = "reset"
               PROVE  /\ token' = token + 1
                      /\ todo' \in {Cons(<<"nreset">>, AwaitingReset(rest)),
                                    Cons(<<"aircr">>, AwaitingReset(rest)),
                                    Cons(Halt, PutsFrom(1, rest))}
    OBVIOUS
  <2>1. /\ token' = token + 1
        /\ todo' = (PerformReset(ActualReset(first[2])) \o <<<<"await_reset">>>>) \o rest
    BY <1>1, <1>d, Zenon DEF Reset, Then, Arg
  <2>2. first[2] \in ResetTypes
    BY <1>2, StepKinds, Zenon
  <2> QED BY <1>2, <2>1, <2>2, PerformIs, Zenon
<1> QED BY <1>2, <1>5, <1>6, <1>7, <1>8, <1>9, <1>10, Zenon

\* What is left of an operation when a step is done or fails.
LEMMA Onward ==
  ASSUME Types, HostStep \/ Fails, NEW first, NEW rest, IsList(todo, first, rest)
  PROVE  /\ op' = op
         /\ first[1] \notin {"state", "resume", "step", "await_step", "reset", "await_reset",
                             "await_halt", "enter"} => todo' \in {<< >>, rest}
         /\ first[1] = "state" => todo' \in {<< >>, rest, Cons(<<"state_again">>, rest)}
         /\ first[1] = "resume" => todo' \in {<< >>, rest, Cons(Go, rest)}
         /\ first[1] = "await_step" => todo' \in {<< >>, todo, rest}
         /\ first[1] = "await_reset" => todo' \in {<< >>, todo, rest}
         /\ first[1] = "await_halt" =>
              todo' \in {<< >>, rest, Cons(GetState, Cons(<<"await_halt">>, rest))}
         /\ first[1] = "reset" =>
              todo' \in {<< >>, Cons(<<"nreset">>, AwaitingReset(rest)),
                         Cons(<<"aircr">>, AwaitingReset(rest)), Cons(Halt, PutsFrom(1, rest))}
         /\ first[1] \notin {"resume", "count", "reset"} => token' = token
<1>1. Head(todo) = first /\ Tail(todo) = rest /\ todo # << >>
  BY DEF IsList
<1>2. CASE HostStep
  <2>1. op' = op /\ (first[1] \notin {"resume", "count", "reset"} => token' = token)
    BY <1>1, <1>2, HostKeeps DEF Doing, Idle
  <2> QED BY <1>2, <2>1, Advance, Zenon
<1>3. CASE Fails
  <2>1. /\ op' = op /\ token' = token
        /\ \/ todo' = << >>
           \/ todo' = todo /\ first[1] = "await_reset"
           \/ todo' = rest /\ first[1] \in {"aircr", "await_reset", "await_halt"}
    BY <1>1, <1>3, FailsKeep, Zenon
  <2> QED BY <2>1
<1> QED BY <1>2, <1>3

\* The lists as they occur.
LEMMA Firsts ==
  /\ GetState[1] = "state" /\ Halt[1] = "dhcsr" /\ Go[1] = "dhcsr"
  /\ \A halt, step, mask : Dhcsr(halt, step, mask)[1] = "dhcsr"
  /\ \A halt, step, mask : Dhcsr(halt, step, mask)[2] =
       [debugen |-> TRUE, halt |-> halt, step |-> step, mask |-> mask]
  /\ \A on : <<"write_vc", on>>[1] = "write_vc" /\ <<"write_vc", on>>[2] = on
  /\ \A type : <<"reset", type>>[1] = "reset"
  /\ \A k : EmulatedPut(k)[1] = "put"
BY DEF GetState, Halt, Go, Dhcsr, EmulatedPut, Put

-----------------------------------------------------------------------------
(* The operations that only their list matters for.                        *)

\* halt is one write.
LEMMA HaltStep ==
  ASSUME Types, HaltOp, HostStep \/ Fails
  PROVE  HaltOp'
<1>1. todo # << >>
  BY Dispatch, FailsKeep
<1>2. IsList(Cons(Halt, << >>), Halt, << >>)
  BY Wraps, LastLists, Zenon
<1>3. CASE todo = Cons(Halt, << >>)
  BY <1>2, <1>3, Onward, Firsts DEF HaltOp
<1>4. CASE op.name # "halt"
  <2>1. op' = op
    BY HostKeeps, FailsKeep
  <2> QED BY <1>4, <2>1 DEF HaltOp
<1> QED BY <1>1, <1>3, <1>4 DEF HaltOp

\* set_vector_catch reads DEMCR and writes it.
LEMMA CatchStep ==
  ASSUME Types, op \in Ops \cup {None}, CatchOp, HostStep \/ Fails
  PROVE  CatchOp'
<1>1. todo # << >> /\ op' = op
  BY Dispatch, FailsKeep, HostKeeps
<1> SUFFICES ASSUME op.name = "set_vector_catch"
             PROVE  todo' \in {<< >>, Catch(op.on, << >>),
                               Cons(<<"read_demcr">>, Catch(op.on, << >>))}
  BY <1>1 DEF CatchOp
<1>2. op.on \in BOOLEAN
  BY OpsAre DEF None
<1>3. IsList(Catch(op.on, << >>), <<"write_vc", op.on>>, << >>)
  BY <1>2, Wraps, LastLists
<1>4. IsList(Cons(<<"read_demcr">>, Catch(op.on, << >>)), <<"read_demcr">>, Catch(op.on, << >>))
  <2>1. Catch(op.on, << >>) \in Seq(Steps)
    BY <1>3 DEF IsList
  <2> QED BY <2>1, Wraps
<1>5. CASE todo = Catch(op.on, << >>)
  BY <1>3, <1>5, Onward
<1>6. CASE todo = Cons(<<"read_demcr">>, Catch(op.on, << >>))
  BY <1>4, <1>6, Onward
<1> QED BY <1>1, <1>5, <1>6 DEF CatchOp

\* A read looks at the state, checks the cache and fills it.
LEMMA ReadStep ==
  ASSUME Types, ReadOp, HostStep \/ Fails
  PROVE  ReadOp'
<1>1. todo # << >> /\ op' = op
  BY Dispatch, FailsKeep, HostKeeps
<1>2. /\ IsList(Fill1, <<"fill">>, << >>)
      /\ IsList(Checked(Fill1), <<"check_cache">>, Fill1)
  BY Wraps, LastLists DEF IsList
<1>3. /\ IsList(Cons(<<"state_again">>, Checked(Fill1)), <<"state_again">>, Checked(Fill1))
      /\ IsList(Cons(GetState, Checked(Fill1)), GetState, Checked(Fill1))
  BY <1>2, Wraps DEF IsList
<1> SUFFICES ASSUME op.name = "read"
             PROVE  todo' \in {<< >>, Cons(GetState, Checked(Fill1)),
                               Cons(<<"state_again">>, Checked(Fill1)), Checked(Fill1), Fill1}
  BY <1>1 DEF ReadOp
<1>4. CASE todo = Fill1
  BY <1>2, <1>4, Onward
<1>5. CASE todo = Checked(Fill1)
  BY <1>2, <1>5, Onward
<1>6. CASE todo = Cons(<<"state_again">>, Checked(Fill1))
  BY <1>3, <1>6, Onward
<1>7. CASE todo = Cons(GetState, Checked(Fill1))
  BY <1>3, <1>7, Onward, Firsts
<1> QED BY <1>1, <1>4, <1>5, <1>6, <1>7 DEF ReadOp

\* The transfers of a write.
LEMMA TransferStepsAre ==
  ASSUME NEW o, o.bit \in 0..1
  PROVE  /\ TransferSteps(o) \subseteq Steps
         /\ \A s \in TransferSteps(o) : s[1] \in {"read_first", "put"}
<1>1. \A reg \in CORE_REGISTER : Data(reg, o.bit) \in Values
  <2> TAKE reg \in CORE_REGISTER
  <2>1. FieldsOf(reg) \subseteq Fields
    BY DEF FieldsOf, CORE_REGISTER, Fields
  <2>2. Data(reg, o.bit) \in [FieldsOf(reg) -> 0..1]
    BY DEF Data
  <2> QED BY <2>1, <2>2 DEF Values
<1>2. "cfbp" \in CORE_REGISTER /\ "xpsr" \in CORE_REGISTER
  BY DEF CORE_REGISTER
<1>3. <<"read_first", "cfbp">> \in Steps /\ <<"read_first", "xpsr">> \in Steps
  BY <1>2, OtherSteps
<1>4. \A s \in {Put(reg, Data(reg, o.bit)) : reg \in CORE_REGISTER} : s \in Steps /\ s[1] = "put"
  <2>1. \A reg \in CORE_REGISTER : Put(reg, Data(reg, o.bit)) \in Steps
    BY <1>1, OtherSteps
  <2>2. \A reg \in CORE_REGISTER : Put(reg, Data(reg, o.bit))[1] = "put"
    BY DEF Put
  <2> QED BY <2>1, <2>2
<1>5. \A s \in {<<"read_first", "cfbp">>, <<"read_first", "xpsr">>} :
        s \in Steps /\ s[1] = "read_first"
  BY <1>3
<1> QED BY <1>4, <1>5, Zenon DEF TransferSteps

\* What a write of registers consists of once the cache has its values.
ReadSteps(o) == [k \in DOMAIN ReadFirst(o.list) |-> <<"read_first", ReadFirst(o.list)[k]>>]
PutSteps(o) ==
  [k \in DOMAIN RegDataList(o.list) |->
     Put(RegDataList(o.list)[k], Data(RegDataList(o.list)[k], o.bit))]

\* It reads some registers, and then transfers its own values.
LEMMA Transferring ==
  ASSUME NEW o, o.bit \in 0..1, o.list \in Seq(CORE_REGISTER)
  PROVE  /\ ReadSteps(o) \in Seq(TransferSteps(o)) /\ PutSteps(o) \in Seq(TransferSteps(o))
         /\ ReadSteps(o) \o PutSteps(o) \in Seq(TransferSteps(o))
<1> DEFINE S == TransferSteps(o)
           F == {"cfbp", "xpsr"}
           R == CORE_REGISTER
<1>1. PICK first : first = ReadFirst(o.list)
  OBVIOUS
<1>2. PICK list : list = RegDataList(o.list)
  OBVIOUS
<1>3. first \in Seq(F)
  <2>1. << >> \in Seq(F) /\ <<"cfbp">> \in Seq(F) /\ <<"xpsr">> \in Seq(F)
    OBVIOUS
  <2> HIDE DEF F
  <2>2. \A u, v \in Seq(F) : u \o v \in Seq(F)
    BY ConcatProperties
  <2> QED BY <1>1, <2>1, <2>2, Zenon DEF ReadFirst
<1>4. list \in Seq(R)
  BY <1>2, RegDataType
<1>5. \A f \in F : <<"read_first", f>> \in S
  BY DEF TransferSteps
<1>6. \A reg \in R : Put(reg, Data(reg, o.bit)) \in S
  <2>1. \A s \in {Put(reg, Data(reg, o.bit)) : reg \in CORE_REGISTER} : s \in S
    BY Zenon DEF TransferSteps
  <2> QED BY <2>1
<1> HIDE DEF S, F, R
<1>7. [k \in DOMAIN first |-> <<"read_first", first[k]>>] \in Seq(S)
  <2>1. /\ DOMAIN first = 1..Len(first) /\ Len(first) \in Nat
        /\ \A k \in 1..Len(first) : first[k] \in F
    BY <1>3, LenProperties, ElementOfSeq
  <2>2. \A k \in 1..Len(first) : <<"read_first", first[k]>> \in S
    BY <2>1, <1>5
  <2> DEFINE g(k) == <<"read_first", first[k]>>
  <2>3. \A k \in 1..Len(first) : g(k) \in S
    BY <2>2
  <2> HIDE DEF g
  <2>4. [k \in 1..Len(first) |-> g(k)] \in Seq(S)
    BY <2>1, <2>3
  <2> QED BY <2>1, <2>4, Zenon DEF g
<1>8. [k \in DOMAIN list |-> Put(list[k], Data(list[k], o.bit))] \in Seq(S)
  <2>1. /\ DOMAIN list = 1..Len(list) /\ Len(list) \in Nat
        /\ \A k \in 1..Len(list) : list[k] \in R
    BY <1>4, LenProperties, ElementOfSeq
  <2> DEFINE g(k) == Put(list[k], Data(list[k], o.bit))
  <2>2. \A k \in 1..Len(list) : g(k) \in S
    BY <2>1, <1>6
  <2> HIDE DEF g
  <2>3. [k \in 1..Len(list) |-> g(k)] \in Seq(S)
    BY <2>1, <2>2
  <2> QED BY <2>1, <2>3, Zenon DEF g
<1>9. ReadSteps(o) \in Seq(S) /\ PutSteps(o) \in Seq(S)
  BY <1>1, <1>2, <1>7, <1>8, Zenon DEF ReadSteps, PutSteps
<1> QED BY <1>9, ConcatProperties, Zenon DEF S

\* A write enters its values and becomes a list of transfers of its own values.
LEMMA WriteStep ==
  ASSUME Types, op \in Ops \cup {None}, WriteOp, HostStep \/ Fails
  PROVE  WriteOp'
<1>1. todo # << >> /\ op' = op
  BY Dispatch, FailsKeep, HostKeeps
<1> SUFFICES ASSUME op.name = "write"
             PROVE  \/ todo' \in {Cons(GetState, Checked(Enter1)),
                                  Cons(<<"state_again">>, Checked(Enter1)),
                                  Checked(Enter1), Enter1}
                    \/ todo' \in Seq(TransferSteps(op))
  BY <1>1 DEF WriteOp
<1>a. op.bit \in 0..1 /\ op.list \in Seq(CORE_REGISTER)
  BY OpsAre DEF None
<1>e. << >> \in Seq(TransferSteps(op))
  BY EmptySeq
<1>2. /\ IsList(Enter1, <<"enter">>, << >>)
      /\ IsList(Checked(Enter1), <<"check_cache">>, Enter1)
  BY Wraps, LastLists DEF IsList
<1>3. /\ IsList(Cons(<<"state_again">>, Checked(Enter1)), <<"state_again">>, Checked(Enter1))
      /\ IsList(Cons(GetState, Checked(Enter1)), GetState, Checked(Enter1))
  BY <1>2, Wraps DEF IsList
<1>4. CASE todo = Enter1
  <2>1. CASE HostStep
    <3>1. Enter
      BY <1>2, <1>4, <2>1, Dispatch DEF IsList
    <3>2. todo' = ReadSteps(op) \o PutSteps(op)
      BY <3>1, Zenon DEF Enter, ReadSteps, PutSteps
    <3>3. PICK o : o = op
      OBVIOUS
    <3> QED BY <3>2, <3>3, <1>a, Transferring
  <2>2. CASE Fails
    <3>1. Head(todo)[1] = "enter"
      BY <1>2, <1>4 DEF IsList
    <3> QED BY <2>2, <3>1, <1>e, FailsKeep
  <2> QED BY <2>1, <2>2
<1>5. CASE todo = Checked(Enter1)
  <2>1. todo' \in {<< >>, Enter1}
    BY <1>2, <1>5, Onward
  <2> QED BY <2>1, <1>e
<1>6. CASE todo = Cons(<<"state_again">>, Checked(Enter1))
  <2>1. todo' \in {<< >>, Checked(Enter1)}
    BY <1>3, <1>6, Onward
  <2> QED BY <2>1, <1>e
<1>7. CASE todo = Cons(GetState, Checked(Enter1))
  <2>1. todo' \in {<< >>, Checked(Enter1), Cons(<<"state_again">>, Checked(Enter1))}
    BY <1>3, <1>7, Onward, Firsts
  <2> QED BY <2>1, <1>e
<1>8. CASE todo \in Seq(TransferSteps(op))
  <2>1. PICK S : S = TransferSteps(op)
    OBVIOUS
  <2>2. todo \in Seq(S) /\ S \subseteq Steps /\ \A s \in S : s[1] \in {"read_first", "put"}
    <3>1. PICK o : o = op
      OBVIOUS
    <3> QED BY <2>1, <3>1, <1>a, <1>8, TransferStepsAre
  <2>3. Head(todo) \in S /\ Tail(todo) \in Seq(S) /\ todo \in Seq(Steps)
    BY <1>1, <2>2 DEF Types
  <2>4. IsList(todo, Head(todo), Tail(todo))
    BY <1>1, <2>3 DEF IsList
  <2>5. PICK first : first = Head(todo)
    OBVIOUS
  <2>6. PICK rest : rest = Tail(todo)
    OBVIOUS
  <2>7. IsList(todo, first, rest) /\ first[1] \in {"read_first", "put"} /\ rest \in Seq(S)
    BY <2>2, <2>3, <2>4, <2>5, <2>6, Zenon
  <2>8. todo' \in {<< >>, rest}
    BY <2>7, Onward
  <2> QED BY <2>1, <2>7, <2>8, <1>e
<1> QED BY <1>1, <1>4, <1>5, <1>6, <1>7, <1>8 DEF WriteOp

-----------------------------------------------------------------------------
(* resume, and the reset of a core.                                        *)

\* A resume goes on, or is over.
LEMMA ResumingStep ==
  ASSUME Types, NEW rest \in Seq(Steps), Resuming(rest), HostStep
  PROVE  Resuming(rest)' \/ todo' = rest
<1>1. /\ IsList(Resume1(rest), <<"resume">>, rest)
      /\ IsList(Cons(Go, rest), Go, rest)
  BY Wraps
<1>2. /\ IsList(Cons(<<"state_again">>, Resume1(rest)), <<"state_again">>, Resume1(rest))
      /\ IsList(Cons(GetState, Resume1(rest)), GetState, Resume1(rest))
  BY <1>1, Wraps DEF IsList
<1>3. CASE todo = Cons(Go, rest)
  BY <1>1, <1>3, Advance, Firsts
<1>4. CASE todo = Resume1(rest)
  <2>1. todo' = rest \/ todo' = Cons(Go, rest)
    BY <1>1, <1>4, Advance
  <2> QED BY <2>1 DEF Resuming
<1>5. CASE todo = Cons(<<"state_again">>, Resume1(rest)) /\ token < MaxToken
  <2>1. todo' = Resume1(rest)
    BY <1>2, <1>5, Advance
  <2>2. token' = token
    BY <1>2, <1>5, Onward
  <2> QED BY <1>5, <2>1, <2>2 DEF Resuming
<1>6. CASE todo = Cons(GetState, Resume1(rest)) /\ token < MaxToken
  <2>1. todo' \in {Resume1(rest), Cons(<<"state_again">>, Resume1(rest))}
    BY <1>2, <1>6, Advance, Firsts
  <2>2. token' = token
    BY <1>2, <1>6, Onward, Firsts
  <2> QED BY <1>6, <2>1, <2>2 DEF Resuming
<1> QED BY <1>3, <1>4, <1>5, <1>6 DEF Resuming

\* The steps of a resume.
LEMMA ResumingHeads ==
  ASSUME NEW rest \in Seq(Steps), Resuming(rest)
  PROVE  todo # << >> /\ Head(todo)[1] \in {"dhcsr", "resume", "state", "state_again"}
<1>1. /\ IsList(Resume1(rest), <<"resume">>, rest)
      /\ IsList(Cons(Go, rest), Go, rest)
  BY Wraps
<1>2. /\ IsList(Cons(<<"state_again">>, Resume1(rest)), <<"state_again">>, Resume1(rest))
      /\ IsList(Cons(GetState, Resume1(rest)), GetState, Resume1(rest))
  BY <1>1, Wraps DEF IsList
<1>3. CASE todo = Resume1(rest) BY <1>1, <1>3 DEF IsList
<1>4. CASE todo = Cons(Go, rest) BY <1>1, <1>4, Firsts DEF IsList
<1>5. CASE todo = Cons(<<"state_again">>, Resume1(rest)) BY <1>2, <1>5 DEF IsList
<1>6. CASE todo = Cons(GetState, Resume1(rest)) BY <1>2, <1>6, Firsts DEF IsList
<1> QED BY <1>3, <1>4, <1>5, <1>6 DEF Resuming

\* resume looks at the state, twice, and lets the core go.
LEMMA ResumeStep ==
  ASSUME Types, ResumeOp, HostStep \/ Fails
  PROVE  ResumeOp'
<1>1. todo # << >> /\ op' = op
  BY Dispatch, FailsKeep, HostKeeps
<1>2. << >> \in Seq(Steps)
  BY EmptySeq
<1>3. CASE HostStep
  BY <1>1, <1>2, <1>3, ResumingStep DEF ResumeOp
<1>4. CASE Fails
  <2> SUFFICES ASSUME op.name = "resume" PROVE todo' = << >>
    BY <1>1 DEF ResumeOp
  <2>3. Head(todo)[1] \in {"dhcsr", "resume", "state", "state_again"}
    BY <1>1, <1>2, ResumingHeads DEF ResumeOp
  <2> QED BY <1>4, <2>3, FailsKeep
<1> QED BY <1>3, <1>4

\* A reset goes on, or is over.
LEMMA ResettingStep ==
  ASSUME Types, NEW rest \in Seq(Steps), Resetting(rest), HostStep \/ Fails
  PROVE  \/ Resetting(rest)' \/ todo' = << >>
         \/ todo = AwaitingReset(rest) /\ todo' = rest
<1>1. IsList(AwaitingReset(rest), <<"await_reset">>, rest)
  BY Wraps
<1>2. /\ IsList(Cons(<<"nreset">>, AwaitingReset(rest)), <<"nreset">>, AwaitingReset(rest))
      /\ IsList(Cons(<<"aircr">>, AwaitingReset(rest)), <<"aircr">>, AwaitingReset(rest))
  BY <1>1, Wraps DEF IsList
<1>3. /\ \A k \in 1..5 : IsList(PutsFrom(k, rest), EmulatedPut(k), PutsFrom(k + 1, rest))
      /\ PutsFrom(6, rest) = AwaitingReset(rest)
  BY PutsFromIs
<1>4. IsList(Cons(Halt, PutsFrom(1, rest)), Halt, PutsFrom(1, rest))
  <2>1. PutsFrom(1, rest) \in Seq(Steps)
    BY <1>3 DEF IsList
  <2> QED BY <2>1, Wraps
<1>5. CASE todo = AwaitingReset(rest)
  BY <1>1, <1>5, Onward DEF Resetting
<1>6. CASE todo = Cons(<<"nreset">>, AwaitingReset(rest))
  <2>1. todo' \in {<< >>, AwaitingReset(rest)}
    BY <1>2, <1>6, Onward
  <2> QED BY <2>1 DEF Resetting
<1>7. CASE todo = Cons(<<"aircr">>, AwaitingReset(rest))
  <2>1. todo' \in {<< >>, AwaitingReset(rest)}
    BY <1>2, <1>7, Onward
  <2> QED BY <2>1 DEF Resetting
<1>8. CASE todo = Cons(Halt, PutsFrom(1, rest))
  <2>1. todo' \in {<< >>, PutsFrom(1, rest)}
    BY <1>4, <1>8, Onward, Firsts
  <2> QED BY <2>1 DEF Resetting
<1>9. CASE \E k \in 1..5 : todo = PutsFrom(k, rest)
  <2>1. PICK k \in 1..5 : todo = PutsFrom(k, rest)
    BY <1>9
  <2>2. todo' \in {<< >>, PutsFrom(k + 1, rest)}
    BY <1>3, <2>1, Onward, Firsts
  <2>3. CASE k = 5
    <3>1. k + 1 = 6
      BY <2>3
    <3> QED BY <2>2, <3>1, <1>3 DEF Resetting
  <2>4. CASE k # 5
    <3>1. k + 1 \in 1..5
      BY <2>4
    <3> QED BY <2>2, <3>1 DEF Resetting
  <2> QED BY <2>3, <2>4
<1> QED BY <1>5, <1>6, <1>7, <1>8, <1>9 DEF Resetting

\* reset becomes the list of its reset type.
LEMMA ResetStep ==
  ASSUME Types, op \in Ops \cup {None}, ResetOp, HostStep \/ Fails
  PROVE  ResetOp'
<1>1. todo # << >> /\ op' = op
  BY Dispatch, FailsKeep, HostKeeps
<1>2. << >> \in Seq(Steps)
  BY EmptySeq
<1> SUFFICES ASSUME op.name = "reset"
             PROVE  todo' = << >> \/ Resetting(<< >>)'
  BY <1>1 DEF ResetOp
<1>3. CASE Resetting(<< >>)
  BY <1>2, <1>3, ResettingStep
<1>4. CASE todo = Reset1(op.type, << >>)
  <2>1. PICK type \in ResetTypes : type = op.type
    BY OpsAre DEF None
  <2>2. IsList(todo, <<"reset", type>>, << >>)
    BY <1>2, <1>4, <2>1, Wraps
  <2>3. todo' \in {<< >>, Cons(<<"nreset">>, AwaitingReset(<< >>)),
                   Cons(<<"aircr">>, AwaitingReset(<< >>)), Cons(Halt, PutsFrom(1, << >>))}
    BY <2>2, Onward, Firsts
  <2> QED BY <2>3 DEF Resetting
<1> QED BY <1>1, <1>3, <1>4 DEF ResetOp

-----------------------------------------------------------------------------
(* disconnect.                                                             *)

\* A write of the vector catch.
LEMMA Catches ==
  ASSUME Types, NEW on \in BOOLEAN, NEW rest \in Seq(Steps), todo = Catch(on, rest)
  PROVE  /\ todo # << >> /\ Head(todo)[1] = "write_vc"
         /\ HostStep => todo' = rest /\ (vc' <=> on) /\ token' = token
<1>1. PICK first : first = <<"write_vc", on>> /\ first[1] = "write_vc" /\ (first[2] <=> on)
  BY Firsts
<1>2. IsList(todo, first, rest)
  BY <1>1, Wraps
<1>3. todo # << >> /\ Head(todo) = first /\ Tail(todo) = rest
  BY <1>2 DEF IsList
<1>4. ASSUME HostStep PROVE todo' = rest /\ (vc' <=> on) /\ token' = token
  <2>1. todo' = rest
    BY <1>1, <1>2, <1>4, Advance
  <2>2. token' = token
    BY <1>1, <1>2, <1>4, Onward
  <2>3. WriteVc
    BY <1>1, <1>3, <1>4, Dispatch
  <2>4. vc' <=> on
    BY <1>1, <1>3, <2>3, Zenon DEF WriteVc, Arg
  <2> QED BY <2>1, <2>2, <2>4
<1> QED BY <1>1, <1>3, <1>4

\* disconnect clears the vector catch, resumes and releases the core.
LEMMA DisconnectHost ==
  ASSUME Types, op \in Ops \cup {None}, DisconnectOp, HostStep
  PROVE  DisconnectOp'
<1>1. todo # << >> /\ op' = op
  BY Dispatch, HostKeeps
<1>2. /\ << >> \in Seq(Steps) /\ Releasing \in Seq(Steps)
      /\ IsList(Releasing, <<"release">>, << >>)
  BY LastLists DEF IsList
<1>3. IsList(Cons(GetState, Resume1(Releasing)), GetState, Resume1(Releasing))
  <2>1. Resume1(Releasing) \in Seq(Steps)
    BY <1>2, Wraps DEF IsList
  <2> QED BY <2>1, Wraps
<1>4. Cons(GetState, Resume1(Releasing)) \in Seq(Steps) /\ FALSE \in BOOLEAN
  BY <1>3 DEF IsList
<1> SUFFICES ASSUME op.name = "disconnect"
             PROVE  \/ todo' = << >> /\ (past'.raised \/ ~op.resume \/ Released' \/ owed')
                    \/ /\ op.resume /\ (~vc' \/ owed')
                       /\ Resuming(Releasing)' \/ todo' = Releasing
  BY <1>1 DEF DisconnectOp
<1>5. CASE ~op.resume /\ todo = Catch(FALSE, << >>)
  <2>1. todo' = << >>
    BY <1>2, <1>4, <1>5, Catches, Zenon
  <2> QED BY <1>5, <2>1
<1>6. CASE /\ op.resume /\ todo = Catch(FALSE, Cons(GetState, Resume1(Releasing)))
           /\ token < MaxToken
  <2>1. /\ todo' = Cons(GetState, Resume1(Releasing)) /\ ~vc' /\ token' = token
    BY <1>4, <1>6, Catches, Zenon
  <2> QED BY <1>6, <2>1 DEF Resuming
<1>7. CASE op.resume /\ (~vc \/ owed) /\ Resuming(Releasing)
  <2>1. Resuming(Releasing)' \/ todo' = Releasing
    BY <1>2, <1>7, ResumingStep
  <2>2. vc' = vc
    <3>1. Head(todo)[1] \in {"dhcsr", "resume", "state", "state_again"}
      BY <1>2, <1>7, ResumingHeads
    <3> QED BY <3>1, HostKeeps DEF Doing
  <2>3. owed' = owed
    BY HostKeeps
  <2> QED BY <1>7, <2>1, <2>2, <2>3
<1>8. CASE op.resume /\ (~vc \/ owed) /\ todo = Releasing
  <2>1. todo' = << >>
    BY <1>2, <1>8, Advance
  <2>2. Release /\ owed' = owed
    BY <1>2, <1>8, Dispatch, HostKeeps DEF IsList
  <2>3. Released' \/ owed'
    BY <1>8, <2>2 DEF Release, Released
  <2> QED BY <2>1, <2>3
<1> QED BY <1>1, <1>5, <1>6, <1>7, <1>8 DEF DisconnectOp

\* A disconnect that raises is over.
LEMMA DisconnectFails ==
  ASSUME Types, op \in Ops \cup {None}, DisconnectOp, Fails
  PROVE  DisconnectOp'
<1>1. todo # << >> /\ op' = op
  BY FailsKeep
<1>2. /\ << >> \in Seq(Steps) /\ Releasing \in Seq(Steps)
      /\ IsList(Releasing, <<"release">>, << >>)
  BY LastLists DEF IsList
<1>3. Cons(GetState, Resume1(Releasing)) \in Seq(Steps)
  <2>1. Resume1(Releasing) \in Seq(Steps)
    BY <1>2, Wraps DEF IsList
  <2> QED BY <2>1, Wraps DEF IsList
<1> SUFFICES ASSUME op.name = "disconnect" PROVE todo' = << >> /\ past'.raised
  BY <1>1 DEF DisconnectOp
<1>5. Head(todo)[1] \in {"write_vc", "release", "dhcsr", "resume", "state", "state_again"}
  <2>f. FALSE \in BOOLEAN
    OBVIOUS
  <2>1. CASE todo = Catch(FALSE, << >>)
    <3>1. Head(todo)[1] = "write_vc"
      BY <1>2, <2>f, <2>1, Catches, Zenon
    <3> QED BY <3>1
  <2>2. CASE todo = Catch(FALSE, Cons(GetState, Resume1(Releasing)))
    <3>1. Head(todo)[1] = "write_vc"
      BY <1>3, <2>f, <2>2, Catches, Zenon
    <3> QED BY <3>1
  <2>3. CASE Resuming(Releasing)
    <3>1. Head(todo)[1] \in {"dhcsr", "resume", "state", "state_again"}
      BY <1>2, <2>3, ResumingHeads
    <3> QED BY <3>1
  <2>4. CASE todo = Releasing BY <1>2, <2>4 DEF IsList
  <2> QED BY <1>1, <2>1, <2>2, <2>3, <2>4 DEF DisconnectOp
<1> QED BY <1>5, FailsKeep

\* What was released stays released.
LEMMA DisconnectHardware ==
  ASSUME Types, DisconnectOp, Hardware
  PROVE  DisconnectOp'
<1>1. /\ op' = op /\ todo' = todo /\ token' = token /\ vc' = vc /\ owed' = owed
      /\ past'.raised = past.raised
  BY HardwareKeeps DEF host
<1>2. Released => Released'
  <2> SUFFICES ASSUME Released PROVE Released'
    OBVIOUS
  <2>0. ~vc /\ ~dhcsr.debugen /\ ~dhcsr.mask /\ ~dhcsr.step /\ core # "halted"
        /\ dhcsr \in DhcsrValues
    BY DEF Released, Types, TypeOK, DhcsrValues
  <2> SUFFICES ~vc' /\ ~dhcsr'.debugen /\ ~dhcsr'.mask /\ ~dhcsr'.step /\ core' # "halted"
    BY DEF Released
  <2> USE DEF DhcsrValues
  <2>1. CASE Execute BY <2>0, <2>1 DEF Execute
  <2>2. CASE HitBreakpoint BY <2>0, <2>2 DEF HitBreakpoint
  <2>3. CASE StopRequested BY <2>0, <2>3 DEF StopRequested
  <2>4. CASE SleepOrWake BY <2>0, <2>4 DEF SleepOrWake
  <2>5. CASE TakeReset BY <2>0, <2>5 DEF TakeReset, IntoReset
  <2>6. CASE OutsideReset BY <2>0, <2>6 DEF OutsideReset, IntoReset
  <2>7. CASE LeaveReset BY <2>0, <2>7 DEF LeaveReset
  <2> QED BY <2>1, <2>2, <2>3, <2>4, <2>5, <2>6, <2>7 DEF Hardware
<1>3. Resuming(Releasing)' <=> Resuming(Releasing)
  BY <1>1 DEF Resuming
<1> QED BY <1>1, <1>2, <1>3 DEF DisconnectOp

-----------------------------------------------------------------------------
(* step.                                                                   *)

\* A write of DHCSR.
LEMMA Writes ==
  ASSUME Types, NEW halt \in BOOLEAN, NEW step \in BOOLEAN, NEW mask \in BOOLEAN,
         NEW rest \in Seq(Steps), todo = Cons(Dhcsr(halt, step, mask), rest)
  PROVE  /\ todo # << >> /\ Head(todo)[1] = "dhcsr"
         /\ HostStep =>
              /\ todo' = rest /\ token' = token /\ loc' = loc /\ past' = past
              /\ vc' = vc /\ regs' = regs /\ request' = request
              /\ dhcsr'.halt = halt /\ dhcsr'.step = step /\ dhcsr'.mask = mask
              /\ dhcsr'.debugen
              /\ core' = IF core = "halted" /\ ~halt THEN "running" ELSE core
<1>1. PICK first : /\ first = Dhcsr(halt, step, mask) /\ first[1] = "dhcsr"
                   /\ first[2].halt = halt /\ first[2].step = step
                   /\ first[2].mask = mask /\ first[2].debugen
  BY DEF Dhcsr
<1>2. IsList(todo, first, rest)
  BY <1>1, Wraps
<1>3. todo # << >> /\ Head(todo) = first /\ Tail(todo) = rest
  BY <1>2 DEF IsList
<1>4. HostStep => WriteDhcsr
  BY <1>1, <1>3, Dispatch
<1>5. HostStep => todo' = rest
  BY <1>1, <1>2, Advance
<1> HIDE <1>2
<1>6. HostStep =>
        /\ token' = token /\ loc' = loc /\ past' = past
        /\ vc' = vc /\ regs' = regs /\ request' = request /\ dhcsr' = first[2]
        /\ core' = IF core = "halted" /\ ~first[2].halt THEN "running" ELSE core
  BY <1>3, <1>4 DEF WriteDhcsr, Arg, history
<1> QED BY <1>1, <1>3, <1>5, <1>6

\* The lists of step, which its actions leave what they are.
LEMMA StepLists ==
  ASSUME Types, op \in Ops, op.name = "step"
  PROVE  /\ Masking \in BOOLEAN /\ StepMask \in BOOLEAN
         /\ IsList(Counting, <<"count">>, << >>)
         /\ Unmasking \in Seq(Steps)
         /\ IsList(AwaitingStep, <<"await_step">>, IF Masking THEN Unmasking ELSE Counting)
         /\ Going \in Seq(Steps) /\ Mask1 \in Seq(Steps)
         /\ Mask1 # Unmasking
<1>1. Masking \in BOOLEAN /\ StepMask \in BOOLEAN
  BY DEF Masking, StepMask
<1>2. IsList(Counting, <<"count">>, << >>)
  BY LastLists
<1>3. Unmasking \in Seq(Steps) /\ Counting \in Seq(Steps)
  BY <1>2, Wraps DEF IsList, Unmasking
<1>4. IsList(AwaitingStep, <<"await_step">>, IF Masking THEN Unmasking ELSE Counting)
  <2>1. PICK rest \in Seq(Steps) : rest = IF Masking THEN Unmasking ELSE Counting
    BY <1>3
  <2>2. IsList(Cons(<<"await_step">>, rest), <<"await_step">>, rest)
    BY Wraps
  <2> QED BY <2>1, <2>2, Zenon DEF AwaitingStep
<1>5. Going \in Seq(Steps)
  <2>1. AwaitingStep \in Seq(Steps)
    BY <1>4 DEF IsList
  <2>2. TRUE \in BOOLEAN /\ FALSE \in BOOLEAN
    OBVIOUS
  <2> QED BY <1>1, <2>1, <2>2, Wraps, Zenon DEF Going, IsList
<1>6. Mask1 \in Seq(Steps) /\ Head(Mask1) = Dhcsr(TRUE, FALSE, TRUE)
  <2>1. TRUE \in BOOLEAN /\ FALSE \in BOOLEAN
    OBVIOUS
  <2> QED BY <1>5, <2>1, Wraps, Zenon DEF Mask1, IsList
<1>7. Head(Unmasking) = Dhcsr(TRUE, FALSE, FALSE)
  BY <1>3, Wraps, Zenon DEF Unmasking, IsList, Halt
<1>8. Mask1 # Unmasking
  BY <1>6, <1>7 DEF Dhcsr
<1> QED BY <1>1, <1>2, <1>3, <1>4, <1>5, <1>6, <1>8

\* step masks, goes, waits and unmasks, in this order; what it leaves is the mask it found.
LEMMA StepHost ==
  ASSUME Types, op \in Ops \cup {None}, StepOp, StepBit, HostStep
  PROVE  StepOp'
<1>1. /\ todo # << >> /\ op' = op /\ faults' = faults /\ outside' = outside
      /\ past'.mask = past.mask /\ (past.disturbed => past'.disturbed)
  BY Dispatch, HostKeeps
<1> SUFFICES ASSUME op.name = "step" PROVE StepOp'
  BY <1>1 DEF StepOp
<1>o. op \in Ops /\ op.disable \in BOOLEAN
  BY OpsAre DEF None
<1>b. past.mask \in BOOLEAN /\ dhcsr.mask \in BOOLEAN
  BY DEF Types, Pasts, TypeOK
<1>m. /\ Masking' = Masking /\ StepMask' = StepMask
      /\ AwaitingStep' = AwaitingStep /\ Going' = Going /\ Mask1' = Mask1
  BY <1>1, Zenon DEF Masking, StepMask, AwaitingStep, Going, Mask1
<1>l. /\ Masking \in BOOLEAN /\ StepMask \in BOOLEAN
      /\ IsList(Counting, <<"count">>, << >>)
      /\ Unmasking \in Seq(Steps)
      /\ IsList(AwaitingStep, <<"await_step">>, IF Masking THEN Unmasking ELSE Counting)
      /\ Going \in Seq(Steps) /\ Mask1 \in Seq(Steps)
      /\ Mask1 # Unmasking
  BY <1>o, StepLists
<1>k. Masking => StepMask /\ ~past.mask
  BY DEF Masking, StepMask
<1>n. ~Masking => (StepMask <=> past.mask)
  BY <1>o, <1>b DEF Masking, StepMask
<1>p. past.mask => faults > 0
  BY DEF StepOp
<1>e. Excused => Excused'
  BY <1>1 DEF Excused
<1>c. TRUE \in BOOLEAN /\ FALSE \in BOOLEAN /\ << >> \in Seq(Steps)
  BY EmptySeq
\* Counting.
<1>2. CASE todo = Counting /\ (dhcsr.mask <=> past.mask)
  <2>1. Head(todo)[1] = "count"
    BY <1>2, <1>l DEF IsList
  <2>2. dhcsr' = dhcsr
    BY <2>1, HostKeeps DEF Doing
  <2>3. IsList(todo, <<"count">>, << >>)
    BY <1>2, <1>l, Zenon
  <2>4. todo' = << >>
    BY <2>3, Advance
  <2> QED BY <1>1, <1>2, <1>b, <1>p, <2>2, <2>4 DEF StepOp
\* Unmasking.
<1>3. CASE todo = Unmasking /\ Masking /\ token < MaxToken
  <2>1. todo = Cons(Dhcsr(TRUE, FALSE, FALSE), Counting) /\ Counting \in Seq(Steps)
    BY <1>3, <1>l, Zenon DEF Unmasking, Halt, IsList
  <2>2. todo' = Counting /\ token' = token /\ dhcsr'.mask = FALSE
    BY <1>c, <2>1, Writes, Zenon
  <2> QED BY <1>1, <1>3, <1>k, <1>b, <1>p, <2>2 DEF StepOp
\* The wait.
<1>4. CASE todo = AwaitingStep /\ (dhcsr.mask <=> StepMask) /\ token < MaxToken
  <2>1. Head(todo)[1] = "await_step"
    BY <1>4, <1>l DEF IsList
  <2>2. dhcsr' = dhcsr /\ token' = token
    BY <2>1, HostKeeps DEF Doing
  <2>3. PICK rest : rest = IF Masking THEN Unmasking ELSE Counting
    OBVIOUS
  <2>4. IsList(todo, <<"await_step">>, rest)
    BY <1>4, <1>l, <2>3, Zenon
  <2>5. todo' = AwaitingStep \/ (todo' = rest /\ dhcsr.halt)
    <3>1. AwaitStep
      BY <2>1, Dispatch
    <3>2. todo' \in {todo, rest}
      BY <2>4, Advance
    <3>3. ~dhcsr.halt => todo' = todo
      BY <3>1 DEF AwaitStep
    <3> QED BY <1>4, <3>2, <3>3
  <2>6. CASE todo' = AwaitingStep
    <3>1. todo' = AwaitingStep' /\ dhcsr'.mask = StepMask' /\ token' < MaxToken
      BY <1>4, <1>m, <1>l, <1>b, <2>2, <2>6
    <3>2. past'.mask => faults' > 0
      BY <1>1, <1>p
    <3> QED BY <3>1, <3>2 DEF StepOp
  <2>7. CASE todo' = rest /\ dhcsr.halt /\ Masking
    BY <1>1, <1>4, <1>m, <1>p, <1>k, <2>2, <2>3, <2>7 DEF StepOp
  <2>8. CASE todo' = rest /\ ~Masking
    BY <1>1, <1>4, <1>m, <1>p, <1>n, <1>b, <2>2, <2>3, <2>8 DEF StepOp
  <2> QED BY <2>5, <2>6, <2>7, <2>8
\* The write that steps.
<1>5. CASE todo = Going /\ token < MaxToken
  <2>1. todo = Cons(Dhcsr(FALSE, TRUE, StepMask), AwaitingStep) /\ AwaitingStep \in Seq(Steps)
    BY <1>5, <1>l, Zenon DEF Going, IsList
  <2>2. todo' = AwaitingStep /\ token' = token /\ (dhcsr'.mask <=> StepMask)
    BY <1>c, <1>l, <2>1, Writes, Zenon
  <2> QED BY <1>1, <1>5, <1>m, <1>p, <2>2 DEF StepOp
\* Masking.
<1>6. CASE todo = Mask1 /\ Masking /\ token < MaxToken
  <2>1. todo = Cons(Dhcsr(TRUE, FALSE, TRUE), Going) /\ Going \in Seq(Steps)
    BY <1>6, <1>l, Zenon DEF Mask1
  <2>2. todo' = Going /\ token' = token /\ dhcsr'.mask
    BY <1>c, <2>1, Writes, Zenon
  <2> QED BY <1>1, <1>6, <1>k, <1>m, <1>p, <2>2 DEF StepOp
\* The beginning.
<1>7. CASE todo = Step1 /\ (dhcsr.mask <=> past.mask) /\ token < MaxToken
  <2>1. Head(todo)[1] = "step" /\ Tail(todo) = << >>
    BY <1>7, LastLists DEF IsList
  <2>2. BeginStep
    BY <2>1, Dispatch
  <2>3. dhcsr' = dhcsr /\ token' = token
    BY <2>1, HostKeeps DEF Doing
  <2>4. CASE ~(dhcsr.halt \/ dhcsr.step)
    <3>1. todo' = << >>
      BY <1>c, <2>1, <2>2, <2>4, ConcatEmptySeq, Zenon DEF BeginStep, Then
    <3> QED BY <1>1, <1>7, <1>b, <1>p, <2>3, <3>1 DEF StepOp
  <2>5. CASE dhcsr.halt \/ dhcsr.step
    <3>1. todo' = StepProgram(dhcsr.mask, op.disable) \o << >>
      BY <2>1, <2>2, <2>5, Zenon DEF BeginStep, Then
    <3>2. dhcsr.mask = past.mask
      BY <1>7, <1>b
    <3>3. todo' = IF Masking THEN Mask1 ELSE Going
      <4>1. PICK masked \in BOOLEAN : masked = past.mask
        BY <1>b
      <4>2. PICK disable \in BOOLEAN : disable = op.disable
        BY <1>o
      <4>3. todo' = StepProgram(masked, disable) \o << >>
        BY <3>1, <3>2, <4>1, <4>2, Zenon
      <4>4. CASE Masking
        <5>1. ~masked /\ disable
          BY <4>1, <4>2, <4>4, Zenon DEF Masking
        <5>2. todo' = Cons(Dhcsr(TRUE, FALSE, TRUE),
                           Cons(Dhcsr(FALSE, TRUE, masked \/ disable),
                                Cons(<<"await_step">>, Unmasking)))
          BY <4>3, <5>1, StepProgramIs, Zenon
        <5> QED BY <4>1, <4>2, <4>4, <5>2, Zenon DEF Mask1, Going, AwaitingStep, StepMask
      <4>5. CASE ~Masking
        <5>1. ~(~masked /\ disable)
          BY <4>1, <4>2, <4>5, Zenon DEF Masking
        <5>2. todo' = Cons(Dhcsr(FALSE, TRUE, masked \/ disable),
                           Cons(<<"await_step">>, Counting))
          BY <4>3, <5>1, StepProgramIs, Zenon
        <5> QED BY <4>1, <4>2, <4>5, <5>2, Zenon DEF Going, AwaitingStep, StepMask
      <4> QED BY <4>4, <4>5
    <3>4. CASE Masking
      <4>1. todo' = Mask1 /\ ~dhcsr'.mask
        BY <1>7, <1>k, <2>3, <3>3, <3>4
      <4>2. dhcsr.halt \/ Excused
        <5>1. todo # AwaitingStep
          BY <2>1, <1>l DEF IsList
        <5> QED BY <2>5, <5>1 DEF StepBit, Excused
      <4> QED BY <1>1, <1>e, <1>l, <1>m, <1>p, <1>7, <2>3, <3>4, <4>1, <4>2 DEF StepOp
    <3>5. CASE ~Masking
      <4>1. todo' = Going /\ (dhcsr'.mask <=> StepMask)
        BY <1>7, <1>n, <2>3, <3>3, <3>5
      <4> QED BY <1>1, <1>m, <1>p, <1>7, <2>3, <4>1 DEF StepOp
    <3> QED BY <3>4, <3>5
  <2> QED BY <2>4, <2>5
<1> QED BY <1>1, <1>2, <1>3, <1>4, <1>5, <1>6, <1>7 DEF StepOp

\* A failing access ends step with the mask as it is, and is counted.
LEMMA StepFails ==
  ASSUME Types, op \in Ops \cup {None}, StepOp, Fails
  PROVE  StepOp'
<1>1. /\ todo # << >> /\ op' = op /\ past'.mask = past.mask
      /\ (faults > 0 => faults' > 0)
  BY FailsKeep
<1> SUFFICES ASSUME op.name = "step" PROVE StepOp'
  BY <1>1 DEF StepOp
<1>o. op \in Ops
  BY DEF None
<1>p. past'.mask => faults' > 0
  BY <1>1 DEF StepOp
<1>2. Head(todo)[1] \in {"step", "count", "await_step", "dhcsr"}
  <2>1. /\ IsList(Counting, <<"count">>, << >>) /\ IsList(Step1, <<"step">>, << >>)
        /\ IsList(AwaitingStep, <<"await_step">>, IF Masking THEN Unmasking ELSE Counting)
    BY <1>o, StepLists, LastLists
  <2>2. /\ Head(Counting)[1] = "count" /\ Head(Step1)[1] = "step"
        /\ Head(AwaitingStep)[1] = "await_step"
    BY <2>1 DEF IsList
  <2>3. TRUE \in BOOLEAN /\ FALSE \in BOOLEAN /\ StepMask \in BOOLEAN
    BY <1>o, StepLists
  <2>4. /\ Counting \in Seq(Steps) /\ AwaitingStep \in Seq(Steps) /\ Going \in Seq(Steps)
    BY <1>o, <2>1, StepLists DEF IsList
  <2>5. CASE todo = Unmasking
    <3>1. todo = Cons(Dhcsr(TRUE, FALSE, FALSE), Counting)
      BY <2>5, Zenon DEF Unmasking, Halt
    <3> QED BY <2>3, <2>4, <3>1, Writes, Zenon
  <2>6. CASE todo = Going
    <3>1. todo = Cons(Dhcsr(FALSE, TRUE, StepMask), AwaitingStep)
      BY <2>6, Zenon DEF Going
    <3> QED BY <2>3, <2>4, <3>1, Writes, Zenon
  <2>7. CASE todo = Mask1
    <3>1. todo = Cons(Dhcsr(TRUE, FALSE, TRUE), Going)
      BY <2>7, Zenon DEF Mask1
    <3> QED BY <2>3, <2>4, <3>1, Writes, Zenon
  <2> QED BY <1>1, <2>2, <2>5, <2>6, <2>7 DEF StepOp
<1>3. AccessFails
  BY <1>2 DEF Fails, NotReady, WriteAircrFails, AwaitTimesOut, Doing
<1>4. todo' = << >> /\ past'.raised /\ faults' > 0
  BY <1>2, <1>3, FailsKeep
<1> QED BY <1>p, <1>4 DEF StepOp

\* C_HALT falls by a reset, or when a write lets the core go.
LEMMA HaltFalls ==
  ASSUME Types, Asked, Hardware, dhcsr.halt, ~dhcsr'.halt,
         todo = << >> \/ Head(todo)[1] # "await_reset"
  PROVE  Excused'
<1>1. dhcsr \in DhcsrValues /\ past \in Pasts /\ outside \in Nat
  BY DEF Types, TypeOK, DhcsrValues
<1>2. request # "asked"
  BY DEF Asked
<1> USE DEF DhcsrValues, Pasts
<1>3. CASE Execute BY <1>1, <1>3 DEF Execute
<1>4. CASE HitBreakpoint BY <1>1, <1>4 DEF HitBreakpoint
<1>5. CASE StopRequested BY <1>1, <1>5 DEF StopRequested
<1>6. CASE SleepOrWake BY <1>1, <1>6 DEF SleepOrWake
<1>7. CASE TakeReset
  <2>1. past'.disturbed
    BY <1>1, <1>2, <1>7 DEF TakeReset, Types, TypeOK
  <2> QED BY <2>1 DEF Excused
<1>8. CASE OutsideReset
  <2>1. outside' > 0
    BY <1>1, <1>8 DEF OutsideReset
  <2> QED BY <2>1 DEF Excused
<1>9. CASE LeaveReset BY <1>1, <1>9 DEF LeaveReset
<1> QED BY <1>3, <1>4, <1>5, <1>6, <1>7, <1>8, <1>9 DEF Hardware

\* What the core does by itself leaves the mask alone.
LEMMA StepHardware ==
  ASSUME Types, op \in Ops \cup {None}, Asked, StepOp, Hardware
  PROVE  StepOp'
<1>1. /\ op' = op /\ todo' = todo /\ token' = token /\ faults' = faults
      /\ dhcsr'.mask = dhcsr.mask
      /\ past'.raised = past.raised /\ past'.mask = past.mask
      /\ (past.disturbed => past'.disturbed) /\ (outside > 0 => outside' > 0)
  BY HardwareKeeps DEF host
<1> SUFFICES ASSUME op.name = "step" PROVE StepOp'
  BY <1>1 DEF StepOp
<1>m. /\ Masking' = Masking /\ StepMask' = StepMask
      /\ AwaitingStep' = AwaitingStep /\ Going' = Going /\ Mask1' = Mask1
  BY <1>1, Zenon DEF Masking, StepMask, AwaitingStep, Going, Mask1
<1>2. Excused => Excused'
  BY <1>1 DEF Excused
<1>3. CASE todo \in {Mask1, Unmasking} /\ Masking
  <2>1. Head(todo)[1] = "dhcsr" /\ todo # << >>
    <3>o. op \in Ops
      BY DEF None
    <3>1. TRUE \in BOOLEAN /\ FALSE \in BOOLEAN /\ Going \in Seq(Steps) /\ Counting \in Seq(Steps)
      BY <3>o, StepLists DEF IsList
    <3>2. CASE todo = Mask1
      BY <3>1, <3>2, Writes, Zenon DEF Mask1
    <3>3. CASE todo = Unmasking
      BY <3>1, <3>3, Writes, Zenon DEF Unmasking, Halt
    <3> QED BY <1>3, <3>2, <3>3
  <2>2. dhcsr.halt \/ Excused => dhcsr'.halt \/ Excused'
    BY <1>2, <2>1, HaltFalls
  <2> QED BY <1>1, <1>m, <1>3, <2>2 DEF StepOp
<1>4. CASE ~(todo \in {Mask1, Unmasking} /\ Masking)
  BY <1>1, <1>m, <1>4 DEF StepOp
<1> QED BY <1>3, <1>4

-----------------------------------------------------------------------------
(* The first step left, by operation.                                      *)

\* How a list begins.
LEMMA Begins ==
  ASSUME NEW list, NEW first, NEW rest, IsList(list, first, rest)
  PROVE  list \in Seq(Steps) /\ Head(list) = first /\ Head(list)[1] = first[1]
BY DEF IsList

\* The first steps of the lists that have a rest behind them.
LEMMA WrapsBegin ==
  ASSUME NEW rest \in Seq(Steps)
  PROVE  /\ Checked(rest) \in Seq(Steps) /\ Head(Checked(rest))[1] = "check_cache"
         /\ Head(Cons(GetState, rest))[1] = "state"
         /\ Cons(GetState, rest) \in Seq(Steps) /\ Resume1(rest) \in Seq(Steps)
         /\ Head(Cons(<<"state_again">>, rest))[1] = "state_again"
         /\ Head(Cons(<<"read_demcr">>, rest))[1] = "read_demcr"
         /\ Head(Cons(Halt, rest)) = Halt
         /\ \A on \in BOOLEAN : Catch(on, rest) \in Seq(Steps)
<1>1. /\ IsList(Checked(rest), <<"check_cache">>, rest)
      /\ IsList(Cons(GetState, rest), GetState, rest)
      /\ IsList(Resume1(rest), <<"resume">>, rest)
      /\ IsList(Cons(<<"state_again">>, rest), <<"state_again">>, rest)
      /\ IsList(Cons(<<"read_demcr">>, rest), <<"read_demcr">>, rest)
      /\ IsList(Cons(Halt, rest), Halt, rest)
  BY Wraps
<1>2. \A on \in BOOLEAN : IsList(Catch(on, rest), <<"write_vc", on>>, rest)
  BY Wraps
<1>3. \A on \in BOOLEAN : Catch(on, rest) \in Seq(Steps)
  BY <1>2, Begins, Zenon
<1>4. /\ Checked(rest) \in Seq(Steps) /\ Head(Checked(rest)) = <<"check_cache">>
      /\ Head(Cons(GetState, rest)) = GetState /\ Cons(GetState, rest) \in Seq(Steps)
      /\ Resume1(rest) \in Seq(Steps)
      /\ Head(Cons(<<"state_again">>, rest)) = <<"state_again">>
      /\ Head(Cons(<<"read_demcr">>, rest)) = <<"read_demcr">>
      /\ Head(Cons(Halt, rest)) = Halt
  BY <1>1, Begins, Zenon
<1> QED BY <1>3, <1>4, Firsts

\* The first steps of a resume, which counts one run only.
LEMMA ResumingFirst ==
  ASSUME NEW rest \in Seq(Steps), Resuming(rest)
  PROVE  /\ todo # << >>
         /\ \/ Head(todo)[1] \in {"state", "state_again", "resume"} /\ token < MaxToken
            \/ Head(todo) = Go
<1>1. /\ IsList(Resume1(rest), <<"resume">>, rest)
      /\ IsList(Cons(Go, rest), Go, rest)
  BY Wraps
<1>2. /\ IsList(Cons(<<"state_again">>, Resume1(rest)), <<"state_again">>, Resume1(rest))
      /\ IsList(Cons(GetState, Resume1(rest)), GetState, Resume1(rest))
  BY <1>1, Wraps DEF IsList
<1>3. CASE todo = Resume1(rest) /\ token < MaxToken BY <1>1, <1>3 DEF IsList
<1>4. CASE todo = Cons(Go, rest) BY <1>1, <1>4, Firsts DEF IsList
<1>5. CASE todo = Cons(<<"state_again">>, Resume1(rest)) /\ token < MaxToken
  BY <1>2, <1>5 DEF IsList
<1>6. CASE todo = Cons(GetState, Resume1(rest)) /\ token < MaxToken
  BY <1>2, <1>6, Firsts DEF IsList
<1> QED BY <1>3, <1>4, <1>5, <1>6 DEF Resuming

\* The first steps of a reset: none of them writes the mask.
LEMMA ResettingFirst ==
  ASSUME NEW rest \in Seq(Steps), Resetting(rest)
  PROVE  /\ todo # << >>
         /\ \/ Head(todo) = Halt
            \/ Head(todo) \in {<<"nreset">>, <<"aircr">>, <<"await_reset">>}
            \/ Head(todo)[1] = "put"
<1>1. IsList(AwaitingReset(rest), <<"await_reset">>, rest)
  BY Wraps
<1>2. /\ IsList(Cons(<<"nreset">>, AwaitingReset(rest)), <<"nreset">>, AwaitingReset(rest))
      /\ IsList(Cons(<<"aircr">>, AwaitingReset(rest)), <<"aircr">>, AwaitingReset(rest))
  BY <1>1, Wraps DEF IsList
<1>3. \A k \in 1..5 : IsList(PutsFrom(k, rest), EmulatedPut(k), PutsFrom(k + 1, rest))
  BY PutsFromIs
<1>4. IsList(Cons(Halt, PutsFrom(1, rest)), Halt, PutsFrom(1, rest))
  <2>1. PutsFrom(1, rest) \in Seq(Steps)
    BY <1>3 DEF IsList
  <2> QED BY <2>1, Wraps
<1>5. CASE todo = AwaitingReset(rest) BY <1>1, <1>5 DEF IsList
<1>6. CASE todo = Cons(<<"nreset">>, AwaitingReset(rest)) BY <1>2, <1>6 DEF IsList
<1>7. CASE todo = Cons(<<"aircr">>, AwaitingReset(rest)) BY <1>2, <1>7 DEF IsList
<1>8. CASE todo = Cons(Halt, PutsFrom(1, rest)) BY <1>4, <1>8 DEF IsList
<1>9. CASE \E k \in 1..5 : todo = PutsFrom(k, rest)
  <2>1. PICK k \in 1..5 : todo = PutsFrom(k, rest)
    BY <1>9
  <2>2. todo # << >> /\ Head(todo) = EmulatedPut(k)
    BY <1>3, <2>1 DEF IsList
  <2> QED BY <2>2, Firsts
<1> QED BY <1>5, <1>6, <1>7, <1>8, <1>9 DEF Resetting

\* The lists of reset_and_halt from the reset on.
LEMMA LooksAre ==
  /\ IsList(Restoring, <<"restore_vc">>, << >>)
  /\ IsList(Thumbing, <<"thumb">>, Restoring)
  /\ IsList(AwaitingHalt, <<"await_halt">>, Thumbing)
  /\ IsList(Looking, GetState, AwaitingHalt)
  /\ IsList(LookingAgain, <<"state_again">>, AwaitingHalt)
<1>1. IsList(Restoring, <<"restore_vc">>, << >>)
  BY LastLists
<1>2. IsList(Thumbing, <<"thumb">>, Restoring)
  BY <1>1, Wraps DEF IsList, Thumbing
<1>3. IsList(AwaitingHalt, <<"await_halt">>, Thumbing)
  BY <1>2, Wraps DEF IsList, AwaitingHalt
<1>4. IsList(Looking, GetState, AwaitingHalt)
  BY <1>3, Wraps DEF IsList, Looking
<1>5. IsList(LookingAgain, <<"state_again">>, AwaitingHalt)
  BY <1>3, Wraps DEF IsList, LookingAgain
<1> QED BY <1>1, <1>2, <1>3, <1>4, <1>5

\* And before it.
LEMMA HaltLists ==
  ASSUME NEW type \in ResetTypes
  PROVE  /\ IsList(Restoring, <<"restore_vc">>, << >>)
         /\ IsList(Thumbing, <<"thumb">>, Restoring)
         /\ IsList(AwaitingHalt, <<"await_halt">>, Thumbing)
         /\ IsList(Looking, GetState, AwaitingHalt)
         /\ IsList(LookingAgain, <<"state_again">>, AwaitingHalt)
         /\ IsList(Reset1(type, Looking), <<"reset", type>>, Looking)
         /\ Catching(type) \in Seq(Steps) /\ Catching(type) = Catch(TRUE, Reset1(type, Looking))
         /\ IsList(Reading(type), <<"read_demcr">>, Catching(type))
         /\ IsList(Cons(Halt, Reading(type)), Halt, Reading(type))
<1>1. /\ IsList(Restoring, <<"restore_vc">>, << >>)
      /\ IsList(Thumbing, <<"thumb">>, Restoring)
      /\ IsList(AwaitingHalt, <<"await_halt">>, Thumbing)
      /\ IsList(Looking, GetState, AwaitingHalt)
      /\ IsList(LookingAgain, <<"state_again">>, AwaitingHalt)
  BY LooksAre
<1>6. IsList(Reset1(type, Looking), <<"reset", type>>, Looking)
  <2>1. Looking \in Seq(Steps)
    BY <1>1, Zenon DEF IsList
  <2> QED BY <2>1, Wraps, Zenon
<1>7. Catching(type) \in Seq(Steps) /\ Catching(type) = Catch(TRUE, Reset1(type, Looking))
  <2>1. TRUE \in BOOLEAN /\ Reset1(type, Looking) \in Seq(Steps)
    BY <1>6 DEF IsList
  <2> QED BY <2>1, Wraps, Zenon DEF Catching, IsList
<1>8. IsList(Reading(type), <<"read_demcr">>, Catching(type))
  BY <1>7, Wraps, Zenon DEF Reading
<1>9. IsList(Cons(Halt, Reading(type)), Halt, Reading(type))
  <2>1. Reading(type) \in Seq(Steps)
    BY <1>8 DEF IsList
  <2> QED BY <2>1, Wraps
<1> QED BY <1>1, <1>6, <1>7, <1>8, <1>9, Zenon

\* The first steps of reset_and_halt: none of them writes the mask.
LEMMA ResetHaltFirst ==
  ASSUME Types, op \in Ops, op.name = "reset_and_halt", ResetHaltOp, todo # << >>
  PROVE  \/ Head(todo) = Halt
         \/ Head(todo) \in {<<"nreset">>, <<"aircr">>, <<"await_reset">>}
         \/ Head(todo)[1] \in {"put", "read_demcr", "write_vc", "state", "state_again",
                               "await_halt", "thumb", "restore_vc"}
         \/ Head(todo)[1] = "reset" /\ token < MaxToken
<1>1. PICK type \in ResetTypes : type = op.type
  BY OpsAre
<1>2. /\ Head(Restoring)[1] = "restore_vc"
      /\ Head(Thumbing)[1] = "thumb" /\ Head(AwaitingHalt)[1] = "await_halt"
      /\ Head(Looking)[1] = "state" /\ Head(LookingAgain)[1] = "state_again"
      /\ Looking \in Seq(Steps)
  <2>1. /\ IsList(Restoring, <<"restore_vc">>, << >>)
        /\ IsList(Thumbing, <<"thumb">>, Restoring)
        /\ IsList(AwaitingHalt, <<"await_halt">>, Thumbing)
        /\ IsList(Looking, GetState, AwaitingHalt)
        /\ IsList(LookingAgain, <<"state_again">>, AwaitingHalt)
    BY HaltLists
  <2> QED BY <2>1, Firsts DEF IsList
<1>3. /\ Head(Reset1(type, Looking))[1] = "reset"
      /\ Head(Reading(type))[1] = "read_demcr" /\ Head(Cons(Halt, Reading(type))) = Halt
      /\ Catching(type) = Catch(TRUE, Reset1(type, Looking))
      /\ Reset1(type, Looking) \in Seq(Steps)
  <2>1. /\ IsList(Reset1(type, Looking), <<"reset", type>>, Looking)
        /\ Catching(type) = Catch(TRUE, Reset1(type, Looking))
        /\ IsList(Reading(type), <<"read_demcr">>, Catching(type))
        /\ IsList(Cons(Halt, Reading(type)), Halt, Reading(type))
    BY HaltLists, Zenon
  <2>2. /\ Reset1(type, Looking) \in Seq(Steps) /\ Head(Reset1(type, Looking)) = <<"reset", type>>
        /\ Head(Reading(type)) = <<"read_demcr">> /\ Head(Cons(Halt, Reading(type))) = Halt
    BY <2>1 DEF IsList
  <2>3. Head(Reset1(type, Looking))[1] = "reset" /\ Head(Reading(type))[1] = "read_demcr"
    BY <2>2
  <2> QED BY <2>1, <2>2, <2>3, Zenon
<1>4. CASE todo = Catching(type)
  <2>1. TRUE \in BOOLEAN
    OBVIOUS
  <2>2. Head(todo)[1] = "write_vc"
    BY <1>3, <1>4, <2>1, Catches, Zenon
  <2> QED BY <2>2
<1>5. CASE Resetting(Looking)
  BY <1>2, <1>5, ResettingFirst
<1> QED BY <1>1, <1>2, <1>3, <1>4, <1>5 DEF ResetHaltOp, Over, Before, During, After, Finishing

\* The first step left of each operation.
LEMMA Kinds ==
  ASSUME Types, op \in Ops \cup {None}, Where, todo # << >>
  PROVE  /\ op \in Ops
         /\ op.name = "halt" => Head(todo) = Halt
         /\ op.name = "set_vector_catch" => Head(todo)[1] \in {"write_vc", "read_demcr"}
         /\ op.name = "read" => Head(todo)[1] \in {"state", "state_again", "check_cache", "fill"}
         /\ op.name = "write" => Head(todo)[1] \in {"state", "state_again", "check_cache",
                                                    "enter", "read_first", "put"}
         /\ op.name \in {"resume", "disconnect"} =>
              \/ Head(todo)[1] \in {"state", "state_again", "resume"} /\ token < MaxToken
              \/ Head(todo)[1] \in {"write_vc", "release"}
              \/ Head(todo) = Go
         /\ op.name = "step" =>
              token < MaxToken /\ Head(todo)[1] \in {"step", "count", "await_step", "dhcsr"}
         /\ op.name \in {"reset", "reset_and_halt"} =>
              \/ Head(todo) = Halt
              \/ Head(todo) \in {<<"nreset">>, <<"aircr">>, <<"await_reset">>}
              \/ Head(todo)[1] \in {"put", "read_demcr", "write_vc", "state", "state_again",
                                    "await_halt", "thumb", "restore_vc"}
              \/ Head(todo)[1] = "reset" /\ token < MaxToken
<1>0. op \in Ops
  BY DEF Where
<1>e. << >> \in Seq(Steps) /\ TRUE \in BOOLEAN /\ FALSE \in BOOLEAN
  BY EmptySeq
<1>1. op.name = "halt" => Head(todo) = Halt
  <2>1. Head(Cons(Halt, << >>)) = Halt
    BY <1>e, WrapsBegin
  <2> QED BY <2>1 DEF Where, HaltOp
<1>2. op.name = "set_vector_catch" => Head(todo)[1] \in {"write_vc", "read_demcr"}
  <2> SUFFICES ASSUME op.name = "set_vector_catch"
               PROVE  Head(todo)[1] \in {"write_vc", "read_demcr"}
    OBVIOUS
  <2>1. PICK on \in BOOLEAN : on = op.on
    BY <1>0, OpsAre
  <2>2. Catch(on, << >>) \in Seq(Steps)
    BY <1>e, WrapsBegin
  <2>3. Head(Cons(<<"read_demcr">>, Catch(on, << >>)))[1] = "read_demcr"
    BY <2>2, WrapsBegin
  <2>4. CASE todo = Catch(on, << >>)
    <3>1. Head(todo)[1] = "write_vc"
      BY <1>e, <2>4, Catches
    <3> QED BY <3>1
  <2> QED BY <2>1, <2>3, <2>4 DEF Where, CatchOp
<1>3. op.name = "read" => Head(todo)[1] \in {"state", "state_again", "check_cache", "fill"}
  <2>1. Fill1 \in Seq(Steps) /\ Head(Fill1)[1] = "fill"
    BY LastLists DEF IsList
  <2>2. Checked(Fill1) \in Seq(Steps) /\ Head(Checked(Fill1))[1] = "check_cache"
    BY <2>1, WrapsBegin
  <2>3. /\ Head(Cons(GetState, Checked(Fill1)))[1] = "state"
        /\ Head(Cons(<<"state_again">>, Checked(Fill1)))[1] = "state_again"
    BY <2>2, WrapsBegin
  <2> QED BY <2>1, <2>2, <2>3 DEF Where, ReadOp
<1>4. op.name = "write" => Head(todo)[1] \in {"state", "state_again", "check_cache",
                                              "enter", "read_first", "put"}
  <2> SUFFICES ASSUME op.name = "write"
               PROVE  Head(todo)[1] \in {"state", "state_again", "check_cache",
                                         "enter", "read_first", "put"}
    OBVIOUS
  <2>1. Enter1 \in Seq(Steps) /\ Head(Enter1)[1] = "enter"
    BY LastLists DEF IsList
  <2>2. Checked(Enter1) \in Seq(Steps) /\ Head(Checked(Enter1))[1] = "check_cache"
    BY <2>1, WrapsBegin
  <2>3. /\ Head(Cons(GetState, Checked(Enter1)))[1] = "state"
        /\ Head(Cons(<<"state_again">>, Checked(Enter1)))[1] = "state_again"
    BY <2>2, WrapsBegin
  <2>4. CASE todo \in Seq(TransferSteps(op))
    <3>1. PICK o : o = op
      OBVIOUS
    <3>2. \A s \in TransferSteps(op) : s[1] \in {"read_first", "put"}
      BY <1>0, <3>1, OpsAre, TransferStepsAre
    <3>3. Head(todo) \in TransferSteps(op)
      BY <2>4
    <3> QED BY <3>2, <3>3
  <2>5. CASE todo \in {Cons(GetState, Checked(Enter1)),
                       Cons(<<"state_again">>, Checked(Enter1)), Checked(Enter1), Enter1}
    BY <2>1, <2>2, <2>3, <2>5
  <2> QED BY <2>4, <2>5 DEF Where, WriteOp
<1>5. op.name = "resume" =>
        \/ Head(todo)[1] \in {"state", "state_again", "resume"} /\ token < MaxToken
        \/ Head(todo) = Go
  BY <1>e, ResumingFirst DEF Where, ResumeOp
<1>6. op.name = "disconnect" =>
        \/ Head(todo)[1] \in {"state", "state_again", "resume"} /\ token < MaxToken
        \/ Head(todo)[1] \in {"write_vc", "release"}
        \/ Head(todo) = Go
  <2> SUFFICES ASSUME op.name = "disconnect"
               PROVE  \/ Head(todo)[1] \in {"state", "state_again", "resume"} /\ token < MaxToken
                      \/ Head(todo)[1] \in {"write_vc", "release"}
                      \/ Head(todo) = Go
    OBVIOUS
  <2>1. Releasing \in Seq(Steps) /\ Head(Releasing)[1] = "release"
    BY LastLists DEF IsList
  <2>2. Cons(GetState, Resume1(Releasing)) \in Seq(Steps)
    <3>1. Resume1(Releasing) \in Seq(Steps)
      BY <2>1, WrapsBegin
    <3> QED BY <3>1, WrapsBegin
  <2>3. CASE todo = Catch(FALSE, << >>)
    <3>1. Head(todo)[1] = "write_vc"
      BY <1>e, <2>3, Catches, Zenon
    <3> QED BY <3>1
  <2>4. CASE todo = Catch(FALSE, Cons(GetState, Resume1(Releasing)))
    <3>1. Head(todo)[1] = "write_vc"
      BY <1>e, <2>2, <2>4, Catches, Zenon
    <3> QED BY <3>1
  <2>5. CASE Resuming(Releasing)
    BY <2>1, <2>5, ResumingFirst
  <2>6. CASE todo = Releasing
    BY <2>1, <2>6
  <2> QED BY <2>3, <2>4, <2>5, <2>6 DEF Where, DisconnectOp
<1>7. op.name = "step" =>
        token < MaxToken /\ Head(todo)[1] \in {"step", "count", "await_step", "dhcsr"}
  <2> SUFFICES ASSUME op.name = "step"
               PROVE  token < MaxToken
                        /\ Head(todo)[1] \in {"step", "count", "await_step", "dhcsr"}
    OBVIOUS
  <2>1. token < MaxToken /\ todo \in {Step1, Counting, Going, AwaitingStep, Mask1, Unmasking}
    BY DEF Where, StepOp
  <2>2. /\ IsList(Counting, <<"count">>, << >>) /\ IsList(Step1, <<"step">>, << >>)
        /\ IsList(AwaitingStep, <<"await_step">>, IF Masking THEN Unmasking ELSE Counting)
        /\ Going \in Seq(Steps) /\ StepMask \in BOOLEAN
    BY <1>0, StepLists, LastLists
  <2>3. /\ Head(Counting)[1] = "count" /\ Head(Step1)[1] = "step"
        /\ Head(AwaitingStep)[1] = "await_step"
        /\ Counting \in Seq(Steps) /\ AwaitingStep \in Seq(Steps)
    BY <2>2 DEF IsList
  <2>4. todo \in {Unmasking, Going, Mask1} => Head(todo)[1] = "dhcsr"
    <3>1. CASE todo = Unmasking
      BY <1>e, <2>3, <3>1, Writes, Zenon DEF Unmasking, Halt
    <3>2. CASE todo = Going
      BY <1>e, <2>2, <2>3, <3>2, Writes, Zenon DEF Going
    <3>3. CASE todo = Mask1
      BY <1>e, <2>2, <3>3, Writes, Zenon DEF Mask1
    <3> QED BY <3>1, <3>2, <3>3
  <2> QED BY <2>1, <2>3, <2>4
<1>8. op.name = "reset" =>
        \/ Head(todo) = Halt
        \/ Head(todo) \in {<<"nreset">>, <<"aircr">>, <<"await_reset">>}
        \/ Head(todo)[1] = "put"
        \/ Head(todo)[1] = "reset" /\ token < MaxToken
  <2> SUFFICES ASSUME op.name = "reset"
               PROVE  \/ Head(todo) = Halt
                      \/ Head(todo) \in {<<"nreset">>, <<"aircr">>, <<"await_reset">>}
                      \/ Head(todo)[1] = "put"
                      \/ Head(todo)[1] = "reset" /\ token < MaxToken
    OBVIOUS
  <2>1. CASE Resetting(<< >>)
    BY <1>e, <2>1, ResettingFirst
  <2>2. CASE todo = Reset1(op.type, << >>) /\ token < MaxToken
    <3>1. PICK type \in ResetTypes : type = op.type
      BY <1>0, OpsAre
    <3>2. IsList(todo, <<"reset", type>>, << >>)
      BY <1>e, <2>2, <3>1, Wraps
    <3>3. Head(todo)[1] = "reset"
      BY <3>2, Firsts DEF IsList
    <3> QED BY <2>2, <3>3
  <2> QED BY <2>1, <2>2 DEF Where, ResetOp
<1>9. op.name = "reset_and_halt" =>
        \/ Head(todo) = Halt
        \/ Head(todo) \in {<<"nreset">>, <<"aircr">>, <<"await_reset">>}
        \/ Head(todo)[1] \in {"put", "read_demcr", "write_vc", "state", "state_again",
                              "await_halt", "thumb", "restore_vc"}
        \/ Head(todo)[1] = "reset" /\ token < MaxToken
  BY <1>0, ResetHaltFirst DEF Where
<1> QED BY <1>0, <1>1, <1>2, <1>3, <1>4, <1>5, <1>6, <1>7, <1>8, <1>9

-----------------------------------------------------------------------------
(* The mask, the step bit and the request for a reset.                     *)

\* What the operations but step write into DHCSR.
LEMMA PlainWrites ==
  ASSUME Types, op \in Ops \cup {None}, Where, op.name # "step", HostStep, Doing("dhcsr")
  PROVE  ~dhcsr'.mask /\ ~dhcsr'.step
<1>1. todo # << >> /\ Head(todo)[1] = "dhcsr"
  BY DEF Doing, Idle
<1>2. Head(todo) \in {Halt, Go}
  BY <1>1, Kinds, OpsAre
<1>3. dhcsr' = Head(todo)[2]
  <2>1. WriteDhcsr
    BY <1>1, Dispatch
  <2> QED BY <2>1 DEF WriteDhcsr, Arg
<1> QED BY <1>2, <1>3 DEF Halt, Go, Dhcsr

\* disconnect's release clears the mask and the step bit; the reset line the step bit.
LEMMA Releases ==
  ASSUME Types, HostStep
  PROVE  /\ Doing("release") => ~dhcsr'.mask /\ ~dhcsr'.step
         /\ Doing("nreset") => dhcsr'.mask = dhcsr.mask /\ ~dhcsr'.step
<1>1. dhcsr \in DhcsrValues
  BY DEF Types, TypeOK, DhcsrValues
<1>2. Doing("release") => Release
  BY Dispatch DEF Doing
<1>3. Doing("nreset") => HardwareReset
  BY Dispatch DEF Doing
<1>4. Release => ~dhcsr'.mask /\ ~dhcsr'.step
  BY DEF Release
<1>5. HardwareReset => dhcsr'.mask = dhcsr.mask /\ ~dhcsr'.step
  BY <1>1 DEF HardwareReset, DhcsrValues
<1> QED BY <1>2, <1>3, <1>4, <1>5

\* Only step and the release write C_MASKINTS.
LEMMA MaskQuietHost ==
  ASSUME Types, op \in Ops \cup {None}, Where, MaskQuiet, HostStep
  PROVE  MaskQuiet'
<1>1. op' = op /\ faults' = faults
  BY HostKeeps
<1> SUFFICES ASSUME op.name # "step", dhcsr'.mask, ~(faults > 0) PROVE FALSE
  BY <1>1 DEF MaskQuiet
<1>2. CASE Doing("dhcsr")
  BY <1>2, PlainWrites
<1>3. CASE Doing("release") \/ Doing("nreset")
  BY <1>3, Releases DEF MaskQuiet
<1>4. CASE ~(Doing("dhcsr") \/ Doing("release") \/ Doing("nreset"))
  <2>1. dhcsr' = dhcsr
    BY <1>4, HostKeeps
  <2> QED BY <2>1 DEF MaskQuiet
<1> QED BY <1>2, <1>3, <1>4

\* A failing access is counted, and the core does not write C_MASKINTS.
LEMMA MaskQuietElse ==
  ASSUME Types, MaskQuiet, Fails \/ Hardware
  PROVE  MaskQuiet'
<1>1. op' = op /\ dhcsr'.mask = dhcsr.mask /\ (faults > 0 => faults' > 0)
  <2>1. CASE Fails
    BY <2>1, FailsKeep
  <2>2. CASE Hardware
    BY <2>2, HardwareKeeps DEF host
  <2> QED BY <2>1, <2>2
<1> QED BY <1>1 DEF MaskQuiet

\* C_STEP without C_HALT is written by step alone, which then waits.
LEMMA StepBitHost ==
  ASSUME Types, op \in Ops \cup {None}, Where, StepBit, HostStep
  PROVE  StepBit'
<1>1. op' = op /\ faults' = faults /\ todo # << >> /\ past'.mask = past.mask
  BY HostKeeps, Dispatch
<1>m. AwaitingStep' = AwaitingStep
  BY <1>1, Zenon DEF Masking, AwaitingStep
<1> SUFFICES ASSUME dhcsr'.step, ~dhcsr'.halt, ~(faults > 0)
             PROVE  op.name = "step" /\ todo' = AwaitingStep
  BY <1>1, <1>m DEF StepBit
<1>2. CASE Doing("dhcsr")
  <2>1. op.name = "step"
    BY <1>2, PlainWrites
  <2>o. op \in Ops
    BY <2>1 DEF None
  <2>2. /\ Counting \in Seq(Steps) /\ AwaitingStep \in Seq(Steps) /\ Going \in Seq(Steps)
        /\ StepMask \in BOOLEAN /\ TRUE \in BOOLEAN /\ FALSE \in BOOLEAN
    <3>1. /\ IsList(Counting, <<"count">>, << >>)
          /\ IsList(AwaitingStep, <<"await_step">>, IF Masking THEN Unmasking ELSE Counting)
          /\ Going \in Seq(Steps) /\ StepMask \in BOOLEAN
      BY <2>1, <2>o, StepLists
    <3> QED BY <3>1 DEF IsList
  <2>3. todo \in {Step1, Counting, Going, AwaitingStep, Mask1, Unmasking}
    BY <1>1, <2>1 DEF Where, StepOp
  <2>4. todo \notin {Step1, Counting, AwaitingStep}
    <3>1. /\ IsList(Counting, <<"count">>, << >>) /\ IsList(Step1, <<"step">>, << >>)
          /\ IsList(AwaitingStep, <<"await_step">>, IF Masking THEN Unmasking ELSE Counting)
      BY <2>1, <2>o, StepLists, LastLists
    <3>2. /\ Head(Counting)[1] = "count" /\ Head(Step1)[1] = "step"
          /\ Head(AwaitingStep)[1] = "await_step"
      BY <3>1 DEF IsList
    <3> QED BY <1>2, <3>2 DEF Doing
  <2>5. CASE todo = Mask1
    BY <2>2, <2>5, Writes, Zenon DEF Mask1
  <2>6. CASE todo = Unmasking
    BY <2>2, <2>6, Writes, Zenon DEF Unmasking, Halt
  <2>7. CASE todo = Going
    BY <2>1, <2>2, <2>7, Writes, Zenon DEF Going
  <2> QED BY <2>3, <2>4, <2>5, <2>6, <2>7
<1>3. CASE Doing("release") \/ Doing("nreset")
  BY <1>3, Releases
<1>4. CASE ~(Doing("dhcsr") \/ Doing("release") \/ Doing("nreset"))
  <2>1. dhcsr' = dhcsr
    BY <1>4, HostKeeps
  <2>2. op.name = "step" /\ todo = AwaitingStep
    BY <2>1 DEF StepBit
  <2>o. op \in Ops
    BY <2>2 DEF None
  <2>3. Head(todo)[1] = "await_step"
    <3>1. IsList(AwaitingStep, <<"await_step">>, IF Masking THEN Unmasking ELSE Counting)
      BY <2>2, <2>o, StepLists
    <3> QED BY <2>2, <3>1 DEF IsList
  <2>4. AwaitStep
    BY <2>3, Dispatch
  <2> QED BY <2>1, <2>2, <2>4 DEF AwaitStep
<1> QED BY <1>2, <1>3, <1>4

\* A wait that failed is counted.
LEMMA StepBitFails ==
  ASSUME Types, op \in Ops \cup {None}, StepBit, Fails
  PROVE  StepBit'
<1>1. op' = op /\ dhcsr' = dhcsr /\ (faults > 0 => faults' > 0) /\ past'.mask = past.mask
  BY FailsKeep
<1> SUFFICES ASSUME op.name = "step", todo = AwaitingStep PROVE faults' > 0
  BY <1>1 DEF StepBit
<1>o. op \in Ops
  BY DEF None
<1>2. Head(todo)[1] = "await_step"
  <2>1. IsList(AwaitingStep, <<"await_step">>, IF Masking THEN Unmasking ELSE Counting)
    BY <1>o, StepLists
  <2> QED BY <2>1 DEF IsList
<1>3. AccessFails
  BY <1>2 DEF Fails, NotReady, WriteAircrFails, AwaitTimesOut, Doing
<1> QED BY <1>2, <1>3, FailsKeep

\* A core that has stepped has halted.
LEMMA StepBitHardware ==
  ASSUME Types, StepBit, Hardware
  PROVE  StepBit'
<1>1. op' = op /\ todo' = todo /\ faults' = faults /\ past'.mask = past.mask
  BY HardwareKeeps DEF host
<1>m. AwaitingStep' = AwaitingStep
  BY <1>1, Zenon DEF Masking, AwaitingStep
<1>2. dhcsr \in DhcsrValues
  BY DEF Types, TypeOK, DhcsrValues
<1>3. dhcsr'.step /\ ~dhcsr'.halt => dhcsr.step /\ ~dhcsr.halt
  <2> USE DEF DhcsrValues
  <2>1. CASE Execute BY <1>2, <2>1 DEF Execute
  <2>2. CASE HitBreakpoint BY <1>2, <2>2 DEF HitBreakpoint
  <2>3. CASE StopRequested BY <1>2, <2>3 DEF StopRequested
  <2>4. CASE SleepOrWake BY <1>2, <2>4 DEF SleepOrWake
  <2>5. CASE TakeReset BY <1>2, <2>5 DEF TakeReset, IntoReset
  <2>6. CASE OutsideReset BY <1>2, <2>6 DEF OutsideReset, IntoReset
  <2>7. CASE LeaveReset BY <1>2, <2>7 DEF LeaveReset
  <2> QED BY <2>1, <2>2, <2>3, <2>4, <2>5, <2>6, <2>7 DEF Hardware
<1> QED BY <1>1, <1>m, <1>3 DEF StepBit

\* After the write of AIRCR comes the wait.
LEMMA ResettingAircr ==
  ASSUME NEW rest \in Seq(Steps), Resetting(rest), Head(todo)[1] = "aircr"
  PROVE  Tail(todo) = AwaitingReset(rest)
<1>1. IsList(AwaitingReset(rest), <<"await_reset">>, rest)
  BY Wraps
<1>2. AwaitingReset(rest) \in Seq(Steps)
  BY <1>1 DEF IsList
<1>3. /\ IsList(Cons(<<"nreset">>, AwaitingReset(rest)), <<"nreset">>, AwaitingReset(rest))
      /\ IsList(Cons(<<"aircr">>, AwaitingReset(rest)), <<"aircr">>, AwaitingReset(rest))
  BY <1>2, Wraps
<1>4. \A k \in 1..5 : IsList(PutsFrom(k, rest), EmulatedPut(k), PutsFrom(k + 1, rest))
  BY PutsFromIs
<1>5. Head(Cons(Halt, PutsFrom(1, rest))) = Halt
  <2>1. PutsFrom(1, rest) \in Seq(Steps)
    BY <1>4 DEF IsList
  <2> QED BY <2>1, WrapsBegin
<1>6. todo # AwaitingReset(rest)
  BY <1>1 DEF IsList
<1>7. todo # Cons(<<"nreset">>, AwaitingReset(rest))
  BY <1>3 DEF IsList
<1>8. todo # Cons(Halt, PutsFrom(1, rest))
  BY <1>5, Firsts
<1>9. \A k \in 1..5 : todo # PutsFrom(k, rest)
  <2> TAKE k \in 1..5
  <2>1. Head(PutsFrom(k, rest)) = EmulatedPut(k)
    BY <1>4, Zenon DEF IsList
  <2>2. EmulatedPut(k)[1] = "put"
    BY Firsts, Zenon
  <2>3. Head(todo)[1] # "put"
    BY DEF IsList
  <2> QED BY <2>1, <2>2, <2>3, Zenon
<1>10. todo = Cons(<<"aircr">>, AwaitingReset(rest))
  BY <1>6, <1>7, <1>8, <1>9 DEF Resetting
<1> QED BY <1>3, <1>10 DEF IsList

\* A reset that is asked for is waited for.
LEMMA AfterAircr ==
  ASSUME Types, op \in Ops \cup {None}, Where, Doing("aircr")
  PROVE  Tail(todo) # << >> /\ Head(Tail(todo)) = <<"await_reset">>
<1>1. todo # << >> /\ Head(todo)[1] = "aircr"
  BY DEF Doing, Idle
<1>2. op \in Ops /\ op.name \in {"reset", "reset_and_halt"}
  BY <1>1, Kinds, OpsAre, Firsts
<1>3. PICK type \in ResetTypes : type = op.type
  BY <1>2, OpsAre
<1>4. << >> \in Seq(Steps) /\ Looking \in Seq(Steps)
  BY HaltLists, EmptySeq DEF IsList
<1>5. PICK rest \in Seq(Steps) : Resetting(rest)
  <2>1. CASE op.name = "reset"
    <3>1. IsList(Reset1(type, << >>), <<"reset", type>>, << >>)
      BY <1>4, Wraps
    <3>2. todo # Reset1(type, << >>)
      BY <1>1, <3>1 DEF IsList
    <3> QED BY <1>1, <1>3, <1>4, <2>1, <3>2, Zenon DEF Where, ResetOp
  <2>2. CASE op.name = "reset_and_halt"
    <3>1. Resetting(Looking)
      <4>1. /\ IsList(Restoring, <<"restore_vc">>, << >>)
            /\ IsList(Thumbing, <<"thumb">>, Restoring)
            /\ IsList(AwaitingHalt, <<"await_halt">>, Thumbing)
            /\ IsList(Looking, GetState, AwaitingHalt)
            /\ IsList(LookingAgain, <<"state_again">>, AwaitingHalt)
        BY HaltLists
      <4>2. todo \notin {Restoring, Thumbing, AwaitingHalt, Looking, LookingAgain}
        BY <1>1, <4>1, Firsts DEF IsList
      <4>3. /\ IsList(Reset1(type, Looking), <<"reset", type>>, Looking)
            /\ IsList(Reading(type), <<"read_demcr">>, Catching(type))
            /\ IsList(Cons(Halt, Reading(type)), Halt, Reading(type))
        BY HaltLists, Zenon
      <4>4. todo \notin {Reset1(type, Looking), Reading(type), Cons(Halt, Reading(type))}
        BY <1>1, <4>3, Firsts DEF IsList
      <4>5. todo # Catching(type)
        <5>1. /\ Catching(type) = Catch(TRUE, Reset1(type, Looking)) /\ TRUE \in BOOLEAN
              /\ Reset1(type, Looking) \in Seq(Steps)
          BY <4>3, HaltLists, Begins, Zenon
        <5>2. todo = Catching(type) => Head(todo)[1] = "write_vc"
          BY <5>1, Catches, Zenon
        <5> QED BY <1>1, <5>2
      <4> QED BY <1>1, <1>3, <2>2, <4>2, <4>4, <4>5 DEF Where, ResetHaltOp, Over, Before, During, After, Finishing
    <3> QED BY <1>4, <3>1, Zenon
  <2> QED BY <1>2, <2>1, <2>2
<1>6. Tail(todo) = AwaitingReset(rest)
  BY <1>1, <1>5, ResettingAircr
<1>7. IsList(AwaitingReset(rest), <<"await_reset">>, rest)
  BY Wraps
<1> QED BY <1>6, <1>7 DEF IsList

\* Only AIRCR asks for a reset, and the wait for it goes on until it came or is overlooked.
LEMMA AskedHost ==
  ASSUME Types, op \in Ops \cup {None}, Where, Asked, HostStep
  PROVE  Asked'
<1>1. todo # << >> /\ todo \in Seq(Steps)
  BY Dispatch DEF Types
<1> SUFFICES ASSUME request' = "asked" PROVE todo' # << >> /\ Head(todo') = <<"await_reset">>
  BY DEF Asked
<1>2. CASE Doing("aircr")
  <2>1. WriteAircr
    BY <1>2, Dispatch DEF Doing
  <2>2. << >> \o Tail(todo) = Tail(todo)
    BY <1>1, ConcatEmptySeq
  <2>3. todo' = Tail(todo)
    BY <2>1, <2>2, Zenon DEF WriteAircr, Done, Then
  <2> QED BY <1>2, <2>3, AfterAircr
<1>3. CASE ~Doing("aircr")
  <2>1. request = "asked"
    BY <1>3, HostKeeps
  <2>2. Head(todo) = <<"await_reset">>
    BY <2>1 DEF Asked
  <2>3. AwaitReset
    BY <2>2, Dispatch
  <2> QED BY <2>1, <2>3 DEF AwaitReset, Overlook
<1> QED BY <1>2, <1>3

\* A wait that fails overlooks the reset.
LEMMA AskedFails ==
  ASSUME Types, op \in Ops \cup {None}, Where, Asked, Fails
  PROVE  Asked'
<1>1. todo # << >> /\ todo \in Seq(Steps)
  BY FailsKeep DEF Types
<1> SUFFICES ASSUME request' = "asked" PROVE todo' # << >> /\ Head(todo') = <<"await_reset">>
  BY DEF Asked
<1>2. CASE NotReady
  BY <1>2 DEF NotReady, Asked, Doing, hardware
<1>3. CASE AccessFails \/ AwaitTimesOut
  BY <1>3 DEF AccessFails, AwaitTimesOut, Overlook
<1>4. CASE WriteAircrFails
  <2>1. Doing("aircr") /\ request # "asked"
    BY <1>4 DEF WriteAircrFails, Asked, Doing
  <2>2. << >> \o Tail(todo) = Tail(todo)
    BY <1>1, ConcatEmptySeq
  <2>3. todo' = Tail(todo)
    BY <1>4, <2>1, <2>2 DEF WriteAircrFails, Done, Then
  <2> QED BY <2>1, <2>3, AfterAircr
<1> QED BY <1>2, <1>3, <1>4 DEF Fails

\* A reset that happens is no longer asked for.
LEMMA AskedHardware ==
  ASSUME Types, Asked, Hardware
  PROVE  Asked'
<1>1. todo' = todo /\ (request' = request \/ request' = "none")
  BY HardwareKeeps DEF host
<1> QED BY <1>1 DEF Asked

-----------------------------------------------------------------------------
(* reset_and_halt.                                                         *)

\* The vector catch stays as it is, and the debug registers enabled.
LEMMA CaughtHost ==
  ASSUME Types, Caught, HostStep,
         Head(todo)[1] \notin {"write_vc", "restore_vc", "release", "read_demcr", "dhcsr"}
  PROVE  Caught'
<1>1. todo # << >> /\ dhcsr \in DhcsrValues
  BY Dispatch DEF Types, TypeOK, DhcsrValues
<1>2. /\ vc' = vc /\ loc'.vc = loc.vc /\ past'.vc = past.vc
      /\ owed' = owed /\ past'.caught = past.caught
  BY HostKeeps DEF Doing
<1>3. dhcsr'.debugen
  <2>1. CASE Head(todo)[1] = "nreset"
    <3>1. HardwareReset
      BY <2>1, Dispatch
    <3> QED BY <1>1, <3>1 DEF HardwareReset, DhcsrValues, Caught
  <2>2. CASE Head(todo)[1] # "nreset"
    <3>1. dhcsr' = dhcsr
      BY <2>2, HostKeeps DEF Doing
    <3> QED BY <3>1 DEF Caught
  <2> QED BY <2>1, <2>2
<1> QED BY <1>2, <1>3 DEF Caught

\* What is expected of the core after the reset does not change while the host looks at it.
LEMMA LookingKeeps ==
  ASSUME Types, HostStep,
         Head(todo)[1] \in {"state", "state_again", "await_halt", "await_reset", "restore_vc"}
  PROVE  /\ Unsure => Unsure'
         /\ Rested => Rested'
         /\ AtReset => AtReset'
<1>1. /\ core' = core /\ regs' = regs /\ (past.disturbed => past'.disturbed)
      /\ past'.caught = past.caught /\ request' \in {request, "overlooked"}
  BY HostKeeps DEF Doing
<1> QED BY <1>1 DEF Unsure, Rested, AtReset

\* The transfers of an emulated reset are different from each other and from the wait.
LEMMA PutsDiffer ==
  ASSUME NEW rest \in Seq(Steps)
  PROVE  /\ \A j, k \in 1..5 : PutsFrom(j, rest) = PutsFrom(k, rest) => j = k
         /\ \A k \in 1..5 : PutsFrom(k, rest) # AwaitingReset(rest)
<1>1. \A k \in 1..5 : IsList(PutsFrom(k, rest), EmulatedPut(k), PutsFrom(k + 1, rest))
  BY PutsFromIs
<1>2. \A k \in 1..5 : Head(PutsFrom(k, rest)) = EmulatedPut(k)
  BY <1>1 DEF IsList
<1>3. \A k \in 1..5 : EmulatedPut(k)[1] = "put" /\ EmulatedPut(k)[2] = EmulatedList[k]
  BY DEF EmulatedPut, Put
<1>4. \A j, k \in 1..5 : EmulatedList[j] = EmulatedList[k] => j = k
  BY DEF EmulatedList
<1>5. Head(AwaitingReset(rest))[1] = "await_reset"
  <2>1. IsList(AwaitingReset(rest), <<"await_reset">>, rest)
    BY Wraps
  <2> QED BY <2>1 DEF IsList
<1>6. ASSUME NEW j \in 1..5, NEW k \in 1..5, PutsFrom(j, rest) = PutsFrom(k, rest) PROVE j = k
  <2>1. EmulatedPut(j) = EmulatedPut(k)
    BY <1>2, <1>6
  <2>2. EmulatedList[j] = EmulatedList[k]
    BY <1>3, <2>1
  <2> QED BY <1>4, <2>2
<1>7. ASSUME NEW k \in 1..5, PutsFrom(k, rest) = AwaitingReset(rest) PROVE FALSE
  <2>1. Head(AwaitingReset(rest)) = EmulatedPut(k)
    BY <1>2, <1>7
  <2> QED BY <1>3, <1>5, <2>1
<1> QED BY <1>6, <1>7

\* Before the reset.
LEMMA BeforeHost ==
  ASSUME Types, NEW type \in ResetTypes, Before(type), HostStep
  PROVE  Before(type)' \/ During'
<1>l. /\ IsList(Reset1(type, Looking), <<"reset", type>>, Looking)
      /\ Catching(type) \in Seq(Steps) /\ Catching(type) = Catch(TRUE, Reset1(type, Looking))
      /\ IsList(Reading(type), <<"read_demcr">>, Catching(type))
  BY HaltLists, Zenon
<1>s. /\ Reset1(type, Looking) \in Seq(Steps) /\ Reading(type) \in Seq(Steps)
      /\ TRUE \in BOOLEAN /\ FALSE \in BOOLEAN
  BY <1>l, Begins, Zenon
<1>1. CASE todo = Cons(Halt, Reading(type)) /\ vc = past.vc
  <2>1. /\ todo' = Reading(type) /\ token' = token /\ past' = past /\ vc' = vc
        /\ dhcsr'.debugen
    BY <1>1, <1>s, Writes, Zenon DEF Halt
  <2> QED BY <1>1, <2>1 DEF Before
<1>2. CASE todo = Reading(type) /\ vc = past.vc /\ dhcsr.debugen
  <2>1. todo # << >> /\ Head(todo)[1] = "read_demcr"
    BY <1>2, <1>l DEF IsList
  <2>2. todo' = Catching(type)
    <3>1. PICK first : first = <<"read_demcr">>
      OBVIOUS
    <3>2. first[1] = "read_demcr"
      BY <3>1
    <3>3. IsList(todo, first, Catching(type))
      BY <1>2, <1>l, <3>1, Zenon
    <3> QED BY <3>2, <3>3, Advance
  <2>3. /\ token' = token /\ past'.vc = past.vc /\ dhcsr' = dhcsr
    BY <2>1, HostKeeps DEF Doing
  <2>4. ReadDemcr
    BY <2>1, Dispatch
  <2>5. loc'.vc = vc
    BY <2>4 DEF ReadDemcr, Types, Locals
  <2> QED BY <1>2, <2>2, <2>3, <2>5 DEF Before
<1>3. CASE todo = Catching(type) /\ loc.vc = past.vc /\ dhcsr.debugen
  <2>1. /\ todo' = Reset1(type, Looking) /\ vc' /\ token' = token
        /\ todo # << >> /\ Head(todo)[1] = "write_vc"
    BY <1>3, <1>l, <1>s, Catches, Zenon
  <2>2. loc'.vc = loc.vc /\ past'.vc = past.vc /\ dhcsr' = dhcsr
    BY <2>1, HostKeeps DEF Doing
  <2> QED BY <1>3, <2>1, <2>2 DEF Before, Caught
<1>4. CASE todo = Reset1(type, Looking) /\ Caught
  <2>0. Looking \in Seq(Steps)
    BY HaltLists DEF IsList
  <2>1. Head(todo)[1] = "reset"
    BY <1>4, <1>l, Firsts DEF IsList
  <2>2. Caught'
    BY <1>4, <2>1, CaughtHost
  <2>3. todo' \in {Cons(<<"nreset">>, AwaitingReset(Looking)),
                   Cons(<<"aircr">>, AwaitingReset(Looking)), Cons(Halt, PutsFrom(1, Looking))}
    BY <1>4, <1>l, Advance, Firsts
  <2>4. Resetting(Looking)'
    BY <2>3 DEF Resetting
  <2>5. Head(todo')[1] \in {"nreset", "aircr", "dhcsr"}
    <3>1. AwaitingReset(Looking) \in Seq(Steps) /\ PutsFrom(1, Looking) \in Seq(Steps)
      BY <2>0, Wraps, PutsFromIs DEF IsList
    <3>2. /\ IsList(Cons(<<"nreset">>, AwaitingReset(Looking)), <<"nreset">>, AwaitingReset(Looking))
          /\ IsList(Cons(<<"aircr">>, AwaitingReset(Looking)), <<"aircr">>, AwaitingReset(Looking))
          /\ IsList(Cons(Halt, PutsFrom(1, Looking)), Halt, PutsFrom(1, Looking))
      BY <3>1, Wraps
    <3> QED BY <2>3, <3>2, Firsts DEF IsList
  <2>6. Head(AwaitingReset(Looking))[1] = "await_reset"
    <3>1. IsList(AwaitingReset(Looking), <<"await_reset">>, Looking)
      BY <2>0, Wraps
    <3> QED BY <3>1 DEF IsList
  <2>7. \A k \in 1..5 : Head(PutsFrom(k, Looking))[1] = "put"
    <3>1. \A k \in 1..5 : IsList(PutsFrom(k, Looking), EmulatedPut(k), PutsFrom(k + 1, Looking))
      BY <2>0, PutsFromIs
    <3> TAKE k \in 1..5
    <3>2. Head(PutsFrom(k, Looking)) = EmulatedPut(k)
      BY <3>1, Zenon DEF IsList
    <3>3. EmulatedPut(k)[1] = "put"
      BY Firsts, Zenon
    <3> QED BY <3>2, <3>3, Zenon
  <2>8. todo' # AwaitingReset(Looking) /\ \A k \in 2..5 : todo' # PutsFrom(k, Looking)
    <3>1. \A k \in 2..5 : k \in 1..5
      OBVIOUS
    <3> QED BY <2>5, <2>6, <2>7, <3>1
  <2> QED BY <2>2, <2>4, <2>8 DEF During
<1> QED BY <1>1, <1>2, <1>3, <1>4 DEF Before
\* A register of an emulated reset is written whole.
LEMMA EmulatedWrite ==
  ASSUME Types, NEW k \in 1..5, HostStep, todo # << >>, Head(todo) = EmulatedPut(k)
  PROVE  /\ core' = core
         /\ IF core = "halted"
              THEN regs' = Merged(regs, ValueOf(ResetValues(1), EmulatedList[k]))
              ELSE past'.disturbed
<1> DEFINE reg == EmulatedList[k]
           value == ValueOf(ResetValues(1), reg)
           group == IF IsCfbpSub(reg) \/ IsPsrSub(reg) THEN FieldsOf(Selectors(reg)[1]) ELSE {}
           merge == Merged(Restrict(loc.merge, group \cap DOMAIN loc.merge), value)
<1>1. Head(todo)[1] = "put" /\ Head(todo)[2] = reg /\ Head(todo)[3] = value
  BY DEF EmulatedPut, Put
<1>2. PutRegister
  BY <1>1, Dispatch
<1>3. core' = core
  BY <1>1, HostKeeps DEF Doing
<1>4. group = {}
  <2>1. reg \in {"r0", "xpsr", "cfbp", "s0", "s1"}
    BY DEF EmulatedList
  <2> QED BY <2>1 DEF IsCfbpSub, IsPsrSub
<1>5. merge = value
  <2>1. DOMAIN Restrict(loc.merge, group \cap DOMAIN loc.merge) = {}
    BY <1>4 DEF Restrict
  <2>2. value = [x \in DOMAIN value |-> value[x]]
    BY DEF ValueOf, Restrict
  <2> HIDE DEF value, group
  <2> QED BY <2>1, <2>2 DEF Merged
<1>6. IF core = "halted" THEN regs' = Merged(regs, merge) ELSE Unhalted(IF op.name = "write" THEN ToSet(op.list) ELSE {})
  BY <1>1, <1>2, Zenon DEF PutRegister
<1>7. ASSUME core # "halted" PROVE past'.disturbed
  BY <1>6, <1>7 DEF Unhalted, Types, Pasts
<1> QED BY <1>3, <1>5, <1>6, <1>7

\* What the registers are after the next of them.
LEMMA PutsGoOn ==
  ASSUME Types, NEW k \in 1..5, k = 1 \/ PutsAreIn(k), HostStep, core = "halted",
         todo # << >>, Head(todo) = EmulatedPut(k)
  PROVE  PutsAreIn(k + 1)'
<1> DEFINE reg == EmulatedList[k]
           value == ValueOf(ResetValues(1), reg)
<1>1. core' = "halted" /\ regs' = Merged(regs, value)
  BY EmulatedWrite
<1>2. FieldsOf(reg) \subseteq Fields
  BY DEF EmulatedList, FieldsOf, Fields
<1>3. DOMAIN value = FieldsOf(reg) /\ \A field \in FieldsOf(reg) : value[field] = ResetValues(1)[field]
  BY <1>2 DEF ValueOf, Restrict, ResetValues
<1>4. DOMAIN regs = Fields
  BY DEF Types, TypeOK
<1>5. \A field \in PutsDone(k + 1) : field \in PutsDone(k) \/ field \in FieldsOf(reg)
  <2> TAKE field \in PutsDone(k + 1)
  <2>1. PICK i \in 1..k : field \in FieldsOf(EmulatedList[i])
    BY DEF PutsDone
  <2>2. CASE i = k
    BY <2>1, <2>2
  <2>3. CASE i # k
    <3>1. i \in 1..k - 1
      BY <2>3
    <3> QED BY <2>1, <3>1 DEF PutsDone
  <2> QED BY <2>2, <2>3
<1>6. \A field \in PutsDone(k) : field \in Fields /\ regs[field] = ResetValues(1)[field]
  <2>1. CASE k = 1
    <3>1. PutsDone(k) = {}
      BY <2>1 DEF PutsDone
    <3> QED BY <3>1
  <2>2. CASE PutsAreIn(k)
    <3>1. \A i \in 1..5 : FieldsOf(EmulatedList[i]) \subseteq Fields
      BY DEF EmulatedList, FieldsOf, Fields
    <3>2. \A field \in PutsDone(k) : field \in Fields
      <4> TAKE field \in PutsDone(k)
      <4>1. PICK i \in 1..k - 1 : field \in FieldsOf(EmulatedList[i])
        BY DEF PutsDone
      <4>2. i \in 1..5
        OBVIOUS
      <4> QED BY <3>1, <4>1, <4>2
    <3> QED BY <2>2, <3>2 DEF PutsAreIn
  <2> QED BY <2>1, <2>2
<1> HIDE DEF value
<1>7. \A field \in Fields :
        regs'[field] = IF field \in FieldsOf(reg) THEN value[field] ELSE regs[field]
  BY <1>1, <1>3, <1>4 DEF Merged
<1>8. \A field \in PutsDone(k + 1) : regs'[field] = ResetValues(1)[field]
  BY <1>2, <1>3, <1>5, <1>6, <1>7
<1> QED BY <1>1, <1>8 DEF PutsAreIn

\* After the last of them they are at their reset values.
LEMMA PutsCover ==
  ASSUME NEW values \in [Fields -> 0..1],
         \A field \in PutsDone(6) : values[field] = ResetValues(1)[field]
  PROVE  values = ResetValues(1)
<1>1. /\ FieldsOf("r0") = {"r0"} /\ FieldsOf("xpsr") = {"ipsr", "epsr"}
      /\ FieldsOf("cfbp") = {"control", "basepri", "primask"}
      /\ FieldsOf("s0") = {"s0"} /\ FieldsOf("s1") = {"s1"}
  BY DEF FieldsOf
<1>2. /\ EmulatedList[1] = "r0" /\ EmulatedList[2] = "xpsr" /\ EmulatedList[3] = "cfbp"
      /\ EmulatedList[4] = "s0" /\ EmulatedList[5] = "s1"
  BY DEF EmulatedList
<1>3. \A i \in 1..5 : FieldsOf(EmulatedList[i]) \subseteq PutsDone(6)
  <2>1. \A i \in 1..5 : i \in 1..6 - 1
    OBVIOUS
  <2> QED BY <2>1 DEF PutsDone
<1>4. \A field \in Fields : field \in PutsDone(6)
  <2>1. /\ FieldsOf("r0") \subseteq PutsDone(6) /\ FieldsOf("xpsr") \subseteq PutsDone(6)
        /\ FieldsOf("cfbp") \subseteq PutsDone(6) /\ FieldsOf("s0") \subseteq PutsDone(6)
        /\ FieldsOf("s1") \subseteq PutsDone(6)
    BY <1>2, <1>3
  <2> QED BY <1>1, <2>1 DEF Fields
<1>5. \A field \in Fields : values[field] = ResetValues(1)[field]
  BY <1>4
<1>6. ResetValues(1) \in [Fields -> 0..1]
  BY DEF ResetValues
<1> QED BY <1>5, <1>6

\* The first steps of a reset: only the wait begins with a wait.
ResettingHeads(rest) ==
  \/ todo = AwaitingReset(rest)
  \/ Head(todo)[1] \in {"nreset", "aircr", "dhcsr", "put"}

\* The first steps of a reset and what each of them leaves.
LEMMA ResettingAre ==
  ASSUME NEW rest \in Seq(Steps), Resetting(rest)
  PROVE  ResettingHeads(rest)
<1>1. AwaitingReset(rest) \in Seq(Steps) /\ PutsFrom(1, rest) \in Seq(Steps)
  BY Wraps, PutsFromIs DEF IsList
<1>2. /\ IsList(Cons(<<"nreset">>, AwaitingReset(rest)), <<"nreset">>, AwaitingReset(rest))
      /\ IsList(Cons(<<"aircr">>, AwaitingReset(rest)), <<"aircr">>, AwaitingReset(rest))
      /\ IsList(Cons(Halt, PutsFrom(1, rest)), Halt, PutsFrom(1, rest))
  BY <1>1, Wraps
<1>3. \A k \in 1..5 : Head(PutsFrom(k, rest))[1] = "put"
  <2>1. \A k \in 1..5 : IsList(PutsFrom(k, rest), EmulatedPut(k), PutsFrom(k + 1, rest))
    BY PutsFromIs
  <2> TAKE k \in 1..5
  <2>2. Head(PutsFrom(k, rest)) = EmulatedPut(k)
    BY <2>1, Zenon DEF IsList
  <2>3. EmulatedPut(k)[1] = "put"
    BY Firsts, Zenon
  <2> QED BY <2>2, <2>3, Zenon
<1>4. /\ Head(Cons(<<"nreset">>, AwaitingReset(rest)))[1] = "nreset"
      /\ Head(Cons(<<"aircr">>, AwaitingReset(rest)))[1] = "aircr"
      /\ Head(Cons(Halt, PutsFrom(1, rest)))[1] = "dhcsr"
  BY <1>2, Firsts DEF IsList
<1> QED BY <1>3, <1>4 DEF Resetting, ResettingHeads

\* While the reset is performed.
LEMMA DuringHost ==
  ASSUME Types, Owing, regs' \in [Fields -> 0..1], During, HostStep
  PROVE  During' \/ After'
<1>0. PICK rest \in Seq(Steps) : rest = Looking
  <2>1. Looking \in Seq(Steps)
    BY LooksAre DEF IsList
  <2> QED BY <2>1
<1>1. IsList(AwaitingReset(rest), <<"await_reset">>, rest)
  BY Wraps
<1>2. /\ IsList(Cons(<<"nreset">>, AwaitingReset(rest)), <<"nreset">>, AwaitingReset(rest))
      /\ IsList(Cons(<<"aircr">>, AwaitingReset(rest)), <<"aircr">>, AwaitingReset(rest))
  BY <1>1, Wraps DEF IsList
<1>3. /\ \A k \in 1..5 : IsList(PutsFrom(k, rest), EmulatedPut(k), PutsFrom(k + 1, rest))
      /\ PutsFrom(6, rest) = AwaitingReset(rest)
  BY PutsFromIs
<1>4. PutsFrom(1, rest) \in Seq(Steps)
  BY <1>3 DEF IsList
<1>d. /\ \A j, k \in 1..5 : PutsFrom(j, rest) = PutsFrom(k, rest) => j = k
      /\ \A k \in 1..5 : PutsFrom(k, rest) # AwaitingReset(rest)
  BY PutsDiffer
<1>e. \A k \in 2..5 : k \in 1..5
  OBVIOUS
<1>5. CASE todo = AwaitingReset(rest)
  <2>1. todo # << >> /\ Head(todo)[1] = "await_reset"
    BY <1>1, <1>5 DEF IsList
  <2>o. ~owed'
    BY <2>1, HostKeeps DEF Owing, Clearing
  <2>2. Caught'
    BY <2>1, CaughtHost DEF During
  <2>3. Unsure' \/ Rested'
    BY <1>0, <1>5, <2>1, LookingKeeps DEF During
  <2>4. todo' \in {AwaitingReset(rest), rest}
    BY <1>1, <1>5, Advance
  <2>5. CASE todo' = rest
    BY <1>0, <2>o, <2>2, <2>3, <2>5 DEF After
  <2>6. CASE todo' = AwaitingReset(rest)
    <3>1. Resetting(rest)'
      BY <2>6 DEF Resetting
    <3>2. \A k \in 2..5 : todo' # PutsFrom(k, rest)
      BY <1>d, <1>e, <2>6
    <3> QED BY <1>0, <2>2, <2>3, <3>1, <3>2 DEF During
  <2> QED BY <2>4, <2>5, <2>6
<1>n. ASSUME todo' = AwaitingReset(rest), Caught', Unsure' \/ Rested' PROVE During'
  <2>1. Resetting(rest)'
    BY <1>n DEF Resetting
  <2>2. \A k \in 2..5 : todo' # PutsFrom(k, rest)
    BY <1>d, <1>e, <1>n
  <2> QED BY <1>0, <1>n, <2>1, <2>2 DEF During
<1>6. CASE todo = Cons(<<"nreset">>, AwaitingReset(rest))
  <2>1. Head(todo)[1] = "nreset"
    BY <1>2, <1>6 DEF IsList
  <2>2. todo' = AwaitingReset(rest)
    BY <1>2, <1>6, Advance
  <2>3. HardwareReset
    BY <2>1, Dispatch
  <2>4. Rested'
    BY <2>3 DEF HardwareReset, Rested
  <2>5. Caught'
    BY <2>1, CaughtHost DEF During
  <2> QED BY <1>n, <2>2, <2>4, <2>5
<1>7. CASE todo = Cons(<<"aircr">>, AwaitingReset(rest))
  <2>1. Head(todo)[1] = "aircr"
    BY <1>2, <1>7 DEF IsList
  <2>2. todo' = AwaitingReset(rest)
    BY <1>2, <1>7, Advance
  <2>3. WriteAircr
    BY <2>1, Dispatch
  <2>4. Unsure'
    BY <2>3 DEF WriteAircr, Unsure
  <2>5. Caught'
    BY <2>1, CaughtHost DEF During
  <2> QED BY <1>n, <2>2, <2>4, <2>5
<1>8. CASE todo = Cons(Halt, PutsFrom(1, rest))
  <2>0. TRUE \in BOOLEAN /\ FALSE \in BOOLEAN
    OBVIOUS
  <2>1. /\ todo' = PutsFrom(1, rest) /\ loc' = loc /\ past' = past /\ vc' = vc
        /\ dhcsr'.debugen
    BY <1>4, <1>8, <2>0, Writes, Zenon DEF Halt
  <2>2. Caught'
    BY <2>1, HostKeeps DEF During, Caught
  <2>3. Resetting(rest)'
    <3>1. 1 \in 1..5
      OBVIOUS
    <3> QED BY <2>1, <3>1 DEF Resetting
  <2>4. todo' # AwaitingReset(rest) /\ \A k \in 2..5 : todo' # PutsFrom(k, rest)
    <3>1. 1 \in 1..5 /\ \A k \in 2..5 : k \in 1..5 /\ k # 1
      OBVIOUS
    <3> QED BY <1>d, <2>1, <3>1
  <2> QED BY <1>0, <2>2, <2>3, <2>4 DEF During
<1>9. ASSUME NEW k \in 1..5, todo = PutsFrom(k, rest) PROVE During'
  <2>1. todo # << >> /\ Head(todo) = EmulatedPut(k) /\ EmulatedPut(k)[1] = "put"
    BY <1>3, <1>9, Firsts DEF IsList
  <2>2. todo' = PutsFrom(k + 1, rest)
    <3>1. IsList(todo, EmulatedPut(k), PutsFrom(k + 1, rest))
      BY <1>3, <1>9
    <3> QED BY <2>1, <3>1, Advance
  <2>3. Caught'
    BY <2>1, CaughtHost DEF During
  <2>4. past'.disturbed \/ PutsAreIn(k + 1)'
    <3>1. CASE past.disturbed
      BY <3>1, HostKeeps
    <3>2. CASE core # "halted"
      BY <2>1, <3>2, EmulatedWrite
    <3>3. CASE core = "halted" /\ ~past.disturbed
      <4>1. k = 1 \/ PutsAreIn(k)
        <5>1. k = 1 \/ k \in 2..5
          OBVIOUS
        <5> QED BY <1>0, <1>9, <3>3, <5>1 DEF During
      <4> QED BY <2>1, <3>3, <4>1, PutsGoOn
    <3> QED BY <3>1, <3>2, <3>3
  <2>5. CASE k = 5
    <3>1. PICK j : j = k + 1 /\ j = 6
      BY <2>5
    <3>2. todo' = AwaitingReset(rest)
      BY <1>3, <2>2, <3>1
    <3>3. Unsure' \/ Rested'
      <4>1. CASE past'.disturbed
        BY <4>1 DEF Unsure
      <4>2. CASE PutsAreIn(6)'
        <5>1. core' = "halted" /\ regs' = ResetValues(1)
          BY <4>2, PutsCover DEF PutsAreIn
        <5> QED BY <5>1 DEF Rested
      <4> QED BY <2>4, <3>1, <4>1, <4>2
    <3> QED BY <1>n, <2>3, <3>2, <3>3
  <2>6. CASE k # 5
    <3>1. PICK j \in 2..5 : j = k + 1
      BY <2>6
    <3>2. todo' = PutsFrom(j, rest)
      BY <2>2, <3>1
    <3>3. Resetting(rest)'
      BY <1>e, <3>2 DEF Resetting
    <3>4. past'.disturbed \/ PutsAreIn(j)'
      BY <2>4, <3>1
    <3>5. \A i \in 2..5 : todo' = PutsFrom(i, rest) => i = j
      BY <1>d, <1>e, <3>2
    <3>6. todo' # AwaitingReset(rest)
      BY <1>d, <1>e, <3>2
    <3> QED BY <1>0, <2>3, <3>3, <3>4, <3>5, <3>6 DEF During
  <2> QED BY <2>5, <2>6
<1> QED BY <1>0, <1>5, <1>6, <1>7, <1>8, <1>9 DEF During, Resetting
\* Once the reset is over the host waits for the core to halt, and sets the Thumb bit.
LEMMA AfterHost ==
  ASSUME Types, After, HostStep
  PROVE  After' \/ Finishing'
<1>l. /\ IsList(Restoring, <<"restore_vc">>, << >>)
      /\ IsList(Thumbing, <<"thumb">>, Restoring)
      /\ IsList(AwaitingHalt, <<"await_halt">>, Thumbing)
      /\ IsList(Looking, GetState, AwaitingHalt)
      /\ IsList(LookingAgain, <<"state_again">>, AwaitingHalt)
  BY LooksAre
<1>k. ASSUME Head(todo)[1] \in {"state", "state_again", "await_halt"},
             todo' \in {Looking, LookingAgain, AwaitingHalt, Thumbing}
      PROVE  After'
  <2>1. Caught'
    BY <1>k, CaughtHost DEF After
  <2>2. Unsure' \/ Rested'
    BY <1>k, LookingKeeps DEF After
  <2>3. ~owed'
    BY HostKeeps DEF After
  <2> QED BY <1>k, <2>1, <2>2, <2>3 DEF After
<1>1. CASE todo = Looking
  <2>1. Head(todo)[1] = "state"
    BY <1>1, <1>l, Firsts DEF IsList
  <2>2. todo' \in {AwaitingHalt, Cons(<<"state_again">>, AwaitingHalt)}
    BY <1>1, <1>l, Advance, Firsts
  <2> QED BY <1>k, <2>1, <2>2 DEF LookingAgain
<1>2. CASE todo = LookingAgain
  <2>1. Head(todo)[1] = "state_again"
    BY <1>2, <1>l DEF IsList
  <2>2. todo' = AwaitingHalt
    BY <1>2, <1>l, Advance
  <2> QED BY <1>k, <2>1, <2>2
<1>3. CASE todo = AwaitingHalt
  <2>1. Head(todo)[1] = "await_halt"
    BY <1>3, <1>l DEF IsList
  <2>2. todo' \in {Thumbing, Cons(GetState, Cons(<<"await_halt">>, Thumbing))}
    BY <1>3, <1>l, Advance
  <2> QED BY <1>k, <2>1, <2>2 DEF Looking, AwaitingHalt
<1>4. CASE todo = Thumbing
  <2>1. Head(todo)[1] = "thumb"
    BY <1>4, <1>l DEF IsList
  <2>2. todo' = Restoring
    BY <1>4, <1>l, Advance
  <2>3. Caught'
    BY <2>1, CaughtHost DEF After
  <2>4. SetThumb
    BY <2>1, Dispatch
  <2>5. /\ core' = core /\ request' = request /\ (past.disturbed => past'.disturbed)
        /\ past'.caught = past.caught
    BY <2>1, HostKeeps DEF Doing
  <2>6. CASE core # "halted"
    <3>1. past'.disturbed
      BY <2>4, <2>6 DEF SetThumb, Unhalted, Types, Pasts
    <3> QED BY <2>2, <2>3, <3>1 DEF Finishing, Unsure
  <2>7. CASE core = "halted" /\ Rested
    <3>1. regs' = [regs EXCEPT !["epsr"] = 1]
      BY <2>4, <2>7 DEF SetThumb
    <3>2. PICK thumb \in 0..1 : regs = ResetValues(thumb)
      BY <2>7 DEF Rested
    <3>3. regs' = ResetValues(1)
      BY <3>1, <3>2 DEF ResetValues, Fields
    <3> QED BY <2>2, <2>3, <2>5, <2>7, <3>3 DEF Finishing, AtReset
  <2>8. CASE Unsure
    <3>1. Unsure'
      BY <2>5, <2>8 DEF Unsure
    <3> QED BY <2>2, <2>3, <3>1 DEF Finishing
  <2> QED BY <2>6, <2>7, <2>8 DEF After
<1> QED BY <1>1, <1>2, <1>3, <1>4 DEF After

\* The last step restores the vector catch, and leaves the core at its reset values.
LEMMA FinishHost ==
  ASSUME Types, Finishing, HostStep
  PROVE  Over'
<1>1. IsList(todo, <<"restore_vc">>, << >>)
  BY LastLists DEF Finishing
<1>2. Head(todo)[1] = "restore_vc"
  BY <1>1 DEF IsList
<1>3. todo' = << >>
  BY <1>1, Advance
<1>4. RestoreVc
  BY <1>2, Dispatch
<1>5. vc' = loc.vc /\ loc.vc = past.vc /\ past'.vc = past.vc
  BY <1>2, <1>4, HostKeeps DEF RestoreVc, Finishing, Caught
<1>6. Unsure' \/ AtReset'
  BY <1>2, LookingKeeps DEF Finishing
<1> QED BY <1>3, <1>5, <1>6 DEF Over

\* reset_and_halt goes from before the reset, through it and the search for the stopped
\* core, to its end.
LEMMA ResetHaltHost ==
  ASSUME Types, Owing, regs' \in [Fields -> 0..1], op \in Ops \cup {None}, ResetHaltOp,
         HostStep
  PROVE  ResetHaltOp'
<1>1. todo # << >> /\ op' = op
  BY Dispatch, HostKeeps
<1> SUFFICES ASSUME op.name = "reset_and_halt" PROVE ResetHaltOp'
  BY <1>1 DEF ResetHaltOp
<1>2. PICK type \in ResetTypes : type = op.type
  BY OpsAre DEF None
<1>3. CASE Before(type)
  <2>1. Before(type)' \/ During'
    BY <1>3, BeforeHost
  <2> QED BY <1>1, <1>2, <2>1 DEF ResetHaltOp
<1>4. CASE During
  BY <1>4, DuringHost DEF ResetHaltOp
<1>5. CASE After
  BY <1>5, AfterHost DEF ResetHaltOp
<1>6. CASE Finishing
  BY <1>6, FinishHost DEF ResetHaltOp
<1> QED BY <1>1, <1>2, <1>3, <1>4, <1>5, <1>6 DEF ResetHaltOp, Over

\* A step that fails raises out of it, or what comes is no longer sure.
LEMMA ResetHaltFails ==
  ASSUME Types, Owing, op \in Ops \cup {None}, ResetHaltOp, Fails
  PROVE  ResetHaltOp'
<1>1. /\ todo # << >> /\ op' = op /\ token' = token
      /\ UNCHANGED <<core, dhcsr, vc, regs, loc>>
      /\ past'.vc = past.vc /\ (past.disturbed => past'.disturbed)
      /\ (past.caught => past'.caught) /\ (owed' => owed)
      /\ (request # "none" => request' # "none")
      /\ \/ todo' = << >> /\ past'.raised
         \/ todo' = todo /\ past' = past /\ Head(todo)[1] = "await_reset"
         \/ /\ Head(todo)[1] \in {"aircr", "await_reset", "await_halt"}
            /\ todo' = Tail(todo)
            /\ IF Head(todo)[1] = "aircr" THEN past'.caught ELSE past'.disturbed
  BY FailsKeep
<1>o. Head(todo)[1] \in {"await_reset", "await_halt"} => ~owed
  BY <1>1 DEF Owing, Clearing
<1> SUFFICES ASSUME op.name = "reset_and_halt" PROVE ResetHaltOp'
  BY <1>1 DEF ResetHaltOp
<1>2. PICK type \in ResetTypes : type = op.type
  BY OpsAre DEF None
<1>3. CASE todo' = << >> /\ past'.raised
  BY <1>3 DEF ResetHaltOp, Over
<1>l. /\ IsList(Restoring, <<"restore_vc">>, << >>)
      /\ IsList(Thumbing, <<"thumb">>, Restoring)
      /\ IsList(AwaitingHalt, <<"await_halt">>, Thumbing)
      /\ IsList(Looking, GetState, AwaitingHalt)
      /\ IsList(LookingAgain, <<"state_again">>, AwaitingHalt)
  BY LooksAre
<1>w. Looking \in Seq(Steps)
  BY <1>l DEF IsList
<1>a. IsList(AwaitingReset(Looking), <<"await_reset">>, Looking)
  BY <1>w, Wraps
<1>u. Unsure => Unsure'
  BY <1>1 DEF Unsure
<1>c. Caught /\ (~owed \/ past'.caught) => Caught'
  BY <1>1 DEF Caught
<1>4. ASSUME Head(todo)[1] \in {"aircr", "await_reset", "await_halt"}
      PROVE  \/ During /\ (todo = AwaitingReset(Looking) \/ Head(todo)[1] = "aircr")
             \/ After /\ todo = AwaitingHalt
  <2>1. todo # Restoring /\ (After => todo = AwaitingHalt)
    BY <1>4, <1>l, Firsts DEF After, IsList
  <2>2. ~Before(type)
    <3>1. /\ IsList(Reset1(type, Looking), <<"reset", type>>, Looking)
          /\ IsList(Reading(type), <<"read_demcr">>, Catching(type))
          /\ IsList(Cons(Halt, Reading(type)), Halt, Reading(type))
      BY HaltLists, Zenon
    <3>2. todo \notin {Reset1(type, Looking), Reading(type), Cons(Halt, Reading(type))}
      BY <1>4, <3>1, Firsts DEF IsList
    <3>3. todo # Catching(type)
      <4>1. /\ Catching(type) = Catch(TRUE, Reset1(type, Looking)) /\ TRUE \in BOOLEAN
            /\ Reset1(type, Looking) \in Seq(Steps)
        BY <3>1, HaltLists, Begins, Zenon
      <4>2. todo = Catching(type) => Head(todo)[1] = "write_vc"
        BY <4>1, Catches, Zenon
      <4> QED BY <1>4, <4>2
    <3> QED BY <3>2, <3>3 DEF Before
  <2>3. During /\ Head(todo)[1] # "aircr" => todo = AwaitingReset(Looking)
    <3>1. Resetting(Looking) => ResettingHeads(Looking)
      BY <1>w, ResettingAre
    <3> QED BY <1>4, <3>1 DEF During, ResettingHeads
  <2> QED BY <1>1, <1>2, <2>1, <2>2, <2>3 DEF ResetHaltOp, Over, Finishing
<1>5. CASE todo' = todo /\ past' = past /\ Head(todo)[1] = "await_reset"
  <2>1. During
    BY <1>4, <1>5, <1>l DEF IsList
  <2>2. Rested => Rested'
    BY <1>1 DEF Rested
  <2>3. Resetting(Looking)'
    BY <1>5, <2>1 DEF During, Resetting
  <2>4. \A k \in 2..5 : todo' = PutsFrom(k, Looking) => past'.disturbed \/ PutsAreIn(k)'
    BY <1>1, <1>5, <2>1 DEF During, PutsAreIn
  <2>5. During'
    BY <1>5, <1>o, <1>u, <1>c, <2>1, <2>2, <2>3, <2>4 DEF During
  <2> QED BY <2>5 DEF ResetHaltOp
<1>6. CASE /\ Head(todo)[1] \in {"aircr", "await_reset", "await_halt"}
           /\ todo' = Tail(todo)
           /\ IF Head(todo)[1] = "aircr" THEN past'.caught ELSE past'.disturbed
  <2>1. Unsure'
    BY <1>6 DEF Unsure
  <2>2. Caught'
    BY <1>4, <1>6, <1>c, <1>o DEF During, After
  <2>3. CASE todo = AwaitingHalt
    <3>1. todo' = Thumbing /\ ~owed'
      BY <1>1, <1>o, <1>6, <1>l, <2>3 DEF IsList
    <3> QED BY <2>1, <2>2, <3>1 DEF ResetHaltOp, After
  <2>4. CASE todo = AwaitingReset(Looking)
    <3>1. todo' = Looking /\ ~owed'
      BY <1>1, <1>o, <1>6, <1>a, <2>4 DEF IsList
    <3> QED BY <2>1, <2>2, <3>1 DEF ResetHaltOp, After
  <2>5. CASE During /\ Head(todo)[1] = "aircr"
    <3>1. todo' = AwaitingReset(Looking)
      BY <1>6, <1>w, <2>5, ResettingAircr DEF During
    <3>2. Resetting(Looking)'
      BY <3>1 DEF Resetting
    <3>3. \A k \in 2..5 : todo' # PutsFrom(k, Looking)
      <4>1. \A k \in 2..5 : k \in 1..5
        OBVIOUS
      <4> QED BY <1>w, <3>1, <4>1, PutsDiffer
    <3>4. During'
      BY <2>1, <2>2, <3>2, <3>3 DEF During
    <3> QED BY <3>4 DEF ResetHaltOp
  <2> QED BY <1>4, <1>6, <2>3, <2>4, <2>5
<1> QED BY <1>1, <1>3, <1>5, <1>6
\* The core by itself stays in reset or caught, unless it is reset from outside.
LEMMA RestedHardware ==
  ASSUME Types, Hardware, Caught, ~owed, Unsure \/ Rested
  PROVE  Caught' /\ (Unsure' \/ Rested')
<1>1. /\ vc' = vc /\ dhcsr'.debugen = dhcsr.debugen /\ loc' = loc /\ past'.vc = past.vc
      /\ (past.disturbed => past'.disturbed)
      /\ past'.caught = past.caught
      /\ (request' = request \/ (request' = "none" /\ TakeReset))
  BY HardwareKeeps DEF host
<1>2. Caught'
  BY <1>1 DEF Caught
<1>3. CASE TakeReset
  BY <1>2, <1>3 DEF TakeReset, IntoReset, Rested
<1>4. CASE Unsure /\ ~TakeReset
  BY <1>1, <1>2, <1>4 DEF Unsure
<1>5. CASE Rested /\ ~Unsure /\ ~TakeReset
  <2>1. CASE Execute BY <1>5, <2>1 DEF Execute, Rested
  <2>2. CASE HitBreakpoint BY <1>5, <2>2 DEF HitBreakpoint, Rested
  <2>3. CASE StopRequested BY <1>5, <2>3 DEF StopRequested, Rested
  <2>4. CASE SleepOrWake BY <1>5, <2>4 DEF SleepOrWake, Rested
  <2>5. CASE OutsideReset BY <1>2, <2>5 DEF OutsideReset, IntoReset, Rested
  <2>6. CASE LeaveReset
    <3>1. core' = "halted"
      BY <1>5, <2>6 DEF LeaveReset, Caught, Unsure
    <3>2. \E thumb \in 0..1 : regs' = ResetValues(thumb)
      BY <2>6 DEF LeaveReset
    <3> QED BY <1>2, <3>1, <3>2 DEF Rested
  <2> QED BY <1>2, <1>5, <2>1, <2>2, <2>3, <2>4, <2>5, <2>6 DEF Hardware
<1> QED BY <1>3, <1>4, <1>5

\* A halted core keeps its registers, unless it is reset and the reset is not waited for.
LEMMA HaltedHardware ==
  ASSUME Types, Hardware, request # "asked", core = "halted"
  PROVE  past'.disturbed \/ (core' = core /\ regs' = regs)
<1>0. past \in Pasts
  BY DEF Types
<1>1. CASE Execute BY <1>1 DEF Execute
<1>2. CASE HitBreakpoint BY <1>2 DEF HitBreakpoint
<1>3. CASE StopRequested BY <1>3 DEF StopRequested
<1>4. CASE SleepOrWake BY <1>4 DEF SleepOrWake
<1>5. CASE TakeReset
  <2>1. request = "overlooked"
    BY <1>5 DEF TakeReset, Types, TypeOK
  <2> QED BY <1>0, <1>5, <2>1 DEF TakeReset, Pasts
<1>6. CASE OutsideReset BY <1>0, <1>6 DEF OutsideReset, Pasts
<1>7. CASE LeaveReset BY <1>7 DEF LeaveReset
<1> QED BY <1>1, <1>2, <1>3, <1>4, <1>5, <1>6, <1>7 DEF Hardware

\* A caught core that is reset stops at its reset values, whenever it comes.
LEMMA ResetHaltHardware ==
  ASSUME Types, Owing, op \in Ops \cup {None}, Asked, ResetHaltOp, Hardware
  PROVE  ResetHaltOp'
<1>1. /\ op' = op /\ todo' = todo /\ token' = token /\ vc' = vc /\ loc' = loc
      /\ dhcsr'.debugen = dhcsr.debugen
      /\ owed' = owed /\ past'.caught = past.caught
      /\ past'.raised = past.raised /\ past'.vc = past.vc
      /\ (past.disturbed => past'.disturbed)
      /\ (request' = request \/ (request' = "none" /\ TakeReset))
  BY HardwareKeeps DEF host
<1> SUFFICES ASSUME op.name = "reset_and_halt" PROVE ResetHaltOp'
  BY <1>1 DEF ResetHaltOp
<1>2. PICK type \in ResetTypes : type = op.type
  BY OpsAre DEF None
<1>l. IsList(Restoring, <<"restore_vc">>, << >>)
  BY LooksAre
<1>w. Looking \in Seq(Steps)
  BY LooksAre DEF IsList
<1>o. todo = AwaitingReset(Looking) => ~owed
  <2>1. IsList(AwaitingReset(Looking), <<"await_reset">>, Looking)
    BY <1>w, Wraps
  <2> QED BY <2>1 DEF Owing, Clearing, IsList
<1>c. Caught => Caught'
  BY <1>1 DEF Caught
<1>a. ASSUME request # "asked", Unsure \/ AtReset PROVE Unsure' \/ AtReset'
  <2>1. CASE AtReset
    BY <1>a, <2>1, HaltedHardware DEF AtReset, Unsure
  <2>2. CASE past.disturbed \/ past.caught
    BY <1>1, <2>2 DEF Unsure
  <2>3. CASE request # "none"
    <3>1. CASE request' = request
      BY <2>3, <3>1 DEF Unsure
    <3>2. CASE TakeReset
      <4>1. request = "overlooked" /\ past \in Pasts
        BY <1>a, <2>3 DEF Types, TypeOK
      <4>2. past'.disturbed
        BY <3>2, <4>1 DEF TakeReset, Pasts
      <4> QED BY <4>2 DEF Unsure
    <3> QED BY <1>1, <3>1, <3>2
  <2> QED BY <1>a, <2>1, <2>2, <2>3 DEF Unsure
<1>3. CASE Over
  <2>1. request # "asked"
    BY <1>3 DEF Over, Asked
  <2>2. Over'
    BY <1>1, <1>3, <1>a, <2>1 DEF Over
  <2> QED BY <2>2 DEF ResetHaltOp
<1>4. CASE Before(type)
  <2>1. Before(type)'
    BY <1>1, <1>4, <1>c DEF Before
  <2> QED BY <1>1, <1>2, <2>1 DEF ResetHaltOp
<1>5. CASE During
  <2>1. Caught' /\ Resetting(Looking)'
    BY <1>1, <1>5, <1>c DEF During, Resetting
  <2>2. todo' = AwaitingReset(Looking) => Unsure' \/ Rested'
    BY <1>1, <1>o, <1>5, RestedHardware DEF During
  <2>3. ASSUME NEW k \in 2..5, todo' = PutsFrom(k, Looking)
        PROVE  past'.disturbed \/ PutsAreIn(k)'
    <3>1. past.disturbed \/ PutsAreIn(k)
      BY <1>1, <1>5, <2>3 DEF During
    <3>2. k \in 1..5
      OBVIOUS
    <3>3. Head(todo) = EmulatedPut(k)
      BY <1>1, <1>w, <2>3, <3>2, PutsFromIs DEF IsList
    <3>4. request # "asked"
      BY <3>3, Firsts DEF Asked
    <3>5. CASE PutsAreIn(k)
      <4>1. past'.disturbed \/ (core' = core /\ regs' = regs)
        BY <3>4, <3>5, HaltedHardware DEF PutsAreIn
      <4> QED BY <3>5, <4>1 DEF PutsAreIn
    <3> QED BY <1>1, <3>1, <3>5
  <2>4. During'
    BY <2>1, <2>2, <2>3 DEF During
  <2> QED BY <2>4 DEF ResetHaltOp
<1>6. CASE After
  <2>1. After'
    BY <1>1, <1>6, RestedHardware DEF After
  <2> QED BY <2>1 DEF ResetHaltOp
<1>7. CASE Finishing
  <2>1. request # "asked"
    BY <1>7, <1>l DEF Finishing, Asked, IsList
  <2>2. Finishing'
    BY <1>1, <1>7, <1>a, <1>c, <2>1 DEF Finishing
  <2> QED BY <2>2 DEF ResetHaltOp
<1> QED BY <1>2, <1>3, <1>4, <1>5, <1>6, <1>7 DEF ResetHaltOp

-----------------------------------------------------------------------------
(* Where an operation is, whatever happens.                                *)

\* A step of any operation leaves a list of it.
LEMMA WhereHost ==
  ASSUME Types, Owing, regs' \in [Fields -> 0..1], op \in Ops \cup {None}, Where, StepBit,
         HostStep
  PROVE  Where'
<1>1. op' = op /\ op \in Ops
  BY HostKeeps, Dispatch DEF Where
<1>2. HaltOp' /\ CatchOp' /\ ReadOp' /\ WriteOp' /\ ResumeOp'
  BY HaltStep, CatchStep, ReadStep, WriteStep, ResumeStep DEF Where
<1>3. DisconnectOp' /\ StepOp' /\ ResetOp' /\ ResetHaltOp'
  BY DisconnectHost, StepHost, ResetStep, ResetHaltHost DEF Where
<1>4. op' # None
  BY <1>1, OpsAre DEF None
<1> QED BY <1>2, <1>3, <1>4 DEF Where

\* So does a failing access.
LEMMA WhereFails ==
  ASSUME Types, Owing, op \in Ops \cup {None}, Where, Fails
  PROVE  Where'
<1>1. op' = op /\ op \in Ops
  BY FailsKeep DEF Where
<1>2. HaltOp' /\ CatchOp' /\ ReadOp' /\ WriteOp' /\ ResumeOp'
  BY HaltStep, CatchStep, ReadStep, WriteStep, ResumeStep DEF Where
<1>3. DisconnectOp' /\ StepOp' /\ ResetOp' /\ ResetHaltOp'
  BY DisconnectFails, StepFails, ResetStep, ResetHaltFails DEF Where
<1>4. op' # None
  BY <1>1, OpsAre DEF None
<1> QED BY <1>2, <1>3, <1>4 DEF Where

\* What the core does by itself keeps what is true of the list.
LEMMA WhereHardware ==
  ASSUME Types, Owing, op \in Ops \cup {None}, Asked, Where, Hardware
  PROVE  Where'
<1>1. op' = op /\ todo' = todo /\ token' = token
  BY HardwareKeeps DEF host
<1>2. /\ (op' = None => todo' = << >>)
      /\ HaltOp' /\ CatchOp' /\ ReadOp'
  BY <1>1 DEF Where, HaltOp, CatchOp, ReadOp
<1>3. WriteOp' /\ ResumeOp' /\ ResetOp'
  BY <1>1 DEF Where, WriteOp, ResumeOp, ResetOp, Resuming, Resetting
<1>4. DisconnectOp' /\ StepOp' /\ ResetHaltOp'
  BY DisconnectHardware, StepHardware, ResetHaltHardware DEF Where
<1> QED BY <1>2, <1>3, <1>4 DEF Where

\* Between two operations there is no list.
LEMMA WhereReturn ==
  ASSUME Types, Return
  PROVE  Where'
<1>1. op' = None /\ todo' = << >>
  BY DEF Return, Idle
<1>2. None.name = "none"
  BY DEF None
<1> QED BY <1>1, <1>2
        DEF Where, HaltOp, CatchOp, ReadOp, WriteOp, ResumeOp, DisconnectOp, StepOp, ResetOp,
            ResetHaltOp

\* An operation starts with its first list.
LEMMA WhereStart ==
  ASSUME Types, MaskQuiet, NEW o \in Ops, Start(o)
  PROVE  Where'
<1>1. /\ op' = o /\ todo' = Program(o) /\ op = None /\ o # None
      /\ UNCHANGED <<dhcsr, vc, token, faults>>
      /\ (token < MaxToken \/ o.name \in {"halt", "set_vector_catch", "read", "write"})
  BY OpsAre DEF Start, None, hardware
<1>2. /\ o.name = "step" => past'.mask = dhcsr.mask
      /\ o.name = "reset_and_halt" => past'.vc = vc
  BY DEF Start, NoPast
<1>p. TRUE \in BOOLEAN /\ FALSE \in BOOLEAN
  OBVIOUS
<1>3. HaltOp' /\ ReadOp'
  BY <1>1, Programs DEF HaltOp, ReadOp
<1>4. CatchOp'
  BY <1>1, Programs, Zenon DEF CatchOp
<1>5. WriteOp'
  <2>1. o.name = "write" => todo' = Cons(GetState, Checked(Enter1))
    BY <1>1, Programs, Zenon
  <2> QED BY <1>1, <2>1 DEF WriteOp
<1>6. ResumeOp'
  <2>1. o.name = "resume" => todo' = Cons(GetState, Resume1(<< >>))
    BY <1>1, Programs, Zenon
  <2> QED BY <1>1, <2>1 DEF ResumeOp, Resuming
<1>7. DisconnectOp'
  <2>1. o.name = "disconnect" =>
          todo' = IF o.resume THEN Catch(FALSE, Cons(GetState, Resume1(Releasing)))
                              ELSE Catch(FALSE, << >>)
    BY <1>1, Programs, Zenon
  <2>2. PICK a, b : a = Catch(FALSE, Cons(GetState, Resume1(Releasing))) /\ b = Catch(FALSE, << >>)
    OBVIOUS
  <2>3. o.name = "disconnect" => todo' = IF o.resume THEN a ELSE b
    BY <2>1, <2>2, Zenon
  <2>4. o.name = "disconnect" => token' < MaxToken
    BY <1>1
  <2> HIDE <1>p
  <2>5. \/ o.name # "disconnect"
        \/ ~o.resume /\ todo' = b
        \/ o.resume /\ todo' = a
    BY <2>3
  <2> QED BY <1>1, <2>2, <2>4, <2>5, Zenon DEF DisconnectOp
<1>8. StepOp'
  <2> SUFFICES ASSUME o.name = "step" PROVE StepOp'
    BY <1>1 DEF StepOp
  <2>1. todo' = Step1 /\ token' < MaxToken
    BY <1>1, Programs
  <2>2. past'.mask = dhcsr'.mask
    BY <1>1, <1>2
  <2>3. dhcsr.mask => faults > 0
    BY <1>1 DEF MaskQuiet, None
  <2>4. past'.mask => faults' > 0
    BY <1>1, <2>2, <2>3
  <2>5. todo' \in {Step1, Counting} /\ dhcsr'.mask = past'.mask
    BY <2>1, <2>2
  <2> QED BY <2>1, <2>4, <2>5, Zenon DEF StepOp
<1>9. ResetOp'
  <2>1. o.name = "reset" => todo' = Reset1(o.type, << >>) /\ token' < MaxToken
    BY <1>1, Programs
  <2> QED BY <1>1, <2>1 DEF ResetOp
<1>10. ResetHaltOp'
  <2> SUFFICES ASSUME o.name = "reset_and_halt" PROVE ResetHaltOp'
    BY <1>1 DEF ResetHaltOp
  <2>1. todo' = Cons(Halt, Reading(o.type)) /\ token' < MaxToken
    BY <1>1, Programs
  <2>2. vc' = past'.vc
    BY <1>1, <1>2
  <2>3. Before(o.type)'
    BY <2>1, <2>2 DEF Before
  <2> QED BY <1>1, <2>3 DEF ResetHaltOp
<1> QED BY <1>1, <1>3, <1>4, <1>5, <1>6, <1>7, <1>8, <1>9, <1>10 DEF Where
-----------------------------------------------------------------------------
(* Types.                                                                  *)

\* The hardware and what else is typed by itself.
Plainly ==
  /\ core \in {"running", "halted", "sleeping", "lockup", "held"}
  /\ dhcsr \in DhcsrValues
  /\ sticky \in [reset : BOOLEAN, retire : BOOLEAN]
  /\ vc \in BOOLEAN
  /\ request \in {"none", "asked", "overlooked"}
  /\ op \in Ops \cup {None}
  /\ faults \in 0..MaxTroubles /\ outside \in 0..MaxTroubles
  /\ menu \in Menus
  /\ owed \in BOOLEAN /\ (owed => faults > 0)

\* The registers, the cache over them and the host's copies.
Cached ==
  /\ DOMAIN cache \subseteq CORE_REGISTER
  /\ \A reg \in DOMAIN cache : cache[reg] \in [FieldsOf(reg) -> 0..1]
  /\ ctoken \in 0..(MaxToken + 1)
  /\ excused \subseteq CORE_REGISTER

\* The types, regrouped by what changes together.
LEMMA TypesAre ==
  Types <=> /\ Plainly /\ Cached
            /\ regs \in [Fields -> 0..1] /\ token \in 0..MaxToken
            /\ loc \in Locals /\ past \in Pasts /\ todo \in Seq(Steps)
BY DEF Types, TypeOK, Plainly, Cached, DhcsrValues

\* Values of registers, merged and restricted.
LEMMA ValuesMerge ==
  /\ \A a, b \in Values : Merged(a, b) \in Values
  /\ \A a \in [Fields -> 0..1], b \in Values : Merged(a, b) \in [Fields -> 0..1]
  /\ \A a \in Values : \A group : Restrict(a, group \cap DOMAIN a) \in Values
  /\ \A a \in [Fields -> 0..1], reg \in CORE_REGISTER :
       ValueOf(a, reg) \in [FieldsOf(reg) -> 0..1] /\ ValueOf(a, reg) \in Values
  /\ [Fields -> 0..1] \subseteq Values
<1>v. \A f, group : group \subseteq Fields /\ f \in [group -> 0..1] => f \in Values
  BY DEF Values
<1>w. \A a \in Values : /\ DOMAIN a \subseteq Fields
                        /\ a = [x \in DOMAIN a |-> a[x]]
                        /\ \A x \in DOMAIN a : a[x] \in 0..1
  BY DEF Values
<1>1. ASSUME NEW a \in Values, NEW b \in Values PROVE Merged(a, b) \in Values
  <2>1. DOMAIN a \cup DOMAIN b \subseteq Fields
    BY <1>w
  <2>2. Merged(a, b) \in [DOMAIN a \cup DOMAIN b -> 0..1]
    BY <1>w DEF Merged
  <2> QED BY <1>v, <2>1, <2>2
<1>2. ASSUME NEW a \in [Fields -> 0..1], NEW b \in Values
      PROVE  Merged(a, b) \in [Fields -> 0..1]
  <2>1. DOMAIN a = Fields /\ DOMAIN b \subseteq Fields
    BY <1>w
  <2>2. DOMAIN a \cup DOMAIN b = Fields
    BY <2>1
  <2> QED BY <1>w, <2>1, <2>2 DEF Merged
<1>3. ASSUME NEW a \in Values, NEW group PROVE Restrict(a, group \cap DOMAIN a) \in Values
  <2>1. group \cap DOMAIN a \subseteq Fields
    BY <1>w
  <2>2. Restrict(a, group \cap DOMAIN a) \in [group \cap DOMAIN a -> 0..1]
    BY <1>w DEF Restrict
  <2> QED BY <1>v, <2>1, <2>2
<1>4. ASSUME NEW a \in [Fields -> 0..1], NEW reg \in CORE_REGISTER
      PROVE  ValueOf(a, reg) \in [FieldsOf(reg) -> 0..1] /\ ValueOf(a, reg) \in Values
  <2>1. FieldsOf(reg) \subseteq Fields
    BY DEF FieldsOf, CORE_REGISTER, Fields
  <2>2. ValueOf(a, reg) \in [FieldsOf(reg) -> 0..1]
    BY <2>1 DEF ValueOf, Restrict
  <2> QED BY <1>v, <2>1, <2>2
<1>5. [Fields -> 0..1] \subseteq Values
  BY <1>v
<1> QED BY <1>1, <1>2, <1>3, <1>4, <1>5

\* What the steps of an operation leave of the plain types.
LEMMA PlainlyHost ==
  ASSUME Types, HostStep
  PROVE  Plainly'
<1>1. Plainly /\ loc \in Locals /\ todo \in Seq(Steps) /\ todo # << >>
  BY TypesAre, Dispatch
<1>2. /\ Doing("dhcsr") => Arg \in DhcsrValues
      /\ Doing("write_vc") => Arg \in BOOLEAN
  <2>1. Head(todo) \in Steps
    BY <1>1
  <2> QED BY <2>1, StepKinds DEF Doing, Arg
<1>3. op' = op /\ faults' = faults /\ outside' = outside /\ menu' = menu /\ owed' = owed
  BY HostKeeps
<1>4. vc' \in BOOLEAN
  <2>1. CASE Doing("write_vc")
    <3>1. WriteVc
      BY <2>1, Dispatch DEF Doing
    <3> QED BY <1>2, <3>1 DEF WriteVc
  <2>2. CASE Doing("restore_vc")
    <3>1. RestoreVc
      BY <2>2, Dispatch DEF Doing
    <3> QED BY <1>1, <3>1 DEF RestoreVc, Locals
  <2>3. CASE ~Doing("write_vc") /\ ~Doing("restore_vc")
    BY <1>1, <2>3, HostKeeps DEF Plainly
  <2> QED BY <2>1, <2>2, <2>3
<1>5. dhcsr' \in DhcsrValues /\ core' \in {"running", "halted", "sleeping", "lockup", "held"}
  <2>1. CASE Doing("dhcsr")
    <3>1. WriteDhcsr
      BY <2>1, Dispatch DEF Doing
    <3> QED BY <1>1, <1>2, <3>1 DEF WriteDhcsr, Plainly
  <2>2. CASE Doing("release")
    <3>1. Release
      BY <2>2, Dispatch DEF Doing
    <3> QED BY <1>1, <3>1 DEF Release, Plainly, DhcsrValues
  <2>3. CASE Doing("nreset")
    <3>1. HardwareReset
      BY <2>3, Dispatch DEF Doing
    <3> QED BY <1>1, <3>1 DEF HardwareReset, Plainly, DhcsrValues
  <2>4. CASE ~Doing("dhcsr") /\ ~Doing("release") /\ ~Doing("nreset")
    BY <1>1, <2>4, HostKeeps DEF Plainly
  <2> QED BY <2>1, <2>2, <2>3, <2>4
<1>6. request' \in {"none", "asked", "overlooked"}
  <2>1. CASE Doing("aircr")
    <3>1. WriteAircr
      BY <2>1, Dispatch DEF Doing
    <3> QED BY <3>1 DEF WriteAircr
  <2>2. CASE ~Doing("aircr")
    BY <1>1, <2>2, HostKeeps DEF Plainly
  <2> QED BY <2>1, <2>2
<1>7. sticky' \in [reset : BOOLEAN, retire : BOOLEAN]
  <2>0. sticky' = sticky \/ ReadSticky \/ sticky' = [reset |-> TRUE, retire |-> FALSE]
    BY DEF HostStep, Awaited, WriteDhcsr, Release, ReadState, ReadStateAgain, Resume, BeginStep, AwaitStep,
           CountStep, Reset, HardwareReset, WriteAircr, AwaitReset, AwaitHalt, ReadDemcr, WriteVc,
           RestoreVc, SetThumb, CheckCache, Fill, Enter, ReadFirstRegister, PutRegister, hardware
  <2>1. \A a, b \in BOOLEAN : [reset |-> a, retire |-> b] \in [reset : BOOLEAN, retire : BOOLEAN]
    OBVIOUS
  <2>2. (core = "held") \in BOOLEAN /\ TRUE \in BOOLEAN /\ FALSE \in BOOLEAN
    OBVIOUS
  <2>3. ReadSticky => sticky' \in [reset : BOOLEAN, retire : BOOLEAN]
    BY <2>1, <2>2, Zenon DEF ReadSticky
  <2>4. sticky' = [reset |-> TRUE, retire |-> FALSE] =>
          sticky' \in [reset : BOOLEAN, retire : BOOLEAN]
    BY <2>1, <2>2, Zenon
  <2>5. sticky' = sticky => sticky' \in [reset : BOOLEAN, retire : BOOLEAN]
    BY <1>1 DEF Plainly
  <2> QED BY <2>0, <2>3, <2>4, <2>5, Zenon
<1> QED BY <1>1, <1>3, <1>4, <1>5, <1>6, <1>7 DEF Plainly

\* The registers are written by the Thumb bit and by transfers.
LEMMA RegsHost ==
  ASSUME Types, HostStep
  PROVE  regs' \in [Fields -> 0..1]
<1>1. regs \in [Fields -> 0..1] /\ loc.merge \in Values /\ todo \in Seq(Steps) /\ todo # << >>
  BY TypesAre, Dispatch DEF Locals
<1>2. CASE Doing("thumb")
  <2>1. SetThumb
    BY <1>2, Dispatch DEF Doing
  <2> QED BY <1>1, <2>1 DEF SetThumb, Fields
<1>3. CASE Doing("put")
  <2>1. Head(todo)[3] \in Values
    <3>1. Head(todo) \in Steps
      BY <1>1
    <3> QED BY <1>3, <3>1, StepKinds DEF Doing
  <2>2. PutRegister
    BY <1>3, Dispatch DEF Doing
  <2>3. regs' = regs \/ \E group :
          regs' = Merged(regs, Merged(Restrict(loc.merge, group \cap DOMAIN loc.merge),
                                      Head(todo)[3]))
    BY <2>2, Zenon DEF PutRegister
  <2>4. CASE regs' = regs
    BY <1>1, <2>4
  <2>5. CASE regs' # regs
    <3>1. PICK group :
            regs' = Merged(regs, Merged(Restrict(loc.merge, group \cap DOMAIN loc.merge),
                                        Head(todo)[3]))
      BY <2>3, <2>5
    <3>2. Restrict(loc.merge, group \cap DOMAIN loc.merge) \in Values
      BY <1>1, ValuesMerge, Zenon
    <3>3. Merged(Restrict(loc.merge, group \cap DOMAIN loc.merge), Head(todo)[3]) \in Values
      BY <2>1, <3>2, ValuesMerge, Zenon
    <3> QED BY <1>1, <3>1, <3>3, ValuesMerge, Zenon
  <2> QED BY <2>4, <2>5
<1>4. CASE ~Doing("thumb") /\ ~Doing("put")
  BY <1>1, <1>4, HostKeeps
<1> QED BY <1>2, <1>3, <1>4

\* The run token is counted up where there is room for it.
LEMMA TokenHost ==
  ASSUME Types, Where, HostStep
  PROVE  token' \in 0..MaxToken
<1>1. token \in 0..MaxToken /\ op \in Ops \cup {None} /\ todo # << >> /\ MaxToken \in Nat
  BY TypesAre, Dispatch, CortexMAssumption DEF Plainly
<1>2. CASE Head(todo)[1] \in {"resume", "count", "reset"}
  <2>1. token < MaxToken
    BY <1>1, <1>2, Kinds, OpsAre, Firsts
  <2>2. token' \in {token, token + 1}
    BY <1>2, Dispatch DEF Resume, CountStep, Reset
  <2> QED BY <1>1, <2>1, <2>2
<1>3. CASE Head(todo)[1] \notin {"resume", "count", "reset"}
  <2>1. token' = token
    BY <1>3, HostKeeps DEF Doing
  <2> QED BY <1>1, <2>1
<1> QED BY <1>2, <1>3

\* The host's locals.
LEMMA LocHost ==
  ASSUME Types, HostStep
  PROVE  loc' \in Locals
<1>1. /\ loc \in Locals /\ loc.merge \in Values /\ todo \in Seq(Steps) /\ todo # << >>
      /\ core \in {"running", "halted", "sleeping", "lockup", "held"} /\ vc \in BOOLEAN
      /\ regs \in [Fields -> 0..1]
  BY TypesAre, Dispatch DEF Locals, Plainly
<1>h. Head(todo) \in Steps
  BY <1>1
<1>2. CASE Head(todo)[1] = "state"
  <2>1. ReadState
    BY <1>2, Dispatch
  <2> QED BY <1>1, <2>1 DEF ReadState, Locals
<1>3. CASE Head(todo)[1] = "state_again"
  <2>1. ReadStateAgain
    BY <1>3, Dispatch
  <2> QED BY <1>1, <2>1 DEF ReadStateAgain, Locals
<1>4. CASE Head(todo)[1] = "read_demcr"
  <2>1. ReadDemcr
    BY <1>4, Dispatch
  <2> QED BY <1>1, <2>1 DEF ReadDemcr, Locals
<1>m. ASSUME NEW value \in Values, loc' = [loc EXCEPT !.merge = value] PROVE loc' \in Locals
  BY <1>1, <1>m DEF Locals
<1>5. CASE Head(todo)[1] = "read_first"
  <2>1. ReadFirstRegister
    BY <1>5, Dispatch
  <2>2. Arg \in CORE_REGISTER
    BY <1>5, <1>h, StepKinds DEF Arg
  <2>3. ValueOf(regs, Arg) \in Values
    BY <1>1, <2>2, ValuesMerge, Zenon
  <2>4. Merged(loc.merge, ValueOf(regs, Arg)) \in Values
    BY <1>1, <2>3, ValuesMerge, Zenon
  <2>5. loc' = [loc EXCEPT !.merge = Merged(loc.merge, ValueOf(regs, Arg))]
    BY <2>1 DEF ReadFirstRegister
  <2> QED BY <1>m, <2>4, <2>5
<1>6. CASE Head(todo)[1] = "put"
  <2>1. Head(todo)[3] \in Values
    BY <1>6, <1>h, StepKinds
  <2>2. PutRegister
    BY <1>6, Dispatch
  <2>3. loc' = loc \/ \E group :
          loc' = [loc EXCEPT !.merge =
                    Merged(loc.merge, Merged(Restrict(loc.merge, group \cap DOMAIN loc.merge),
                                             Head(todo)[3]))]
    BY <2>2, Zenon DEF PutRegister
  <2>4. CASE loc' = loc
    BY <1>1, <2>4
  <2>5. CASE loc' # loc
    <3>1. PICK group :
            loc' = [loc EXCEPT !.merge =
                      Merged(loc.merge, Merged(Restrict(loc.merge, group \cap DOMAIN loc.merge),
                                               Head(todo)[3]))]
      BY <2>3, <2>5
    <3>2. Restrict(loc.merge, group \cap DOMAIN loc.merge) \in Values
      BY <1>1, ValuesMerge, Zenon
    <3>3. Merged(Restrict(loc.merge, group \cap DOMAIN loc.merge), Head(todo)[3]) \in Values
      BY <2>1, <3>2, ValuesMerge, Zenon
    <3>4. Merged(loc.merge, Merged(Restrict(loc.merge, group \cap DOMAIN loc.merge),
                                   Head(todo)[3])) \in Values
      BY <1>1, <3>3, ValuesMerge, Zenon
    <3> QED BY <1>m, <3>1, <3>4
  <2> QED BY <2>4, <2>5
<1>7. CASE Head(todo)[1] \notin {"state", "state_again", "read_demcr", "read_first", "put"}
  <2>1. loc' = loc
    BY <1>7 DEF HostStep, Awaited, WriteDhcsr, Release, ReadState, ReadStateAgain, Resume, BeginStep,
           AwaitStep, CountStep, Reset, HardwareReset, WriteAircr, AwaitReset, AwaitHalt, ReadDemcr,
           WriteVc, RestoreVc, SetThumb, CheckCache, Fill, Enter, ReadFirstRegister, PutRegister,
           Doing
  <2> QED BY <1>1, <2>1
<1> QED BY <1>2, <1>3, <1>4, <1>5, <1>6, <1>7
\* Names in the cache have values of theirs.
Entries(c) == DOMAIN c \subseteq CORE_REGISTER
                /\ \A reg \in DOMAIN c : c[reg] \in [FieldsOf(reg) -> 0..1]

\* What is read and what is written is entered as a value of its name.
LEMMA EntriesKept ==
  ASSUME NEW c, Entries(c), NEW list \in Seq(CORE_REGISTER)
  PROVE  /\ Entries(EmptyCache)
         /\ \A values \in [Fields -> 0..1] : Entries(AfterRead(c, list, values))
         /\ \A bit \in 0..1 : Entries(AfterWrite(c, list, bit))
         /\ ToSet(list) \subseteq CORE_REGISTER
         /\ Filled(Missing(c, list)) \subseteq CORE_REGISTER
<1>1. ToSet(list) \subseteq CORE_REGISTER
  BY DEF ToSet
<1>2. CFBP_REGS \subseteq CORE_REGISTER /\ XPSR_REGS \subseteq CORE_REGISTER
      /\ "cfbp" \in CORE_REGISTER /\ "xpsr" \in CORE_REGISTER
  BY DEF CFBP_REGS, XPSR_REGS, CORE_REGISTER, Fields
<1>3. Missing(c, list) \subseteq CORE_REGISTER
  BY <1>1, <1>2 DEF Missing
<1>4. Filled(Missing(c, list)) \subseteq CORE_REGISTER
  BY <1>2, <1>3 DEF Filled
<1>5. ASSUME NEW names, names \subseteq CORE_REGISTER, NEW new,
             DOMAIN new = names, \A reg \in names : new[reg] \in [FieldsOf(reg) -> 0..1]
      PROVE  Entries(Merged(c, new))
  <2>1. DOMAIN Merged(c, new) = DOMAIN c \cup names
    BY <1>5 DEF Merged
  <2>2. \A reg \in DOMAIN c \cup names :
          Merged(c, new)[reg] = IF reg \in names THEN new[reg] ELSE c[reg]
    BY <1>5 DEF Merged
  <2> QED BY <1>5, <2>1, <2>2 DEF Entries
<1>6. ASSUME NEW values \in [Fields -> 0..1] PROVE Entries(AfterRead(c, list, values))
  <2> DEFINE names == Filled(Missing(c, list))
             new == [reg \in names |-> ValueOf(values, reg)]
  <2>1. \A reg \in names : ValueOf(values, reg) \in [FieldsOf(reg) -> 0..1]
    BY <1>4, ValuesMerge, Zenon
  <2>2. DOMAIN new = names /\ \A reg \in names : new[reg] \in [FieldsOf(reg) -> 0..1]
    BY <2>1
  <2>3. AfterRead(c, list, values) = Merged(c, new)
    BY DEF AfterRead
  <2> HIDE DEF new, names
  <2>4. names \subseteq CORE_REGISTER
    BY <1>4 DEF names
  <2> QED BY <1>5, <2>2, <2>3, <2>4
<1>7. ASSUME NEW bit \in 0..1 PROVE Entries(AfterWrite(c, list, bit))
  <2> DEFINE names == ToSet(list)
             new == [reg \in names |-> Data(reg, bit)]
             entered == Merged(c, new)
  <2>1. \A reg \in names : Data(reg, bit) \in [FieldsOf(reg) -> 0..1]
    BY DEF Data
  <2>2. DOMAIN new = names /\ \A reg \in names : new[reg] \in [FieldsOf(reg) -> 0..1]
    BY <2>1
  <2>3. AfterWrite(c, list, bit) = Restrict(entered, DOMAIN entered \ Groups(names))
    BY DEF AfterWrite, Forget
  <2> HIDE DEF new
  <2>4. Entries(entered)
    BY <1>1, <1>5, <2>2
  <2> HIDE DEF entered, names
  <2> QED BY <2>3, <2>4 DEF Entries, Restrict
<1>8. Entries(EmptyCache)
  BY DEF Entries, EmptyCache
<1> QED BY <1>1, <1>4, <1>6, <1>7, <1>8

\* The cache and what it may let go stale.
LEMMA CachedHost ==
  ASSUME Types, Where, HostStep
  PROVE  Cached' /\ past' \in Pasts
<1>1. /\ Cached /\ Entries(cache) /\ past \in Pasts /\ regs \in [Fields -> 0..1]
      /\ todo # << >> /\ token \in 0..MaxToken /\ MaxToken \in Nat
      /\ op \in Ops \cup {None}
  BY TypesAre, Dispatch, CortexMAssumption DEF Cached, Entries, Plainly
<1>o. /\ Head(todo)[1] \in {"fill", "enter", "read_first"} => op.list \in Seq(CORE_REGISTER)
      /\ Head(todo)[1] = "enter" => op.bit \in 0..1
      /\ op.name = "write" => op.list \in Seq(CORE_REGISTER)
  <2>1. op \in Ops
    BY <1>1 DEF Where
  <2>2. Head(todo)[1] \in {"fill", "enter", "read_first"} => op.name \in {"read", "write"}
    BY <1>1, Kinds, OpsAre, Firsts
  <2>3. Head(todo)[1] = "enter" => op.name = "write"
    BY <1>1, Kinds, OpsAre, Firsts
  <2> QED BY <2>1, <2>2, <2>3, OpsAre
<1>e. ASSUME cache' = cache, ctoken' = ctoken, excused' \subseteq CORE_REGISTER PROVE Cached'
  BY <1>1, <1>e DEF Cached
<1>2. CASE Head(todo)[1] = "check_cache"
  <2>1. CheckCache
    BY <1>2, Dispatch
  <2>2. past' = past
    BY <2>1 DEF CheckCache
  <2>3. \/ cache' = EmptyCache /\ excused' = {} /\ ctoken' \in {ctoken, token}
        \/ UNCHANGED <<cache, ctoken, excused>>
    BY <2>1 DEF CheckCache
  <2>4. CASE cache' = EmptyCache /\ excused' = {} /\ ctoken' \in {ctoken, token}
    <3>1. DOMAIN EmptyCache = {}
      BY DEF EmptyCache
    <3> QED BY <1>1, <2>2, <2>4, <3>1 DEF Cached
  <2>5. CASE UNCHANGED <<cache, ctoken, excused>>
    BY <1>1, <1>e, <2>2, <2>5 DEF Cached
  <2> QED BY <2>3, <2>4, <2>5
<1>3. CASE Head(todo)[1] = "fill"
  <2>1. Fill
    BY <1>3, Dispatch
  <2> DEFINE names == Filled(Missing(cache, op.list))
  <2>2. op.list \in Seq(CORE_REGISTER)
    BY <1>3, <1>o
  <2>3. names \subseteq CORE_REGISTER /\ Entries(AfterRead(cache, op.list, regs))
    BY <1>1, <2>2, EntriesKept
  <2>4. cache' = AfterRead(cache, op.list, regs) /\ ctoken' = ctoken
    BY <2>1 DEF Fill
  <2>5. \/ excused' = excused \ names /\ past' = past
        \/ Unhalted(names)
    BY <2>1 DEF Fill
  <2> HIDE DEF names
  <2>6. excused' \subseteq CORE_REGISTER /\ past' \in Pasts
    BY <1>1, <2>3, <2>5 DEF Unhalted, Pasts, Cached
  <2> QED BY <1>1, <2>3, <2>4, <2>6 DEF Cached, Entries
<1>4. CASE Head(todo)[1] = "enter"
  <2>1. Enter
    BY <1>4, Dispatch
  <2>2. op.list \in Seq(CORE_REGISTER) /\ op.bit \in 0..1
    BY <1>4, <1>o
  <2>3. ToSet(op.list) \subseteq CORE_REGISTER /\ Entries(AfterWrite(cache, op.list, op.bit))
    BY <1>1, <2>2, EntriesKept
  <2>4. /\ cache' = AfterWrite(cache, op.list, op.bit) /\ ctoken' = ctoken
        /\ excused' = (excused \ ToSet(op.list)) \cup (Aliases(op.list) \cap DOMAIN cache)
    BY <2>1 DEF Enter
  <2>5. past' \in Pasts
    <3>1. regs \in Values
      BY <1>1, ValuesMerge, Zenon
    <3>2. past' = [past EXCEPT !.regs = regs, !.disturbed = past.disturbed \/ core # "halted"]
      BY <2>1, Zenon DEF Enter
    <3>3. \A values \in Values, b \in BOOLEAN :
            [past EXCEPT !.regs = values, !.disturbed = b] \in Pasts
      BY <1>1 DEF Pasts
    <3>4. (past.disturbed \/ core # "halted") \in BOOLEAN
      OBVIOUS
    <3> QED BY <3>1, <3>2, <3>3, <3>4, Zenon
  <2>6. excused' \subseteq CORE_REGISTER
    BY <1>1, <2>4 DEF Cached
  <2> QED BY <1>1, <2>3, <2>4, <2>5, <2>6 DEF Cached, Entries
<1>u. ASSUME UNCHANGED <<cache, ctoken>>, NEW names, names \subseteq CORE_REGISTER,
             UNCHANGED <<past, excused>> \/ Unhalted(names)
      PROVE  Cached' /\ past' \in Pasts
  <2>1. excused' \subseteq CORE_REGISTER /\ past' \in Pasts
    BY <1>1, <1>u DEF Unhalted, Pasts, Cached
  <2> QED BY <1>e, <1>u, <2>1
<1>5. CASE Head(todo)[1] = "thumb"
  <2>1. SetThumb
    BY <1>5, Dispatch
  <2>2. UNCHANGED <<cache, ctoken>> /\ (UNCHANGED <<past, excused>> \/ Unhalted({}))
    BY <2>1 DEF SetThumb, history
  <2>3. {} \subseteq CORE_REGISTER
    OBVIOUS
  <2> QED BY <1>u, <2>2, <2>3
<1>6. CASE Head(todo)[1] = "read_first"
  <2>1. ReadFirstRegister
    BY <1>6, Dispatch
  <2>2. ToSet(op.list) \subseteq CORE_REGISTER
    BY <1>1, <1>6, <1>o, EntriesKept
  <2>3. UNCHANGED <<cache, ctoken>> /\ (UNCHANGED <<past, excused>> \/ Unhalted(ToSet(op.list)))
    BY <2>1 DEF ReadFirstRegister, history
  <2> QED BY <1>u, <2>2, <2>3
<1>7. CASE Head(todo)[1] = "put"
  <2>1. PutRegister
    BY <1>7, Dispatch
  <2>2. PICK names : names = IF op.name = "write" THEN ToSet(op.list) ELSE {}
    OBVIOUS
  <2>3. names \subseteq CORE_REGISTER
    <3>1. op.name = "write" => ToSet(op.list) \subseteq CORE_REGISTER
      BY <1>1, <1>o, EntriesKept
    <3> QED BY <2>2, <3>1
  <2>4. UNCHANGED <<cache, ctoken>> /\ (UNCHANGED <<past, excused>> \/ Unhalted(names))
    BY <2>1, <2>2 DEF PutRegister, history
  <2> QED BY <1>u, <2>3, <2>4
<1>8. CASE Head(todo)[1] \notin {"check_cache", "fill", "enter", "thumb", "read_first", "put"}
  <2>1. UNCHANGED <<cache, ctoken, past, excused>>
    BY <1>8 DEF HostStep, Awaited, WriteDhcsr, Release, ReadState, ReadStateAgain, Resume, BeginStep,
           AwaitStep, CountStep, Reset, HardwareReset, WriteAircr, AwaitReset, AwaitHalt, ReadDemcr,
           WriteVc, RestoreVc, SetThumb, CheckCache, Fill, Enter, ReadFirstRegister, PutRegister,
           Doing, history
  <2>2. excused' \subseteq CORE_REGISTER
    BY <1>1, <2>1 DEF Cached
  <2> QED BY <1>1, <1>e, <2>1, <2>2
<1> QED BY <1>2, <1>3, <1>4, <1>5, <1>6, <1>7, <1>8
\* The steps left.
LEMMA TodoHost ==
  ASSUME Types, Where, StepBit, HostStep
  PROVE  todo' \in Seq(Steps)
<1>1. todo # << >> /\ todo \in Seq(Steps) /\ op \in Ops \cup {None} /\ op' = op
      /\ past'.mask = past.mask
  BY TypesAre, Dispatch, HostKeeps DEF Plainly
<1>2. PICK first, rest : first = Head(todo) /\ rest = Tail(todo)
  OBVIOUS
<1>3. IsList(todo, first, rest)
  BY <1>1, <1>2 DEF IsList
<1>4. first \in Steps /\ rest \in Seq(Steps)
  BY <1>1, <1>2
<1>5. CASE first[1] \notin {"state", "resume", "step", "await_step", "reset", "await_reset",
                            "await_halt", "enter"}
  <2>1. todo' = rest
    BY <1>3, <1>5, Advance
  <2> QED BY <1>4, <2>1
<1>6. CASE first[1] \in {"await_step", "await_reset"}
  <2>1. todo' \in {todo, rest}
    BY <1>3, <1>6, Advance
  <2> QED BY <1>1, <1>4, <2>1
<1>7. CASE first[1] = "state"
  <2>1. todo' \in {rest, Cons(<<"state_again">>, rest)}
    BY <1>3, <1>7, Advance
  <2>2. Cons(<<"state_again">>, rest) \in Seq(Steps)
    BY <1>4, Wraps DEF IsList
  <2> QED BY <1>4, <2>1, <2>2
<1>8. CASE first[1] = "resume"
  <2>1. todo' \in {rest, Cons(Go, rest)}
    BY <1>3, <1>8, Advance
  <2>2. Cons(Go, rest) \in Seq(Steps)
    BY <1>4, Wraps DEF IsList
  <2> QED BY <1>4, <2>1, <2>2
<1>9. CASE first[1] = "await_halt"
  <2>1. todo' \in {rest, Cons(GetState, Cons(<<"await_halt">>, rest))}
    BY <1>3, <1>9, Advance
  <2>2. Cons(<<"await_halt">>, rest) \in Seq(Steps)
    BY <1>4, Wraps DEF IsList
  <2>3. Cons(GetState, Cons(<<"await_halt">>, rest)) \in Seq(Steps)
    BY <2>2, Wraps DEF IsList
  <2> QED BY <1>4, <2>1, <2>3
<1>10. CASE first[1] = "reset"
  <2>1. todo' \in {Cons(<<"nreset">>, AwaitingReset(rest)),
                   Cons(<<"aircr">>, AwaitingReset(rest)), Cons(Halt, PutsFrom(1, rest))}
    BY <1>3, <1>10, Advance
  <2>2. AwaitingReset(rest) \in Seq(Steps) /\ PutsFrom(1, rest) \in Seq(Steps)
    BY <1>4, Wraps, PutsFromIs DEF IsList
  <2>3. /\ IsList(Cons(<<"nreset">>, AwaitingReset(rest)), <<"nreset">>, AwaitingReset(rest))
        /\ IsList(Cons(<<"aircr">>, AwaitingReset(rest)), <<"aircr">>, AwaitingReset(rest))
        /\ IsList(Cons(Halt, PutsFrom(1, rest)), Halt, PutsFrom(1, rest))
    BY <2>2, Wraps
  <2> QED BY <2>1, <2>3 DEF IsList
<1>11. CASE first[1] = "step"
  <2>1. op \in Ops /\ op.name = "step"
    BY <1>1, <1>2, <1>11, Kinds, OpsAre, Firsts
  <2>2. AwaitingStep' = AwaitingStep /\ Going' = Going /\ Mask1' = Mask1
    BY <1>1, Zenon DEF Masking, StepMask, AwaitingStep, Going, Mask1
  <2>3. StepOp'
    BY <1>1, StepHost DEF Where
  <2>4. todo' \in {<< >>, Step1, Counting, Going, AwaitingStep, Mask1, Unmasking}
    BY <1>1, <2>1, <2>2, <2>3 DEF StepOp
  <2>5. /\ IsList(Counting, <<"count">>, << >>) /\ IsList(Step1, <<"step">>, << >>)
        /\ IsList(AwaitingStep, <<"await_step">>, IF Masking THEN Unmasking ELSE Counting)
        /\ Going \in Seq(Steps) /\ Mask1 \in Seq(Steps) /\ Unmasking \in Seq(Steps)
        /\ << >> \in Seq(Steps)
    BY <2>1, StepLists, LastLists
  <2> QED BY <2>4, <2>5 DEF IsList
<1>12. CASE first[1] = "enter"
  <2>1. op \in Ops /\ op.name = "write"
    BY <1>1, <1>2, <1>12, Kinds, OpsAre, Firsts
  <2>2. WriteOp'
    BY <1>1, WriteStep DEF Where
  <2>3. Enter1 \in Seq(Steps) /\ << >> \in Seq(Steps)
    BY LastLists DEF IsList
  <2>4. Checked(Enter1) \in Seq(Steps)
    BY <2>3, WrapsBegin
  <2>5. /\ Cons(GetState, Checked(Enter1)) \in Seq(Steps)
        /\ Cons(<<"state_again">>, Checked(Enter1)) \in Seq(Steps)
    BY <2>4, Wraps DEF IsList
  <2>6. \A s \in Seq(TransferSteps(op)) : s \in Seq(Steps)
    <3>1. PICK o : o = op
      OBVIOUS
    <3>2. TransferSteps(op) \subseteq Steps
      BY <2>1, <3>1, OpsAre, TransferStepsAre
    <3> QED BY <3>2
  <2>7. \/ todo' \in {Cons(GetState, Checked(Enter1)), Cons(<<"state_again">>, Checked(Enter1)),
                      Checked(Enter1), Enter1}
        \/ todo' \in Seq(TransferSteps(op))
    BY <1>1, <2>1, <2>2 DEF WriteOp
  <2> QED BY <2>3, <2>4, <2>5, <2>6, <2>7
<1> QED BY <1>5, <1>6, <1>7, <1>8, <1>9, <1>10, <1>11, <1>12

\* A step of an operation keeps the types.
LEMMA TypesHost ==
  ASSUME Types, Where, StepBit, HostStep
  PROVE  Types'
<1>1. Plainly' /\ Cached' /\ past' \in Pasts
  BY PlainlyHost, CachedHost
<1>2. regs' \in [Fields -> 0..1] /\ token' \in 0..MaxToken /\ loc' \in Locals
  BY RegsHost, TokenHost, LocHost
<1>3. todo' \in Seq(Steps)
  BY TodoHost
<1> QED BY <1>1, <1>2, <1>3 DEF Types, TypeOK, Plainly, Cached, DhcsrValues

\* A failing access keeps the types.
LEMMA TypesFails ==
  ASSUME Types, Where, Fails
  PROVE  Types'
<1>1. /\ Plainly /\ Cached /\ past \in Pasts /\ regs \in [Fields -> 0..1]
      /\ loc \in Locals /\ todo \in Seq(Steps)
      /\ token \in 0..MaxToken /\ MaxToken \in Nat /\ MaxTroubles \in Nat
      /\ op \in Ops \cup {None} /\ faults \in 0..MaxTroubles /\ outside \in 0..MaxTroubles
  BY TypesAre, CortexMAssumption DEF Plainly
<1>2. /\ op' = op /\ menu' = menu /\ outside' = outside /\ token' = token /\ todo # << >>
      /\ UNCHANGED <<core, dhcsr, sticky, vc, regs, loc, cache, ctoken>>
      /\ \/ todo' = << >>
         \/ todo' = todo
         \/ todo' = Tail(todo)
      /\ owed \in BOOLEAN /\ (owed' => owed) /\ (faults > 0 => faults' > 0)
  BY FailsKeep DEF Types, TypeOK
<1>3. todo' \in Seq(Steps)
  <2>1. << >> \in Seq(Steps)
    BY EmptySeq
  <2>2. \A s \in Seq(Steps) : s # << >> => Tail(s) \in Seq(Steps)
    OBVIOUS
  <2> QED BY <1>1, <1>2, <2>1, <2>2
<1>4. op.name = "write" => ToSet(op.list) \subseteq CORE_REGISTER
  <2>1. op \in Ops
    BY <1>1, <1>2 DEF Where
  <2> QED BY <1>1, <2>1, OpsAre, EntriesKept DEF Cached, Entries
<1>5. \A b \in BOOLEAN : /\ [past EXCEPT !.disturbed = b] \in Pasts
                         /\ [past EXCEPT !.raised = b] \in Pasts
                         /\ [past EXCEPT !.caught = b] \in Pasts
  BY <1>1 DEF Pasts
<1>b. TRUE \in BOOLEAN
  OBVIOUS
<1>6. past' \in Pasts
  <2>1. CASE NotReady
    BY <1>5, <1>b, <2>1, Zenon DEF NotReady
  <2>2. CASE AccessFails
    <3>1. past' = [past EXCEPT !.raised = TRUE] \/ past' = past
      BY <2>2 DEF AccessFails
    <3> QED BY <1>1, <1>5, <1>b, <3>1, Zenon
  <2>3. CASE WriteAircrFails
    <3>1. past' = [past EXCEPT !.raised = TRUE] \/ past' = [past EXCEPT !.caught = TRUE]
      BY <2>3 DEF WriteAircrFails
    <3> QED BY <1>5, <1>b, <3>1, Zenon
  <2>4. CASE AwaitTimesOut
    BY <1>5, <1>b, <2>4, Zenon DEF AwaitTimesOut
  <2> QED BY <2>1, <2>2, <2>3, <2>4 DEF Fails
<1>7. faults' \in 0..MaxTroubles
  <2>1. faults' = faults \/ (faults + outside < MaxTroubles /\ faults' = faults + 1)
    BY DEF Fails, NotReady, AccessFails, WriteAircrFails, AwaitTimesOut, Trouble
  <2>2. \A a, b, c \in Nat : a + b < c => a + 1 <= c
    OBVIOUS
  <2> QED BY <1>1, <2>1, <2>2
<1>8. request' \in {"none", "asked", "overlooked"}
  BY <1>1 DEF Fails, NotReady, AccessFails, WriteAircrFails, AwaitTimesOut, Overlook, Plainly,
              hardware
<1>9. excused' \subseteq CORE_REGISTER
  BY <1>1, <1>4 DEF Fails, NotReady, AccessFails, WriteAircrFails, AwaitTimesOut, Cached
<1>10. owed' \in BOOLEAN /\ (owed' => faults' > 0)
  <2>1. owed' = owed \/ owed' = FALSE
    BY DEF Fails, NotReady, AccessFails, WriteAircrFails, AwaitTimesOut, Trouble
  <2> QED BY <1>2, <2>1 DEF Types
<1> QED BY <1>1, <1>2, <1>3, <1>6, <1>7, <1>8, <1>9, <1>10
        DEF Types, TypeOK, Plainly, Cached, DhcsrValues

\* What the core does by itself keeps the types.
LEMMA TypesHardware ==
  ASSUME Types, Hardware
  PROVE  Types'
<1>1. /\ Plainly /\ Cached /\ past \in Pasts /\ regs \in [Fields -> 0..1]
      /\ loc \in Locals /\ todo \in Seq(Steps)
      /\ token \in 0..MaxToken /\ MaxToken \in Nat /\ MaxTroubles \in Nat
      /\ op \in Ops \cup {None} /\ faults \in 0..MaxTroubles /\ outside \in 0..MaxTroubles
  BY TypesAre, CortexMAssumption DEF Plainly
<1>2. UNCHANGED host /\ vc' = vc /\ faults' = faults
  BY HardwareKeeps
<1>3. core' \in {"running", "halted", "sleeping", "lockup", "held"}
  BY <1>1 DEF Hardware, Execute, HitBreakpoint, StopRequested, SleepOrWake, TakeReset,
              OutsideReset, LeaveReset, IntoReset, Plainly
<1>4. dhcsr' \in DhcsrValues
  <2> USE DEF Plainly, DhcsrValues
  <2>1. CASE Execute BY <1>1, <2>1 DEF Execute
  <2>2. CASE HitBreakpoint BY <1>1, <2>2 DEF HitBreakpoint
  <2>3. CASE StopRequested BY <1>1, <2>3 DEF StopRequested
  <2>4. CASE SleepOrWake BY <1>1, <2>4 DEF SleepOrWake
  <2>5. CASE TakeReset BY <1>1, <2>5 DEF TakeReset, IntoReset
  <2>6. CASE OutsideReset BY <1>1, <2>6 DEF OutsideReset, IntoReset
  <2>7. CASE LeaveReset BY <1>1, <2>7 DEF LeaveReset
  <2> QED BY <2>1, <2>2, <2>3, <2>4, <2>5, <2>6, <2>7 DEF Hardware
<1>5. sticky' \in [reset : BOOLEAN, retire : BOOLEAN]
  <2>1. \/ sticky' = sticky
        \/ sticky' = [sticky EXCEPT !.retire = sticky.reset]
        \/ sticky' = [reset |-> TRUE, retire |-> FALSE]
    BY DEF Hardware, Execute, HitBreakpoint, StopRequested, SleepOrWake, TakeReset,
           OutsideReset, LeaveReset, IntoReset
  <2>2. \A a, b \in BOOLEAN : [reset |-> a, retire |-> b] \in [reset : BOOLEAN, retire : BOOLEAN]
    OBVIOUS
  <2>3. sticky' = [reset |-> TRUE, retire |-> FALSE] =>
          sticky' \in [reset : BOOLEAN, retire : BOOLEAN]
    BY <2>2, Zenon
  <2>4. sticky' = [sticky EXCEPT !.retire = sticky.reset] =>
          sticky' \in [reset : BOOLEAN, retire : BOOLEAN]
    BY <1>1 DEF Plainly
  <2> QED BY <1>1, <2>1, <2>3, <2>4, Zenon DEF Plainly
<1>6. regs' \in [Fields -> 0..1]
  <2>1. CASE Execute
    <3>1. regs["r0"] \in 0..1
      BY <1>1 DEF Fields
    <3>2. \A x \in 0..1 : 1 - x \in 0..1
      OBVIOUS
    <3>3. 1 - regs["r0"] \in 0..1 /\ 1 \in 0..1
      BY <3>1, <3>2
    <3>4. regs' = [field \in Fields |-> IF field = "epsr" THEN 1 ELSE 1 - regs["r0"]]
      BY <2>1 DEF Execute
    <3> QED BY <3>3, <3>4
  <2>2. CASE LeaveReset
    <3>1. PICK thumb \in 0..1 : regs' = ResetValues(thumb)
      BY <2>2 DEF LeaveReset
    <3> QED BY <3>1 DEF ResetValues
  <2>3. CASE ~Execute /\ ~LeaveReset
    <3>1. regs' = regs
      BY <2>3 DEF Hardware, HitBreakpoint, StopRequested, SleepOrWake, TakeReset, OutsideReset
    <3> QED BY <1>1, <3>1
  <2> QED BY <2>1, <2>2, <2>3
<1>7. request' \in {"none", "asked", "overlooked"}
  BY <1>1, HardwareKeeps DEF Plainly
<1>8. outside' \in 0..MaxTroubles
  <2>1. outside' = outside \/ (faults + outside < MaxTroubles /\ outside' = outside + 1)
    BY DEF Hardware, Execute, HitBreakpoint, StopRequested, SleepOrWake, TakeReset,
           OutsideReset, LeaveReset, history
  <2>2. \A a, b, c \in Nat : a + b < c => b + 1 <= c
    OBVIOUS
  <2> QED BY <1>1, <2>1, <2>2
<1>9. past' \in Pasts /\ excused' \subseteq CORE_REGISTER
  <2>1. \A b \in BOOLEAN : [past EXCEPT !.disturbed = b] \in Pasts
    BY <1>1 DEF Pasts
  <2>2. \/ past' = past /\ excused' = excused
        \/ past' = [past EXCEPT !.disturbed = TRUE] /\ excused' = DOMAIN cache
    BY DEF Hardware, Execute, HitBreakpoint, StopRequested, SleepOrWake, TakeReset,
           OutsideReset, LeaveReset, history
  <2>3. past' \in Pasts
    BY <1>1, <2>1, <2>2, Zenon
  <2>4. excused' \subseteq CORE_REGISTER
    BY <1>1, <2>2 DEF Cached
  <2> QED BY <2>3, <2>4
<1> QED BY <1>1, <1>2, <1>3, <1>4, <1>5, <1>6, <1>7, <1>8, <1>9
        DEF Types, TypeOK, Plainly, Cached, DhcsrValues, host

\* What a session finds at first, and between its operations.
LEMMA Blank ==
  /\ NoPast \in Pasts /\ NoLocals \in Locals /\ EmptyCache = [reg \in {} |-> << >>]
  /\ ~NoPast.mask /\ ~NoPast.vc /\ ~NoPast.raised /\ ~NoPast.disturbed /\ ~NoPast.caught
<1>1. [field \in {} |-> 0] \in Values
  BY DEF Values
<1>2. \A values \in Values, a, b, c, d, e \in BOOLEAN :
        [regs |-> values, mask |-> a, vc |-> b, raised |-> c, disturbed |-> d,
         caught |-> e] \in Pasts
  BY DEF Pasts
<1>3. \A values \in Values, a \in BOOLEAN :
        [state |-> "unread", vc |-> a, merge |-> values] \in Locals
  BY DEF Locals
<1>4. FALSE \in BOOLEAN
  OBVIOUS
<1>5. NoPast \in Pasts /\ NoLocals \in Locals
  BY <1>1, <1>2, <1>3, <1>4, Zenon DEF NoPast, NoLocals
<1> QED BY <1>5 DEF NoPast, EmptyCache

\* The end of an operation keeps the types.
LEMMA TypesReturn ==
  ASSUME Types, Return
  PROVE  Types'
BY Blank, EmptySeq DEF Types, TypeOK, Return, hardware, Idle

\* The start of an operation keeps the types.
LEMMA TypesStart ==
  ASSUME Types, NEW o \in Ops, Start(o)
  PROVE  Types'
<1>1. Plainly /\ past \in Pasts
  BY TypesAre
<1>2. todo' \in Seq(Steps)
  <2>1. todo' = Program(o)
    BY DEF Start
  <2>2. << >> \in Seq(Steps) /\ TRUE \in BOOLEAN /\ FALSE \in BOOLEAN
    BY EmptySeq
  <2>3. Fill1 \in Seq(Steps) /\ Enter1 \in Seq(Steps) /\ Releasing \in Seq(Steps)
        /\ Step1 \in Seq(Steps)
    BY LastLists DEF IsList
  <2>4. /\ Checked(Fill1) \in Seq(Steps) /\ Checked(Enter1) \in Seq(Steps)
        /\ Resume1(Releasing) \in Seq(Steps) /\ Resume1(<< >>) \in Seq(Steps)
    BY <2>2, <2>3, WrapsBegin
  <2>5. /\ Cons(GetState, Checked(Fill1)) \in Seq(Steps)
        /\ Cons(GetState, Checked(Enter1)) \in Seq(Steps)
        /\ Cons(GetState, Resume1(Releasing)) \in Seq(Steps)
        /\ Cons(GetState, Resume1(<< >>)) \in Seq(Steps)
    BY <2>4, WrapsBegin
  <2>6. IsList(Cons(Halt, << >>), Halt, << >>)
    BY <2>2, Wraps
  <2>7. /\ \A on \in BOOLEAN : Catch(on, << >>) \in Seq(Steps)
        /\ \A on \in BOOLEAN : Catch(on, Cons(GetState, Resume1(Releasing))) \in Seq(Steps)
    BY <2>2, <2>5, WrapsBegin, Zenon
  <2>8. o.name = "halt" => todo' \in Seq(Steps)
    BY <2>1, <2>6, Programs DEF IsList
  <2>9. o.name \in {"resume", "read", "write", "step"} => todo' \in Seq(Steps)
    BY <2>1, <2>3, <2>5, Programs
  <2>10. o.name = "set_vector_catch" => todo' \in Seq(Steps)
    <3>1. \A on \in BOOLEAN : Cons(<<"read_demcr">>, Catch(on, << >>)) \in Seq(Steps)
      <4> TAKE on \in BOOLEAN
      <4>1. Catch(on, << >>) \in Seq(Steps)
        BY <2>7
      <4> QED BY <4>1, Wraps DEF IsList
    <3> QED BY <2>1, <3>1, OpsAre, Programs, Zenon
  <2>11. o.name = "disconnect" => todo' \in Seq(Steps)
    <3>1. /\ Catch(FALSE, << >>) \in Seq(Steps)
          /\ Catch(FALSE, Cons(GetState, Resume1(Releasing))) \in Seq(Steps)
      BY <2>2, <2>7, Zenon
    <3>2. o.name = "disconnect" =>
            todo' = IF o.resume THEN Catch(FALSE, Cons(GetState, Resume1(Releasing)))
                                ELSE Catch(FALSE, << >>)
      BY <2>1, Programs, Zenon
    <3>3. CASE o.resume
      BY <3>1, <3>2, <3>3, Zenon
    <3>4. CASE ~o.resume
      BY <3>1, <3>2, <3>4, Zenon
    <3> QED BY <3>3, <3>4
  <2>12. o.name = "reset" => todo' \in Seq(Steps)
    <3> SUFFICES ASSUME o.name = "reset" PROVE todo' \in Seq(Steps)
      OBVIOUS
    <3>1. PICK type \in ResetTypes : type = o.type
      BY OpsAre
    <3>2. IsList(Reset1(type, << >>), <<"reset", type>>, << >>)
      BY <2>2, Wraps
    <3>3. todo' = Reset1(type, << >>)
      BY <2>1, <3>1, Programs
    <3> QED BY <3>2, <3>3, Begins
  <2>13. o.name = "reset_and_halt" => todo' \in Seq(Steps)
    <3> SUFFICES ASSUME o.name = "reset_and_halt" PROVE todo' \in Seq(Steps)
      OBVIOUS
    <3>1. PICK type \in ResetTypes : type = o.type
      BY OpsAre
    <3>2. IsList(Cons(Halt, Reading(type)), Halt, Reading(type))
      BY HaltLists, Zenon
    <3>3. todo' = Cons(Halt, Reading(type))
      BY <2>1, <3>1, Programs
    <3> QED BY <3>2, <3>3, Begins
  <2> QED BY <2>8, <2>9, <2>10, <2>11, <2>12, <2>13, OpsAre
<1>3. past' \in Pasts
  <2>1. \A b \in BOOLEAN : [NoPast EXCEPT !.mask = b] \in Pasts /\ [NoPast EXCEPT !.vc = b] \in Pasts
    BY Blank DEF Pasts
  <2>2. dhcsr.mask \in BOOLEAN /\ vc \in BOOLEAN
    BY <1>1 DEF Plainly, DhcsrValues
  <2>3. past' \in {NoPast, [NoPast EXCEPT !.mask = dhcsr.mask], [NoPast EXCEPT !.vc = vc]}
    BY DEF Start
  <2> QED BY <2>1, <2>2, <2>3, Blank, Zenon
<1> QED BY <1>2, <1>3 DEF Types, TypeOK, Start, hardware
-----------------------------------------------------------------------------
(* Posted writes that fail.                                                *)

\* A posted write that fails is over like one that did not.
LEMMA LostKeeps ==
  ASSUME Types, PostedLost
  PROVE  /\ UNCHANGED <<hardware, menu, op, loc, token, cache, ctoken, past, excused, outside>>
         /\ owed' /\ faults' \in 0..MaxTroubles /\ faults' > 0
         /\ todo # << >> /\ Head(todo)[1] \in Posted
         /\ todo' = Tail(todo) /\ Tail(todo) \in Seq(Steps)
<1>1. /\ todo \in Seq(Steps) /\ faults \in 0..MaxTroubles /\ outside \in 0..MaxTroubles
      /\ MaxTroubles \in Nat /\ (owed => faults > 0)
  BY CortexMAssumption DEF Types, TypeOK
<1>2. todo # << >> /\ Head(todo)[1] \in Posted /\ todo' = << >> \o Tail(todo)
  BY DEF PostedLost, Idle, Done, Then
<1>3. Tail(todo) \in Seq(Steps)
  BY <1>1, <1>2
<1>4. todo' = Tail(todo)
  BY <1>2, <1>3, ConcatEmptySeq
<1>5. faults' \in 0..MaxTroubles /\ faults' > 0
  BY <1>1 DEF PostedLost
<1> QED BY <1>2, <1>3, <1>4, <1>5 DEF PostedLost

\* The operations that post writes, and what follows one of them.
LEMMA PostedAre ==
  ASSUME Types, op \in Ops \cup {None}, Where, todo # << >>, Head(todo)[1] \in Posted
  PROVE  /\ op \in Ops /\ op.name \in {"set_vector_catch", "disconnect", "reset_and_halt"}
         /\ Tail(todo) = << >> \/ Head(Tail(todo))[1] \in {"state", "reset"}
         /\ op.name = "set_vector_catch" => Tail(todo) = << >>
         /\ op.name = "disconnect" =>
              \/ ~op.resume /\ Tail(todo) = << >>
              \/ /\ op.resume /\ Tail(todo) = Cons(GetState, Resume1(Releasing))
                 /\ token < MaxToken
              \/ op.resume /\ todo = Releasing /\ Tail(todo) = << >>
         /\ op.name = "reset_and_halt" =>
              \/ /\ todo = Catching(op.type) /\ Before(op.type)
                 /\ Tail(todo) = Reset1(op.type, Looking)
              \/ Finishing /\ Tail(todo) = << >>
<1>0. op \in Ops
  BY DEF Where
<1>e. << >> \in Seq(Steps) /\ TRUE \in BOOLEAN /\ FALSE \in BOOLEAN
  BY EmptySeq
<1>1. op.name \in {"set_vector_catch", "resume", "disconnect", "reset", "reset_and_halt"}
  <2>1. op.name # "halt"
    <3>1. Head(todo)[1] # "dhcsr"
      BY DEF Posted
    <3>2. op.name = "halt" => Head(todo) = Halt
      BY Kinds
    <3> QED BY <3>1, <3>2, Firsts
  <2>2. op.name \notin {"read", "write", "step"}
    <3>1. Head(todo)[1] \in {"write_vc", "restore_vc", "release"}
      BY DEF Posted
    <3>2. op.name = "read" => Head(todo)[1] \in {"state", "state_again", "check_cache", "fill"}
      BY Kinds
    <3>3. op.name = "write" => Head(todo)[1] \in {"state", "state_again", "check_cache", "enter",
                                                  "read_first", "put"}
      BY Kinds
    <3>4. op.name = "step" => Head(todo)[1] \in {"step", "count", "await_step", "dhcsr"}
      BY Kinds
    <3> QED BY <3>1, <3>2, <3>3, <3>4
  <2>3. op.name \in {"halt", "resume", "set_vector_catch", "step", "disconnect", "reset",
                     "reset_and_halt", "read", "write"}
    BY <1>0, OpsAre
  <2> QED BY <2>1, <2>2, <2>3
<1>2. op.name # "resume"
  BY <1>e, ResumingHeads DEF Where, ResumeOp, Posted
<1>3. op.name # "reset"
  <2> SUFFICES ASSUME op.name = "reset" PROVE FALSE
    OBVIOUS
  <2>1. CASE Resetting(<< >>)
    <3>1. IsList(AwaitingReset(<< >>), <<"await_reset">>, << >>)
      BY <1>e, Wraps
    <3>2. ResettingHeads(<< >>)
      BY <1>e, <2>1, ResettingAre
    <3> QED BY <3>1, <3>2 DEF ResettingHeads, IsList, Posted
  <2>2. CASE todo = Reset1(op.type, << >>)
    <3>1. PICK type \in ResetTypes : type = op.type
      BY <1>0, OpsAre
    <3>2. IsList(todo, <<"reset", type>>, << >>)
      BY <1>e, <2>2, <3>1, Wraps
    <3> QED BY <3>2, Firsts DEF IsList, Posted
  <2> QED BY <2>1, <2>2 DEF Where, ResetOp
<1>4. CASE op.name = "set_vector_catch"
  <2>1. PICK on \in BOOLEAN : on = op.on
    BY <1>0, <1>4, OpsAre
  <2>2. IsList(Catch(on, << >>), <<"write_vc", on>>, << >>)
    BY <1>e, Wraps
  <2>3. Catch(on, << >>) \in Seq(Steps)
    BY <2>2 DEF IsList
  <2>4. todo # Cons(<<"read_demcr">>, Catch(on, << >>))
    BY <2>3, WrapsBegin DEF Posted
  <2>5. todo = Catch(on, << >>)
    BY <1>4, <2>1, <2>4 DEF Where, CatchOp
  <2>6. Tail(todo) = << >>
    BY <2>2, <2>5 DEF IsList
  <2> QED BY <1>0, <1>4, <2>6
<1>5. CASE op.name = "disconnect"
  <2>1. /\ Releasing \in Seq(Steps) /\ IsList(Releasing, <<"release">>, << >>)
        /\ IsList(Catch(FALSE, << >>), <<"write_vc", FALSE>>, << >>)
    BY <1>e, Wraps, LastLists DEF IsList
  <2>2. PICK look \in Seq(Steps) : look = Cons(GetState, Resume1(Releasing))
    <3>1. Resume1(Releasing) \in Seq(Steps)
      BY <2>1, WrapsBegin
    <3> QED BY <3>1, WrapsBegin
  <2>3. IsList(Catch(FALSE, look), <<"write_vc", FALSE>>, look)
    BY <1>e, Wraps
  <2>4. Head(look)[1] = "state"
    <3>1. Resume1(Releasing) \in Seq(Steps)
      BY <2>1, WrapsBegin
    <3> QED BY <2>2, <3>1, WrapsBegin
  <2>5. ~Resuming(Releasing)
    BY <2>1, ResumingHeads DEF Posted
  <2>6. \/ ~op.resume /\ todo = Catch(FALSE, << >>)
        \/ op.resume /\ todo = Catch(FALSE, look) /\ token < MaxToken
        \/ op.resume /\ todo = Releasing
    BY <1>5, <2>2, <2>5 DEF Where, DisconnectOp
  <2>7. CASE ~op.resume /\ todo = Catch(FALSE, << >>)
    <3>1. Tail(todo) = << >>
      BY <2>1, <2>7 DEF IsList
    <3> QED BY <1>0, <1>5, <2>7, <3>1
  <2>8. CASE op.resume /\ todo = Catch(FALSE, look) /\ token < MaxToken
    <3>1. Tail(todo) = look
      BY <2>3, <2>8 DEF IsList
    <3>2. Head(Tail(todo))[1] = "state"
      BY <2>4, <3>1
    <3> QED BY <1>0, <1>5, <2>2, <2>8, <3>1, <3>2
  <2>9. CASE op.resume /\ todo = Releasing
    <3>1. Tail(todo) = << >>
      BY <2>1, <2>9 DEF IsList
    <3> QED BY <1>0, <1>5, <2>9, <3>1
  <2> QED BY <2>6, <2>7, <2>8, <2>9
<1>6. CASE op.name = "reset_and_halt"
  <2>1. PICK type \in ResetTypes : type = op.type
    BY <1>0, <1>6, OpsAre
  <2>l. /\ IsList(Restoring, <<"restore_vc">>, << >>)
        /\ IsList(Thumbing, <<"thumb">>, Restoring)
        /\ IsList(AwaitingHalt, <<"await_halt">>, Thumbing)
        /\ IsList(Looking, GetState, AwaitingHalt)
        /\ IsList(LookingAgain, <<"state_again">>, AwaitingHalt)
        /\ IsList(Reset1(type, Looking), <<"reset", type>>, Looking)
        /\ Catching(type) = Catch(TRUE, Reset1(type, Looking))
        /\ IsList(Reading(type), <<"read_demcr">>, Catching(type))
        /\ IsList(Cons(Halt, Reading(type)), Halt, Reading(type))
    BY HaltLists, Zenon
  <2>2. ~After
    BY <2>l, Firsts DEF After, IsList, Posted
  <2>3. ~During
    <3>1. Looking \in Seq(Steps)
      BY <2>l DEF IsList
    <3> QED BY <3>1, ResettingFirst, Firsts DEF During, Posted
  <2>4. Before(type) => todo = Catching(type)
    <3>1. todo \notin {Reset1(type, Looking), Reading(type), Cons(Halt, Reading(type))}
      BY <2>l, Firsts DEF IsList, Posted
    <3> QED BY <3>1 DEF Before
  <2>5. (Before(type) /\ todo = Catching(type)) \/ Finishing
    BY <1>6, <2>1, <2>2, <2>3, <2>4 DEF Where, ResetHaltOp, Over
  <2>6. CASE Before(type) /\ todo = Catching(type)
    <3>1. Reset1(type, Looking) \in Seq(Steps) /\ Head(Reset1(type, Looking))[1] = "reset"
      BY <2>l, Firsts DEF IsList
    <3>2. IsList(Catch(TRUE, Reset1(type, Looking)), <<"write_vc", TRUE>>, Reset1(type, Looking))
      BY <1>e, <3>1, Wraps
    <3>3. Tail(todo) = Reset1(type, Looking)
      BY <2>l, <2>6, <3>2 DEF IsList
    <3>4. Head(Tail(todo))[1] = "reset"
      BY <3>1, <3>3
    <3> QED BY <1>0, <1>6, <2>1, <2>6, <3>3, <3>4
  <2>7. CASE Finishing
    <3>1. Tail(todo) = << >>
      BY <2>l, <2>7 DEF Finishing, IsList
    <3> QED BY <1>0, <1>6, <2>7, <3>1
  <2> QED BY <2>5, <2>6, <2>7
<1> QED BY <1>1, <1>2, <1>3, <1>4, <1>5, <1>6

\* A posted write that fails leaves a list of its operation, and its error is owed.
LEMMA WhereLost ==
  ASSUME Types, op \in Ops \cup {None}, Where, PostedLost
  PROVE  Where'
<1>1. /\ op' = op /\ todo' = Tail(todo) /\ token' = token /\ past' = past /\ loc' = loc
      /\ UNCHANGED <<core, dhcsr, vc, regs, request>> /\ owed'
      /\ todo # << >> /\ Head(todo)[1] \in Posted /\ todo \in Seq(Steps)
  BY LostKeeps DEF hardware, Types
<1>2. op \in Ops /\ op.name \in {"set_vector_catch", "disconnect", "reset_and_halt"}
  BY <1>1, PostedAre
<1>3. op' # None
  BY <1>1, <1>2, OpsAre DEF None
<1>4. HaltOp' /\ ReadOp' /\ WriteOp' /\ ResumeOp' /\ StepOp' /\ ResetOp'
  BY <1>1, <1>2 DEF HaltOp, ReadOp, WriteOp, ResumeOp, StepOp, ResetOp
<1>5. CatchOp'
  <2>1. op.name = "set_vector_catch" => todo' = << >>
    BY <1>1, PostedAre
  <2> QED BY <1>1, <2>1 DEF CatchOp
<1>6. DisconnectOp'
  <2> SUFFICES ASSUME op.name = "disconnect" PROVE DisconnectOp'
    BY <1>1 DEF DisconnectOp
  <2>1. \/ ~op.resume /\ todo' = << >>
        \/ op.resume /\ todo' = Cons(GetState, Resume1(Releasing)) /\ token' < MaxToken
        \/ op.resume /\ todo' = << >>
    BY <1>1, PostedAre
  <2>2. todo' = Cons(GetState, Resume1(Releasing)) /\ token' < MaxToken => Resuming(Releasing)'
    BY DEF Resuming
  <2> QED BY <1>1, <2>1, <2>2 DEF DisconnectOp
<1>7. ResetHaltOp'
  <2> SUFFICES ASSUME op.name = "reset_and_halt" PROVE ResetHaltOp'
    BY <1>1 DEF ResetHaltOp
  <2>1. PICK type \in ResetTypes : type = op.type
    BY <1>2, OpsAre
  <2>2. CASE todo = Catching(type) /\ Before(type) /\ Tail(todo) = Reset1(type, Looking)
    <3>1. loc.vc = past.vc /\ dhcsr.debugen /\ token < MaxToken
      <4>1. /\ IsList(Reset1(type, Looking), <<"reset", type>>, Looking)
            /\ IsList(Reading(type), <<"read_demcr">>, Catching(type))
            /\ IsList(Cons(Halt, Reading(type)), Halt, Reading(type))
        BY HaltLists, Zenon
      <4>2. todo \notin {Reset1(type, Looking), Reading(type), Cons(Halt, Reading(type))}
        BY <1>1, <4>1, Firsts DEF IsList, Posted
      <4> QED BY <2>2, <4>2 DEF Before
    <3>2. Caught'
      BY <1>1, <3>1 DEF Caught
    <3>3. Before(type)'
      BY <1>1, <2>2, <3>1, <3>2 DEF Before
    <3> QED BY <1>1, <2>1, <3>3 DEF ResetHaltOp
  <2>3. CASE Finishing /\ Tail(todo) = << >>
    <3>1. Unsure' \/ AtReset'
      BY <1>1, <2>3 DEF Finishing, Unsure, AtReset
    <3>2. Over'
      BY <1>1, <2>3, <3>1 DEF Over
    <3> QED BY <3>2 DEF ResetHaltOp
  <2> QED BY <1>1, <2>1, <2>2, <2>3, PostedAre
<1> QED BY <1>3, <1>4, <1>5, <1>6, <1>7 DEF Where

\* The rest of the invariant, and the types.
LEMMA ElseLost ==
  ASSUME Types, Asked, PostedLost
  PROVE  Types' /\ MaskQuiet' /\ StepBit' /\ Asked'
<1>1. /\ UNCHANGED <<core, dhcsr, sticky, vc, regs, request>>
      /\ UNCHANGED <<menu, op, loc, token, cache, ctoken, past, excused, outside>>
      /\ owed' /\ faults' \in 0..MaxTroubles /\ faults' > 0
      /\ todo # << >> /\ Head(todo)[1] \in Posted /\ todo' \in Seq(Steps)
  BY LostKeeps DEF hardware
<1>2. owed' = TRUE
  BY DEF PostedLost
<1>3. Types'
  BY <1>1, <1>2 DEF Types, TypeOK
<1>4. request # "asked"
  BY <1>1 DEF Asked, Posted
<1> QED BY <1>1, <1>3, <1>4 DEF MaskQuiet, StepBit, Asked

\* The operation that owes an error has not come to an access that awaits an answer.
LEMMA OwingHost ==
  ASSUME Types, op \in Ops \cup {None}, Where, Owing, HostStep
  PROVE  Owing'
<1>1. owed' = owed /\ op' = op /\ todo # << >>
  BY HostKeeps, Dispatch
<1> SUFFICES ASSUME owed
             PROVE  IF todo' = << >> THEN op.name \notin Awaiting
                                     ELSE Head(todo')[1] \in Clearing
  BY <1>1 DEF Owing
<1>2. Head(todo)[1] \in {"write_vc", "reset"}
  <2>1. Head(todo)[1] \in Clearing
    BY <1>1 DEF Owing
  <2>2. WriteVc \/ RestoreVc \/ Release \/ Resume \/ Reset \/ AwaitHalt \/ CheckCache \/ Enter
    BY DEF HostStep
  <2>3. Head(todo)[1] \in {"write_vc", "restore_vc", "release", "resume", "reset", "await_halt",
                           "check_cache", "enter"}
    BY <2>2 DEF WriteVc, RestoreVc, Release, Resume, Reset, AwaitHalt, CheckCache, Enter, Doing
  <2> QED BY <2>1, <2>3 DEF Clearing
<1>3. PICK first, rest : first = Head(todo) /\ rest = Tail(todo)
  OBVIOUS
<1>4. IsList(todo, first, rest)
  BY <1>1, <1>3 DEF IsList, Types
<1>5. CASE first[1] = "write_vc"
  <2>1. todo' = Tail(todo)
    BY <1>3, <1>4, <1>5, Advance
  <2>2. /\ op.name \in {"set_vector_catch", "disconnect", "reset_and_halt"}
        /\ Tail(todo) = << >> \/ Head(Tail(todo))[1] \in {"state", "reset"}
    BY <1>1, <1>3, <1>5, PostedAre DEF Posted
  <2> QED BY <2>1, <2>2 DEF Clearing, Awaiting
<1>6. CASE first[1] = "reset"
  <2>1. /\ todo' \in {Cons(<<"nreset">>, AwaitingReset(rest)),
                      Cons(<<"aircr">>, AwaitingReset(rest)), Cons(Halt, PutsFrom(1, rest))}
        /\ rest \in Seq(Steps)
    BY <1>4, <1>6, Advance
  <2>2. AwaitingReset(rest) \in Seq(Steps) /\ PutsFrom(1, rest) \in Seq(Steps)
    <3>1. 1 \in 1..5
      OBVIOUS
    <3> QED BY <2>1, <3>1, Wraps, PutsFromIs DEF IsList
  <2>3. /\ IsList(Cons(<<"nreset">>, AwaitingReset(rest)), <<"nreset">>, AwaitingReset(rest))
        /\ IsList(Cons(<<"aircr">>, AwaitingReset(rest)), <<"aircr">>, AwaitingReset(rest))
        /\ IsList(Cons(Halt, PutsFrom(1, rest)), Halt, PutsFrom(1, rest))
    BY <2>2, Wraps
  <2> QED BY <2>1, <2>3, Firsts DEF IsList, Clearing
<1> QED BY <1>2, <1>3, <1>5, <1>6

\* An error that is raised is owed no more, and a posted write does not await an answer.
LEMMA OwingElse ==
  ASSUME Types, op \in Ops \cup {None}, Where, Owing, Fails \/ PostedLost \/ Hardware \/ Return
  PROVE  Owing'
<1>1. CASE Fails
  <2>1. owed' => owed /\ ~AccessFails /\ ~WriteAircrFails
    BY <1>1, FailsKeep
  <2>2. owed' => Head(todo)[1] \in Clearing
    BY <1>1, <2>1, FailsKeep DEF Owing
  <2>3. NotReady \/ AwaitTimesOut => Head(todo)[1] \notin Clearing
    BY DEF NotReady, AwaitTimesOut, Doing, Clearing
  <2>4. ~owed'
    BY <1>1, <2>1, <2>2, <2>3 DEF Fails
  <2> QED BY <2>4 DEF Owing
<1>2. CASE PostedLost
  <2>1. /\ op' = op /\ todo' = Tail(todo) /\ todo # << >> /\ Head(todo)[1] \in Posted
    BY <1>2, LostKeeps
  <2>2. /\ op.name \in {"set_vector_catch", "disconnect", "reset_and_halt"}
        /\ Tail(todo) = << >> \/ Head(Tail(todo))[1] \in {"state", "reset"}
    BY <2>1, PostedAre
  <2> QED BY <2>1, <2>2 DEF Owing, Clearing, Awaiting
<1>3. CASE Hardware
  <2>1. owed' = owed /\ op' = op /\ todo' = todo
    BY <1>3, HardwareKeeps DEF host
  <2> QED BY <2>1 DEF Owing
<1>4. CASE Return
  <2>1. todo' = << >> /\ op' = None /\ None.name = "none"
    BY <1>4 DEF Return, Idle, None
  <2> QED BY <2>1 DEF Owing, Awaiting
<1> QED BY <1>1, <1>2, <1>3, <1>4

\* Every operation but the resets of reset_and_halt and disconnect begins with an access.
LEMMA OwingStart ==
  ASSUME Types, NEW o \in Ops, Start(o)
  PROVE  Owing'
<1>1. todo' = Program(o)
  BY DEF Start
<1>e. << >> \in Seq(Steps) /\ FALSE \in BOOLEAN
  BY EmptySeq
<1> SUFFICES todo' # << >> /\ Head(todo')[1] \in Clearing
  BY DEF Owing
<1>2. CASE o.name = "halt"
  <2>1. IsList(Cons(Halt, << >>), Halt, << >>)
    BY <1>e, Wraps
  <2> QED BY <1>1, <1>2, <2>1, Programs, Firsts DEF IsList, Clearing
<1>3. CASE o.name \in {"resume", "read", "write"}
  <2>1. Fill1 \in Seq(Steps) /\ Enter1 \in Seq(Steps)
    BY LastLists DEF IsList
  <2>2. Checked(Fill1) \in Seq(Steps) /\ Checked(Enter1) \in Seq(Steps)
        /\ Resume1(<< >>) \in Seq(Steps)
    BY <1>e, <2>1, WrapsBegin
  <2>3. PICK rest \in Seq(Steps) : todo' = Cons(GetState, rest)
    BY <1>1, <1>3, <2>2, Programs
  <2>4. IsList(Cons(GetState, rest), GetState, rest)
    BY Wraps
  <2>5. PICK list : list = Cons(GetState, rest)
    OBVIOUS
  <2>6. todo' = list /\ list # << >> /\ Head(list)[1] = "state"
    BY <2>3, <2>4, <2>5, Firsts DEF IsList
  <2> QED BY <2>6 DEF Clearing
<1>4. CASE o.name = "step"
  <2>1. IsList(Step1, <<"step">>, << >>)
    BY LastLists
  <2>2. todo' = Step1
    BY <1>1, <1>4, Programs
  <2> QED BY <2>1, <2>2 DEF IsList, Clearing
<1>5. CASE o.name \in {"reset", "reset_and_halt"}
  <2>1. PICK type \in ResetTypes : type = o.type
    BY <1>5, OpsAre
  <2>2. /\ IsList(Reset1(type, << >>), <<"reset", type>>, << >>)
        /\ IsList(Cons(Halt, Reading(type)), Halt, Reading(type))
    BY <1>e, Wraps, HaltLists, Zenon
  <2>3. todo' \in {Reset1(type, << >>), Cons(Halt, Reading(type))}
    BY <1>1, <1>5, <2>1, Programs
  <2> QED BY <2>2, <2>3, Firsts DEF IsList, Clearing
<1>6. CASE o.name = "set_vector_catch"
  <2>1. PICK on \in BOOLEAN : on = o.on
    BY <1>6, OpsAre
  <2>2. Catch(on, << >>) \in Seq(Steps)
    BY <1>e, WrapsBegin
  <2>3. IsList(Cons(<<"read_demcr">>, Catch(on, << >>)), <<"read_demcr">>, Catch(on, << >>))
    BY <2>2, Wraps
  <2>4. todo' = Cons(<<"read_demcr">>, Catch(on, << >>))
    BY <1>1, <1>6, <2>1, Programs, Zenon
  <2> QED BY <2>3, <2>4 DEF IsList, Clearing
<1>7. CASE o.name = "disconnect"
  <2>1. Releasing \in Seq(Steps)
    BY LastLists DEF IsList
  <2>2. Resume1(Releasing) \in Seq(Steps)
    BY <2>1, WrapsBegin
  <2>3. Cons(GetState, Resume1(Releasing)) \in Seq(Steps)
    BY <2>2, WrapsBegin
  <2>5. todo' = IF o.resume THEN Catch(FALSE, Cons(GetState, Resume1(Releasing)))
                            ELSE Catch(FALSE, << >>)
    BY <1>1, <1>7, Programs, Zenon
  <2>6. PICK rest \in Seq(Steps) : todo' = Catch(FALSE, rest)
    <3>1. CASE o.resume BY <2>3, <2>5, <3>1, Zenon
    <3>2. CASE ~o.resume BY <1>e, <2>5, <3>2, Zenon
    <3> QED BY <3>1, <3>2
  <2>7. IsList(Catch(FALSE, rest), <<"write_vc", FALSE>>, rest)
    BY <1>e, Wraps
  <2>8. PICK list : list = Catch(FALSE, rest)
    OBVIOUS
  <2>9. PICK first : first = <<"write_vc", FALSE>> /\ first[1] = "write_vc"
    BY Firsts
  <2>10. todo' = list /\ list # << >> /\ Head(list) = first
    BY <2>6, <2>7, <2>8, <2>9, Zenon DEF IsList
  <2> QED BY <2>9, <2>10 DEF Clearing
<1> QED BY <1>2, <1>3, <1>4, <1>5, <1>6, <1>7, OpsAre

-----------------------------------------------------------------------------
(* What is known when nothing is left of an operation.                     *)

\* A step that is over left the mask it found.
LEMMA StepIdle ==
  ASSUME Types, op \in Ops, StepOp, op.name = "step", todo = << >>
  PROVE  (past.raised /\ faults > 0) \/ dhcsr.mask = past.mask
<1>1. /\ IsList(Counting, <<"count">>, << >>) /\ IsList(Step1, <<"step">>, << >>)
      /\ IsList(AwaitingStep, <<"await_step">>, IF Masking THEN Unmasking ELSE Counting)
      /\ AwaitingStep \in Seq(Steps) /\ Counting \in Seq(Steps)
  BY StepLists, LastLists DEF IsList
<1>2. TRUE \in BOOLEAN /\ FALSE \in BOOLEAN /\ StepMask \in BOOLEAN /\ Going \in Seq(Steps)
  BY StepLists
<1>3. todo # Unmasking
  BY <1>1, <1>2, Writes, Zenon DEF Unmasking, Halt
<1>4. todo # Mask1
  BY <1>2, Writes, Zenon DEF Mask1
<1>5. todo # Going
  BY <1>1, <1>2, Writes, Zenon DEF Going
<1>6. todo \notin {Counting, Step1, AwaitingStep}
  BY <1>1 DEF IsList
<1> QED BY <1>3, <1>4, <1>5, <1>6 DEF StepOp

\* A reset_and_halt that is over is Over.
LEMMA ResetHaltIdle ==
  ASSUME Types, op \in Ops, ResetHaltOp, op.name = "reset_and_halt", todo = << >>
  PROVE  Over
<1>1. PICK type \in ResetTypes : type = op.type
  BY OpsAre
<1>l. /\ IsList(Restoring, <<"restore_vc">>, << >>)
      /\ IsList(Thumbing, <<"thumb">>, Restoring)
      /\ IsList(AwaitingHalt, <<"await_halt">>, Thumbing)
      /\ IsList(Looking, GetState, AwaitingHalt)
      /\ IsList(LookingAgain, <<"state_again">>, AwaitingHalt)
  BY LooksAre
<1>2. ~After /\ ~Finishing
  BY <1>l DEF After, Finishing, IsList
<1>3. ~During
  <2>1. Looking \in Seq(Steps) /\ Head(Looking)[1] = "state"
    BY <1>l, Firsts DEF IsList
  <2> QED BY <2>1, ResettingFirst DEF During
<1>4. ~Before(type)
  <2>1. /\ IsList(Reset1(type, Looking), <<"reset", type>>, Looking)
        /\ IsList(Reading(type), <<"read_demcr">>, Catching(type))
        /\ IsList(Cons(Halt, Reading(type)), Halt, Reading(type))
    BY HaltLists, Zenon
  <2>2. todo \notin {Reset1(type, Looking), Reading(type), Cons(Halt, Reading(type))}
    BY <2>1 DEF IsList
  <2>3. todo # Catching(type)
    <3>1. /\ Catching(type) = Catch(TRUE, Reset1(type, Looking)) /\ TRUE \in BOOLEAN
          /\ Reset1(type, Looking) \in Seq(Steps)
      BY <2>1, HaltLists, Begins, Zenon
    <3> QED BY <3>1, Catches, Zenon
  <2> QED BY <2>2, <2>3 DEF Before
<1> QED BY <1>1, <1>2, <1>3, <1>4 DEF ResetHaltOp

\* A disconnect that is over released the core, or owes an error.
LEMMA DisconnectIdle ==
  ASSUME Types, op \in Ops, DisconnectOp, op.name = "disconnect", todo = << >>
  PROVE  past.raised \/ ~op.resume \/ Released \/ owed
<1>1. << >> \in Seq(Steps) /\ FALSE \in BOOLEAN
  BY EmptySeq
<1>2. Releasing \in Seq(Steps) /\ todo # Releasing
  BY LastLists DEF IsList
<1>3. ~Resuming(Releasing)
  BY <1>2, ResumingHeads
<1>4. todo # Catch(FALSE, << >>)
  BY <1>1, Catches, Zenon
<1>5. todo # Catch(FALSE, Cons(GetState, Resume1(Releasing)))
  <2>1. Resume1(Releasing) \in Seq(Steps)
    BY <1>2, WrapsBegin
  <2>2. Cons(GetState, Resume1(Releasing)) \in Seq(Steps)
    BY <2>1, WrapsBegin
  <2> QED BY <1>1, <2>2, Catches, Zenon
<1> QED BY <1>2, <1>3, <1>4, <1>5 DEF DisconnectOp

-----------------------------------------------------------------------------
(* The invariant.                                                          *)

\* IInv holds at the start.
LEMMA InitInv == Init => IInv
<1> SUFFICES ASSUME Init PROVE IInv
  OBVIOUS
<1>1. op = None /\ todo = << >> /\ None.name = "none"
  BY DEF Init, None
<1>2. Types
  <2>1. MaxToken \in Nat /\ MaxTroubles \in Nat
    BY CortexMAssumption
  <2>2. \A a, b, c, d \in BOOLEAN :
          /\ [debugen |-> a, halt |-> b, step |-> c, mask |-> d] \in DhcsrValues
          /\ [reset |-> a, retire |-> b] \in [reset : BOOLEAN, retire : BOOLEAN]
    BY DEF DhcsrValues
  <2>3. TRUE \in BOOLEAN /\ FALSE \in BOOLEAN
    OBVIOUS
  <2>4. dhcsr \in DhcsrValues /\ sticky \in [reset : BOOLEAN, retire : BOOLEAN] /\ vc \in BOOLEAN
    BY <2>2, <2>3, Zenon DEF Init
  <2>5. ResetValues(1) \in [Fields -> 0..1] /\ DOMAIN EmptyCache = {}
    BY DEF ResetValues, EmptyCache
  <2>6. token \in 0..MaxToken /\ ctoken \in 0..(MaxToken + 1)
        /\ faults \in 0..MaxTroubles /\ outside \in 0..MaxTroubles
    BY <2>1 DEF Init
  <2>7. todo \in Seq(Steps)
    BY <1>1, EmptySeq
  <2>8. past \in Pasts /\ loc \in Locals
    BY Blank DEF Init
  <2>9. /\ core \in {"running", "halted", "sleeping", "lockup", "held"}
        /\ request \in {"none", "asked", "overlooked"}
        /\ op \in Ops \cup {None} /\ excused \subseteq CORE_REGISTER
        /\ regs \in [Fields -> 0..1] /\ DOMAIN cache = {} /\ menu \in Menus
    BY <2>5 DEF Init
  <2>10. owed = FALSE
    BY DEF Init
  <2> QED BY <2>4, <2>6, <2>7, <2>8, <2>9, <2>10 DEF Types, TypeOK, DhcsrValues
<1>3. Where
  BY <1>1
     DEF Where, HaltOp, CatchOp, ReadOp, WriteOp, ResumeOp, DisconnectOp, StepOp, ResetOp,
         ResetHaltOp
<1>4. ~dhcsr.mask /\ ~dhcsr.step /\ request = "none" /\ ~owed
  BY DEF Init
<1> QED BY <1>2, <1>3, <1>4 DEF IInv, MaskQuiet, StepBit, Asked, Owing

\* An operation that begins or returns leaves the debug registers alone.
LEMMA BetweenKeeps ==
  ASSUME IInv, Return \/ \E o \in menu : Start(o)
  PROVE  MaskQuiet' /\ StepBit' /\ Asked'
<1>2. UNCHANGED <<dhcsr, request, faults>> /\ todo = << >>
  <2>1. CASE Return
    BY <2>1 DEF Return, hardware, Idle
  <2>2. CASE \E o \in menu : Start(o)
    BY <2>2 DEF Start, hardware, IInv, Where
  <2> QED BY <2>1, <2>2
<1>3. Types /\ op \in Ops \cup {None}
  BY DEF IInv, Types, TypeOK
<1>4. ~(op.name = "step" /\ todo = AwaitingStep)
  <2> SUFFICES ASSUME op.name = "step" PROVE todo # AwaitingStep
    OBVIOUS
  <2>1. op \in Ops
    BY <1>3 DEF None
  <2>2. IsList(AwaitingStep, <<"await_step">>, IF Masking THEN Unmasking ELSE Counting)
    BY <1>3, <2>1, StepLists
  <2> QED BY <1>2, <2>2 DEF IsList
<1>5. StepBit'
  BY <1>2, <1>4 DEF IInv, StepBit
<1>6. Asked'
  BY <1>2 DEF IInv, Asked
<1>7. MaskQuiet'
  <2> SUFFICES ASSUME op'.name # "step", dhcsr'.mask PROVE faults' > 0
    BY DEF MaskQuiet
  <2>1. CASE op.name # "step"
    BY <1>2, <2>1 DEF IInv, MaskQuiet
  <2>2. CASE op.name = "step"
    <3>1. Return
      BY <2>2 DEF Start, None
    <3>2. op \in Ops
      BY <1>3, <2>2 DEF None
    <3>3. /\ IsList(Counting, <<"count">>, << >>) /\ IsList(Step1, <<"step">>, << >>)
          /\ IsList(AwaitingStep, <<"await_step">>, IF Masking THEN Unmasking ELSE Counting)
      BY <1>3, <2>2, <3>2, StepLists, LastLists
    <3>4. past.mask => faults > 0
      BY <2>2 DEF IInv, Where, StepOp
    <3>5. (past.raised /\ faults > 0) \/ dhcsr.mask = past.mask
      BY <1>2, <1>3, <2>2, <3>2, StepIdle DEF IInv, Where
    <3> QED BY <1>2, <3>4, <3>5
  <2> QED BY <2>1, <2>2
<1> QED BY <1>5, <1>6, <1>7

\* Every step keeps IInv.
LEMMA NextInv == IInv /\ [Next]_vars => IInv'
<1> SUFFICES ASSUME IInv, [Next]_vars PROVE IInv'
  OBVIOUS
<1>0. Types /\ Where /\ Owing /\ MaskQuiet /\ StepBit /\ Asked /\ op \in Ops \cup {None}
  BY DEF IInv, Types, TypeOK
<1>1. CASE HostStep
  <2>1. Types'
    BY <1>0, <1>1, TypesHost
  <2>2. regs' \in [Fields -> 0..1]
    BY <1>0, <1>1, RegsHost
  <2>3. Where'
    BY <1>0, <1>1, <2>2, WhereHost
  <2>4. MaskQuiet' /\ StepBit' /\ Asked'
    BY <1>0, <1>1, MaskQuietHost, StepBitHost, AskedHost
  <2>5. Owing'
    BY <1>0, <1>1, OwingHost
  <2> QED BY <2>1, <2>3, <2>4, <2>5 DEF IInv
<1>o. ASSUME Fails \/ PostedLost \/ Hardware \/ Return PROVE Owing'
  BY <1>0, <1>o, OwingElse
<1>2. CASE Fails
  <2>1. Types' /\ Where' /\ Owing'
    BY <1>0, <1>2, <1>o, TypesFails, WhereFails
  <2>2. MaskQuiet' /\ StepBit' /\ Asked'
    BY <1>0, <1>2, MaskQuietElse, StepBitFails, AskedFails
  <2> QED BY <2>1, <2>2 DEF IInv
<1>7. CASE PostedLost
  BY <1>0, <1>7, <1>o, WhereLost, ElseLost DEF IInv
<1>3. CASE Hardware
  <2>1. Types' /\ Where' /\ Owing'
    BY <1>0, <1>3, <1>o, TypesHardware, WhereHardware
  <2>2. MaskQuiet' /\ StepBit' /\ Asked'
    BY <1>0, <1>3, MaskQuietElse, StepBitHardware, AskedHardware
  <2> QED BY <2>1, <2>2 DEF IInv
<1>4. CASE Return
  BY <1>0, <1>4, <1>o, TypesReturn, WhereReturn, BetweenKeeps DEF IInv
<1>5. ASSUME NEW o \in menu, Start(o) PROVE IInv'
  <2>1. o \in Ops
    BY <1>0, CortexMAssumption DEF Types
  <2>2. Types' /\ Where' /\ Owing'
    BY <1>0, <1>5, <2>1, TypesStart, WhereStart, OwingStart
  <2>3. MaskQuiet' /\ StepBit' /\ Asked'
    BY <1>5, BetweenKeeps
  <2> QED BY <2>2, <2>3 DEF IInv
<1>6. CASE UNCHANGED vars
  <2>1. Types'
    BY <1>0, <1>6 DEF vars, Types, TypeOK
  <2>2. Where'
    <3>1. /\ op' = op /\ todo' = todo /\ token' = token /\ past' = past /\ loc' = loc
          /\ core' = core /\ dhcsr' = dhcsr /\ vc' = vc /\ regs' = regs /\ request' = request
          /\ faults' = faults /\ outside' = outside /\ owed' = owed
      BY <1>6 DEF vars
    <3>2. (op' = None => todo' = << >>) /\ HaltOp' /\ CatchOp' /\ ReadOp' /\ WriteOp'
      BY <1>0, <3>1 DEF Where, HaltOp, CatchOp, ReadOp, WriteOp
    <3>3. ResumeOp' /\ ResetOp' /\ DisconnectOp'
      BY <1>0, <3>1 DEF Where, ResumeOp, ResetOp, DisconnectOp, Resuming, Resetting, Released
    <3>4. StepOp'
      <4>1. /\ Masking' = Masking /\ StepMask' = StepMask /\ Excused' = Excused
            /\ AwaitingStep' = AwaitingStep /\ Going' = Going /\ Mask1' = Mask1
        BY <3>1, Zenon DEF Masking, StepMask, Excused, AwaitingStep, Going, Mask1
      <4> QED BY <1>0, <3>1, <4>1 DEF Where, StepOp
    <3>5. ResetHaltOp'
      <4>1. /\ Caught' = Caught /\ Unsure' = Unsure /\ Rested' = Rested /\ AtReset' = AtReset
            /\ Resetting(Looking)' = Resetting(Looking)
        BY <3>1, Zenon DEF Caught, Unsure, Rested, AtReset, Resetting
      <4>2. \A k \in 2..5 : PutsAreIn(k) => PutsAreIn(k)'
        BY <3>1 DEF PutsAreIn
      <4> QED BY <1>0, <3>1, <4>1, <4>2
              DEF Where, ResetHaltOp, Over, Before, During, After, Finishing
    <3> QED BY <3>2, <3>3, <3>4, <3>5 DEF Where
  <2>3. MaskQuiet' /\ StepBit' /\ Asked' /\ Owing'
    BY <1>0, <1>6, Zenon DEF vars, MaskQuiet, StepBit, Asked, Owing, AwaitingStep, Masking
  <2> QED BY <2>1, <2>2, <2>3 DEF IInv
<1> QED BY <1>1, <1>2, <1>3, <1>4, <1>5, <1>6, <1>7 DEF Next, Fails

\* IInv is an invariant.
LEMMA Invariance == Spec => []IInv
BY InitInv, NextInv, PTL DEF Spec

-----------------------------------------------------------------------------
(* The theorems.                                                           *)

\* TypeOK: the variables keep their types.
THEOREM TypeCorrect == Spec => []TypeOK
<1>1. IInv => TypeOK
  BY DEF IInv, Types
<1> QED BY <1>1, Invariance, PTL

\* DebugStateRestored: step gives the interrupt mask back as it found it, reset_and_halt
\* the vector catch, and disconnect leaves no catch, no mask and no halted core, unless the
\* error of a posted write is owed; an operation that awaits an answer leaves none owed.
THEOREM DebugStateIsRestored == Spec => []DebugStateRestored
<1>1. IInv => DebugStateRestored
  <2> SUFFICES ASSUME IInv PROVE DebugStateRestored
    OBVIOUS
  <2>1. Types /\ Where /\ op \in Ops \cup {None}
    BY DEF IInv, Types, TypeOK
  <2>2. ASSUME Returned("step") PROVE dhcsr.mask = past.mask
    <3>1. op \in Ops /\ op.name = "step" /\ todo = << >> /\ ~past.raised
      BY <2>1, <2>2 DEF Returned, Idle, None
    <3> QED BY <2>1, <3>1, StepIdle DEF Where
  <2>3. ASSUME Returned("reset_and_halt") PROVE vc = past.vc \/ owed
    <3>1. op \in Ops /\ op.name = "reset_and_halt" /\ todo = << >> /\ ~past.raised
      BY <2>1, <2>3 DEF Returned, Idle, None
    <3>2. Over
      BY <2>1, <3>1, ResetHaltIdle DEF Where
    <3> QED BY <3>1, <3>2 DEF Over
  <2>4. ASSUME Returned("disconnect"), op.resume PROVE Released \/ owed
    <3>1. op \in Ops /\ op.name = "disconnect" /\ todo = << >> /\ ~past.raised
      BY <2>1, <2>4 DEF Returned, Idle, None
    <3> QED BY <2>1, <2>4, <3>1, DisconnectIdle DEF Where
  <2>5. ASSUME NEW name \in Awaiting, Returned(name) PROVE ~owed
    BY <2>5 DEF IInv, Owing, Returned, Idle
  <2> QED BY <2>2, <2>3, <2>4, <2>5 DEF DebugStateRestored, Released
<1> QED BY <1>1, Invariance, PTL

\* ResetHaltStops: when reset_and_halt returns undisturbed and caught no error, the core
\* stands at its reset values with the Thumb bit set.
THEOREM ResetHaltDoesStop == Spec => []ResetHaltStops
<1>1. IInv => ResetHaltStops
  <2> SUFFICES ASSUME IInv, Returned("reset_and_halt"), Undisturbed, ~past.caught
               PROVE  core = "halted" /\ regs = ResetValues(1)
    BY DEF ResetHaltStops
  <2>1. Types /\ Where /\ op \in Ops \cup {None}
    BY DEF IInv, Types, TypeOK
  <2>2. op \in Ops /\ op.name = "reset_and_halt" /\ todo = << >> /\ ~past.raised
    BY <2>1 DEF Returned, Idle, None
  <2>3. Over
    BY <2>1, <2>2, ResetHaltIdle DEF Where
  <2> QED BY <2>2, <2>3 DEF Over, Undisturbed, Unsure, AtReset
<1> QED BY <1>1, Invariance, PTL

\* MaskProtocol: C_MASKINTS changes only while C_HALT is set and stays set.
THEOREM MaskIsProtected == Spec => MaskProtocol
<1>1. ASSUME IInv, [Next]_vars
      PROVE  [dhcsr'.mask # dhcsr.mask =>
                (dhcsr.halt /\ dhcsr'.halt) \/ faults > 0 \/ outside > 0 \/ past.disturbed]_vars
  <2> SUFFICES ASSUME dhcsr'.mask # dhcsr.mask
               PROVE  (dhcsr.halt /\ dhcsr'.halt) \/ Excused
    BY DEF Excused
  <2>1. Types /\ Where /\ MaskQuiet /\ op \in Ops \cup {None}
    BY <1>1 DEF IInv, Types, TypeOK
  <2>2. HostStep
    <3>1. CASE Fails BY <2>1, <3>1, FailsKeep
    <3>2. CASE Hardware BY <2>1, <3>2, HardwareKeeps
    <3>3. CASE Return BY <3>3 DEF Return, hardware
    <3>4. CASE \E o \in menu : Start(o) BY <3>4 DEF Start, hardware
    <3>5. CASE UNCHANGED vars BY <3>5 DEF vars
    <3>6. CASE PostedLost BY <2>1, <3>6, LostKeeps DEF hardware
    <3> QED BY <1>1, <3>1, <3>2, <3>3, <3>4, <3>5, <3>6 DEF Next, Fails
  <2>3. dhcsr \in DhcsrValues /\ dhcsr' \in DhcsrValues /\ todo # << >>
    BY <2>1, <2>2, PlainlyHost, Dispatch DEF Types, TypeOK, DhcsrValues, Plainly
  <2>4. dhcsr.mask \in BOOLEAN /\ dhcsr'.mask \in BOOLEAN
    BY <2>3 DEF DhcsrValues
  <2>5. CASE op.name # "step"
    <3>1. ~dhcsr'.mask
      <4>1. CASE Doing("dhcsr")
        BY <2>1, <2>2, <2>5, <4>1, PlainWrites
      <4>2. CASE Doing("release") \/ Doing("nreset")
        BY <2>1, <2>2, <4>2, Releases
      <4>3. CASE ~(Doing("dhcsr") \/ Doing("release") \/ Doing("nreset"))
        BY <2>1, <2>2, <4>3, HostKeeps
      <4> QED BY <4>1, <4>2, <4>3
    <3>2. dhcsr.mask
      BY <2>4, <3>1
    <3> QED BY <2>1, <2>5, <3>2 DEF MaskQuiet, Excused
  <2>6. CASE op.name = "step"
    <3>1. op \in Ops
      BY <2>1, <2>6 DEF None
    <3>2. Doing("dhcsr")
      <4>1. Head(todo)[1] \notin {"release", "nreset"}
        BY <2>1, <2>3, <2>6, Kinds
      <4> QED BY <2>1, <2>2, <4>1, HostKeeps DEF Doing
    <3>3. /\ TRUE \in BOOLEAN /\ FALSE \in BOOLEAN /\ StepMask \in BOOLEAN
          /\ Counting \in Seq(Steps) /\ AwaitingStep \in Seq(Steps) /\ Going \in Seq(Steps)
          /\ Head(Counting)[1] = "count" /\ Head(Step1)[1] = "step"
          /\ Head(AwaitingStep)[1] = "await_step"
      <4>1. /\ IsList(Counting, <<"count">>, << >>) /\ IsList(Step1, <<"step">>, << >>)
            /\ IsList(AwaitingStep, <<"await_step">>, IF Masking THEN Unmasking ELSE Counting)
            /\ Going \in Seq(Steps) /\ StepMask \in BOOLEAN
        BY <2>1, <2>6, <3>1, StepLists, LastLists
      <4> QED BY <4>1 DEF IsList
    <3>4. \/ todo = Going /\ dhcsr.mask = StepMask
          \/ todo \in {Mask1, Unmasking} /\ (dhcsr.halt \/ Excused)
      <4>1. Head(todo)[1] = "dhcsr"
        BY <3>2 DEF Doing
      <4>2. todo \notin {Counting, Step1, AwaitingStep, << >>}
        BY <2>3, <3>3, <4>1
      <4>3. StepOp
        BY <2>1 DEF Where
      <4> QED BY <2>6, <4>2, <4>3 DEF StepOp
    <3>5. CASE todo = Going /\ dhcsr.mask = StepMask
      <4>1. dhcsr'.mask = StepMask
        BY <2>1, <2>2, <3>3, <3>5, Writes, Zenon DEF Going
      <4> QED BY <3>4, <3>5, <4>1
    <3>6. CASE todo = Mask1 /\ (dhcsr.halt \/ Excused)
      <4>1. dhcsr'.halt = TRUE
        BY <2>1, <2>2, <3>3, <3>6, Writes, Zenon DEF Mask1
      <4> QED BY <3>4, <3>6, <4>1
    <3>7. CASE todo = Unmasking /\ (dhcsr.halt \/ Excused)
      <4>1. dhcsr'.halt = TRUE
        BY <2>1, <2>2, <3>3, <3>7, Writes, Zenon DEF Unmasking, Halt
      <4> QED BY <3>4, <3>7, <4>1
    <3> QED BY <3>4, <3>5, <3>6, <3>7
  <2> QED BY <2>5, <2>6
<1> QED BY <1>1, Invariance, PTL DEF Spec, MaskProtocol
-----------------------------------------------------------------------------
(* The register cache.                                                     *)

Kept == DOMAIN cache \ excused
Stale == ctoken # token \/ Kept = {}

\* The run token of the cache is an earlier one of the core, or none.
TokenBehind == ctoken <= token \/ ctoken = MaxToken + 1

\* The transfers that a write has still to do, and their fields.
Left == {step \in Range(todo) : op.name = "write" /\ step[1] = "put"}
Pending == UNION {FieldsOf(step[2]) : step \in Left}

\* What a write has still to transfer is what it entered; the names that share a group or
\* a field with it are forgotten or excused.
Entered ==
  \A step \in Left :
    /\ step[3] = Data(step[2], op.bit)
    /\ step[2] \in CFBP_REGS => DOMAIN cache \cap CFBP_REGS = {}
    /\ step[2] \in XPSR_REGS => DOMAIN cache \cap XPSR_REGS = {}
    /\ \A reg \in Kept \ ToSet(op.list) : FieldsOf(reg) \cap FieldsOf(step[2]) = {}

\* A run is counted before the core is let go, except by step.
Uncounted(type) ==
  todo \in {<< >>, Cons(Halt, Reading(type)), Reading(type), Catching(type),
            Reset1(type, Looking)}

Counted ==
  /\ op.name = "reset" => todo \in {<< >>, Reset1(op.type, << >>)} \/ ctoken # token
  /\ op.name = "reset_and_halt" => Uncounted(op.type) \/ ctoken # token
  /\ op.name \in {"resume", "disconnect"} /\ todo # << >> =>
       (Head(todo) = Go => ctoken # token)

\* disconnect may let go a core that it found running without counting it.
Leaving ==
  op.name = "disconnect" /\ todo # << >> =>
    /\ Head(todo)[1] = "release" => Stale
    /\ Head(todo)[1] = "resume" /\ loc.state # "halted" => Stale
    /\ Head(todo)[1] = "state_again" /\ (loc.state # "halted" \/ sticky.reset) => Stale

SteppedOff == op.name = "step" /\ todo \in {AwaitingStep, Unmasking, Counting}

\* A value that the cache would use is on its way to a register or is what a halted core
\* has there.
Right(reg, field) ==
  IF field \in Pending THEN cache[reg][field] = op.bit
  ELSE core = "halted" /\ cache[reg][field] = regs[field]

Coherent ==
  SteppedOff \/ (ctoken = token =>
                   \A reg \in Kept : \A field \in FieldsOf(reg) : Right(reg, field))

CacheInv == TokenBehind /\ Entered /\ Counted /\ Leaving /\ Coherent

-----------------------------------------------------------------------------
(* What changes the cache, and what is left to transfer.                   *)

\* The steps that change the cache or its token.
LEMMA CacheKeeps ==
  ASSUME Types, HostStep
  PROVE  /\ token' \in {token, token + 1}
         /\ ~Doing("check_cache") => ctoken' = ctoken
         /\ Doing("check_cache") =>
              /\ token' = token
              /\ \/ cache' = EmptyCache /\ excused' = {} /\ ctoken' \in {ctoken, token}
                 \/ cache' = cache /\ excused' = excused /\ ctoken' = ctoken
         /\ ~Doing("check_cache") /\ ~Doing("fill") /\ ~Doing("enter") =>
              cache' = cache /\ excused \subseteq excused'
         /\ ~Doing("state") /\ ~Doing("state_again") => loc'.state = loc.state
<1>p. past \in Pasts /\ loc \in Locals
  BY DEF Types
<1> USE DEF Pasts, Locals, hardware, history
<1>1. CASE WriteDhcsr \/ Release \/ ReadState \/ ReadStateAgain
  BY <1>1, <1>p DEF WriteDhcsr, Release, ReadState, ReadStateAgain, Doing
<1>2. CASE Resume \/ BeginStep \/ AwaitStep \/ CountStep
  BY <1>2, <1>p DEF Resume, BeginStep, AwaitStep, CountStep, Doing
<1>3. CASE Reset \/ HardwareReset \/ WriteAircr \/ AwaitReset \/ AwaitHalt
  BY <1>3, <1>p DEF Reset, HardwareReset, WriteAircr, AwaitReset, AwaitHalt, Doing
<1>4. CASE ReadDemcr \/ WriteVc \/ RestoreVc \/ SetThumb
  BY <1>4, <1>p DEF ReadDemcr, WriteVc, RestoreVc, SetThumb, Unhalted, Doing
<1>5. CASE CheckCache
  BY <1>5, <1>p DEF CheckCache, Doing
<1>6. CASE Fill \/ Enter
  BY <1>6, <1>p DEF Fill, Enter, Doing
<1>7. CASE ReadFirstRegister \/ PutRegister
  BY <1>7, <1>p DEF ReadFirstRegister, PutRegister, Unhalted, Doing
<1> QED BY <1>1, <1>2, <1>3, <1>4, <1>5, <1>6, <1>7 DEF HostStep, Awaited

\* A failing access leaves the cache, and excuses.
LEMMA CacheFails ==
  ASSUME Types, op \in Ops \cup {None}, Where, Fails
  PROVE  /\ cache' = cache /\ ctoken' = ctoken /\ token' = token /\ op' = op
         /\ core' = core /\ regs' = regs /\ loc' = loc /\ sticky' = sticky
         /\ todo # << >>
         /\ excused \subseteq excused'
         /\ op.name = "step" => DOMAIN cache \subseteq excused'
         /\ op.name = "write" => ToSet(op.list) \subseteq excused'
         /\ todo' \in {<< >>, todo, Tail(todo)}
         /\ todo' # << >> => Head(todo)[1] \in {"aircr", "await_reset", "await_halt"}
<1>k. todo # << >>
  BY FailsKeep
<1>d. Head(todo) = Halt => Head(todo)[1] = "dhcsr"
  BY DEF Halt, Dhcsr
<1>1. op.name = "step" => Head(todo)[1] \in {"step", "count", "await_step", "dhcsr"}
  BY <1>k, Kinds
<1>2. op.name = "write" => Head(todo)[1] \in {"state", "state_again", "check_cache",
                                              "enter", "read_first", "put"}
  BY <1>k, Kinds
<1>3. todo \in Seq(Steps) /\ (Done => todo' = Tail(todo))
  <2>1. Tail(todo) \in Seq(Steps) /\ todo \in Seq(Steps)
    BY <1>k DEF Types
  <2> QED BY <2>1, ConcatEmptySeq DEF Done, Then
<1> USE DEF hardware, history, Doing
<1>4. CASE NotReady
  <2>1. Head(todo)[1] \in {"thumb", "fill", "read_first", "put"}
    BY <1>4 DEF NotReady
  <2>2. op.name # "step"
    BY <1>1, <2>1
  <2>3. /\ todo' = << >> /\ excused \subseteq excused'
        /\ op.name = "write" => ToSet(op.list) \subseteq excused'
    BY <1>4 DEF NotReady
  <2> QED BY <1>k, <2>2, <2>3, FailsKeep
<1>5. CASE AccessFails
  <2>1. \/ todo' = << >>
        \/ todo' = todo /\ Head(todo)[1] = "await_reset"
    BY <1>5 DEF AccessFails
  <2>2. /\ op.name = "step" => excused' = excused \cup DOMAIN cache
        /\ op.name # "step" => excused \subseteq excused'
        /\ op.name = "write" => ToSet(op.list) \subseteq excused'
    BY <1>5 DEF AccessFails
  <2> QED BY <1>k, <2>1, <2>2, FailsKeep
<1>6. CASE WriteAircrFails
  BY <1>6, <1>k, <1>1, <1>2, <1>3 DEF WriteAircrFails
<1>7. CASE AwaitTimesOut
  BY <1>7, <1>k, <1>1, <1>2, <1>3 DEF AwaitTimesOut
<1> QED BY <1>4, <1>5, <1>6, <1>7 DEF Fails

\* The core resets a cache that is in use only when nobody waits for it, and excuses it.
LEMMA CacheHardware ==
  ASSUME Types, Asked, Hardware
  PROVE  /\ UNCHANGED host
         /\ excused' = excused \/ excused' = DOMAIN cache
         /\ \/ core # "halted"
            \/ core' = core /\ regs' = regs /\ sticky'.reset = sticky.reset
            \/ excused' = DOMAIN cache
            \/ todo # << >> /\ Head(todo) = <<"await_reset">>
         /\ sticky'.reset => \/ sticky.reset
                             \/ excused' = DOMAIN cache
                             \/ todo # << >> /\ Head(todo) = <<"await_reset">>
<1>t. sticky \in [reset : BOOLEAN, retire : BOOLEAN]
  BY DEF Types, TypeOK
<1> USE DEF host, history
<1>1. CASE Execute
  BY <1>1, <1>t DEF Execute
<1>2. CASE HitBreakpoint \/ StopRequested \/ SleepOrWake \/ LeaveReset
  BY <1>2 DEF HitBreakpoint, StopRequested, SleepOrWake, LeaveReset
<1>3. CASE OutsideReset
  BY <1>3 DEF OutsideReset, IntoReset
<1>4. CASE TakeReset
  <2>1. request = "overlooked" \/ request = "asked"
    BY <1>4 DEF TakeReset, Types, TypeOK
  <2> QED BY <1>4, <2>1 DEF TakeReset, IntoReset, Asked
<1> QED BY <1>1, <1>2, <1>3, <1>4 DEF Hardware

-----------------------------------------------------------------------------
(* What is left to transfer.                                               *)

\* Only a write transfers what it entered, one register after another.
LEMMA LeftHost ==
  ASSUME Types, op \in Ops \cup {None}, Where, HostStep, ~Doing("enter")
  PROVE  /\ ~(op.name = "write" /\ Doing("put")) => Left' = Left
         /\ op.name = "write" /\ Doing("put") => Left = Left' \cup {Head(todo)}
         /\ Left' \subseteq Left
<1>1. op' = op
  BY HostKeeps
<1>2. todo # << >> /\ todo \in Seq(Steps)
  BY Dispatch DEF Types
<1>3. CASE op.name # "write"
  BY <1>1, <1>3 DEF Left
<1>4. CASE op.name = "write"
  <2>1. Head(todo)[1] \in {"state", "state_again", "check_cache", "read_first", "put"}
    <3>1. Head(todo)[1] \in {"state", "state_again", "check_cache", "enter", "read_first", "put"}
      BY <1>2, <1>4, Kinds
    <3>2. Head(todo)[1] # "enter"
      BY <1>2 DEF Doing, Idle
    <3> QED BY <3>1, <3>2
  <2>2. PICK first : first = Head(todo)
    OBVIOUS
  <2>3. PICK rest \in Seq(Steps) : rest = Tail(todo)
    <3>1. Tail(todo) \in Seq(Steps)
      BY <1>2
    <3> QED BY <3>1
  <2>4. IsList(todo, first, rest)
    BY <1>2, <2>2, <2>3 DEF IsList
  <2>5. todo' = rest \/ (first[1] = "state" /\ todo' = Cons(<<"state_again">>, rest))
    BY <2>1, <2>2, <2>4, Advance
  <2>6. Range(todo) = {first} \cup Range(rest)
    BY <1>2, <2>2, <2>3, RangeOfHeadAndTail
  <2>7. Range(todo') = Range(rest) \/ Range(todo') = {<<"state_again">>} \cup Range(rest)
    <3>1. IsList(Cons(<<"state_again">>, rest), <<"state_again">>, rest)
      BY Wraps
    <3>2. Range(Cons(<<"state_again">>, rest)) = {<<"state_again">>} \cup Range(rest)
      BY <3>1, RangeOfHeadAndTail DEF IsList
    <3> QED BY <2>5, <3>2
  <2>8. Left' = {step \in Range(rest) : step[1] = "put"}
    <3>1. <<"state_again">>[1] # "put"
      OBVIOUS
    <3> QED BY <1>1, <1>4, <2>7, <3>1 DEF Left
  <2>9. Left = {step \in {first} \cup Range(rest) : step[1] = "put"}
    BY <1>4, <2>6 DEF Left
  <2> QED BY <1>2, <1>4, <2>2, <2>8, <2>9 DEF Doing, Idle
<1> QED BY <1>3, <1>4

\* An operation that has no list of transfers has none left.
LEMMA LeftElse ==
  ASSUME Types, op' = op, todo' \in {<< >>, todo, Tail(todo)}, todo' # << >> => todo # << >>
  PROVE  Left' \subseteq Left
<1>1. CASE todo' = << >>
  <2>1. Range(<< >>) = {}
    BY DEF Range
  <2> QED BY <1>1, <2>1 DEF Left
<1>2. CASE todo' = todo
  BY <1>2 DEF Left
<1>3. CASE todo # << >> /\ todo' = Tail(todo)
  <2>1. PICK rest : rest = Tail(todo)
    OBVIOUS
  <2>2. Range(rest) \subseteq Range(todo)
    BY <1>3, <2>1, RangeOfHeadAndTail DEF Types
  <2> QED BY <1>3, <2>1, <2>2 DEF Left
<1> QED BY <1>1, <1>2, <1>3

-----------------------------------------------------------------------------
(* Which operations take a step.                                           *)

\* The operations that change the cache, the registers or what the core does.
LEMMA Performs ==
  ASSUME Types, op \in Ops \cup {None}, Where, todo # << >>
  PROVE  /\ Head(todo)[1] = "fill" => op.name = "read"
         /\ Head(todo)[1] = "enter" => op.name = "write"
         /\ Head(todo)[1] = "check_cache" => op.name \in {"read", "write"}
         /\ Head(todo)[1] = "read_first" => op.name = "write"
         /\ Head(todo)[1] = "put" => op.name \in {"write", "reset", "reset_and_halt"}
         /\ Head(todo)[1] \in {"thumb", "nreset", "aircr", "await_reset", "reset"} =>
              op.name \in {"reset", "reset_and_halt"}
         /\ Head(todo)[1] \in {"await_step", "count", "step"} => op.name = "step"
         /\ Head(todo)[1] = "release" => op.name \in {"resume", "disconnect"}
         /\ Head(todo)[1] = "resume" => op.name \in {"resume", "disconnect"}
<1>0. op \in Ops
  BY Kinds
<1>1. Halt[1] = "dhcsr" /\ Go[1] = "dhcsr"
  BY DEF Halt, Go, Dhcsr
<1>2. \/ op.name \in {"resume", "disconnect"}
      \/ op.name \in {"halt", "set_vector_catch", "step"}
      \/ op.name \in {"read", "write"}
      \/ op.name \in {"reset", "reset_and_halt"}
  BY <1>0, OpsAre
<1>3. CASE op.name \in {"resume", "disconnect"}
  <2>1. Head(todo)[1] \in {"state", "state_again", "resume", "write_vc", "release", "dhcsr"}
    BY <1>1, <1>3, Kinds
  <2> QED BY <1>3, <2>1
<1>4. CASE op.name \in {"halt", "set_vector_catch", "step"}
  <2>1. \/ Head(todo)[1] \in {"dhcsr", "write_vc", "read_demcr"}
        \/ op.name = "step" /\ Head(todo)[1] \in {"step", "count", "await_step", "dhcsr"}
    BY <1>1, <1>4, Kinds
  <2> QED BY <1>4, <2>1
<1>5. CASE op.name \in {"read", "write"}
  <2>1. \/ Head(todo)[1] \in {"state", "state_again", "check_cache"}
        \/ op.name = "read" /\ Head(todo)[1] = "fill"
        \/ op.name = "write" /\ Head(todo)[1] \in {"enter", "read_first", "put"}
    BY <1>5, Kinds
  <2> QED BY <1>5, <2>1
<1>6. CASE op.name \in {"reset", "reset_and_halt"}
  <2>1. Head(todo)[1] \in {"dhcsr", "nreset", "aircr", "await_reset", "put", "read_demcr",
                           "write_vc", "state", "state_again", "await_halt", "thumb",
                           "restore_vc", "reset"}
    BY <1>1, <1>6, Kinds
  <2> QED BY <1>6, <2>1
<1> QED BY <1>2, <1>3, <1>4, <1>5, <1>6
-----------------------------------------------------------------------------
(* A list of registers to write.                                           *)

\* The transfers of each name, and the elements of them.
LEMMA PiecesAre ==
  ASSUME NEW list \in Seq(CORE_REGISTER)
  PROVE  \E pieces \in Seq(Seq(CORE_REGISTER)) :
           /\ RegDataList(list) = FlattenSeq(pieces) /\ Len(pieces) = Len(list)
           /\ \A k \in 1..Len(list) :
                /\ pieces[k] = IF IsDouble(list[k]) THEN <<"s0", "s1">>
                               ELSE IF Dropped(list, k) THEN << >> ELSE <<list[k]>>
                /\ pieces[k] = Transfers(list, k)
                /\ Range(pieces[k]) = IF IsDouble(list[k]) THEN {"s0", "s1"}
                                      ELSE IF Dropped(list, k) THEN {} ELSE {list[k]}
<1> DEFINE pieces == [k \in DOMAIN list |-> Transfers(list, k)]
<1>1. DOMAIN list = 1..Len(list) /\ Len(list) \in Nat
  BY LenProperties
<1>2. ASSUME NEW k \in 1..Len(list)
      PROVE  /\ Transfers(list, k) \in Seq(CORE_REGISTER)
             /\ Transfers(list, k) = IF IsDouble(list[k]) THEN <<"s0", "s1">>
                                     ELSE IF Dropped(list, k) THEN << >> ELSE <<list[k]>>
             /\ Range(Transfers(list, k)) = IF IsDouble(list[k]) THEN {"s0", "s1"}
                                            ELSE IF Dropped(list, k) THEN {} ELSE {list[k]}
  <2>1. list[k] \in CORE_REGISTER /\ "s0" \in CORE_REGISTER /\ "s1" \in CORE_REGISTER
    BY DEF CORE_REGISTER, Fields
  <2>2. << >> \in Seq(CORE_REGISTER) /\ Range(<< >>) = {}
    BY EmptySeq DEF Range
  <2>3. \A x, y \in CORE_REGISTER :
          /\ <<x>> \in Seq(CORE_REGISTER) /\ <<x, y>> \in Seq(CORE_REGISTER)
          /\ Range(<<x>>) = {x} /\ Range(<<x, y>>) = {x, y}
    <3> TAKE x, y \in CORE_REGISTER
    <3>1. PICK one : one = <<x>>
      OBVIOUS
    <3>2. PICK two : two = <<x, y>>
      OBVIOUS
    <3>3. /\ one \in Seq(CORE_REGISTER) /\ DOMAIN one = {1} /\ one[1] = x
          /\ two \in Seq(CORE_REGISTER) /\ DOMAIN two = {1, 2} /\ two[1] = x /\ two[2] = y
      BY <3>1, <3>2
    <3>4. Range(one) = {x} /\ Range(two) = {x, y}
      BY <3>3 DEF Range
    <3> QED BY <3>1, <3>2, <3>3, <3>4
  <2>4. Transfers(list, k) = IF IsDouble(list[k]) THEN <<"s0", "s1">>
                             ELSE IF Dropped(list, k) THEN << >> ELSE <<list[k]>>
    <3>1. CASE IsDouble(list[k])
      <4>1. ~Dropped(list, k)
        BY <3>1 DEF IsDouble, Dropped, IsCfbpSub, IsPsrSub
      <4> QED BY <3>1, <4>1, Zenon DEF Transfers
    <3>2. CASE ~IsDouble(list[k]) /\ Dropped(list, k)
      BY <3>2, Zenon DEF Transfers
    <3>3. CASE ~IsDouble(list[k]) /\ ~Dropped(list, k)
      BY <3>3, Zenon DEF Transfers
    <3> QED BY <3>1, <3>2, <3>3, Zenon
  <2>5. CASE IsDouble(list[k])
    <3>1. Transfers(list, k) = <<"s0", "s1">>
      BY <2>4, <2>5, Zenon
    <3>2. <<"s0", "s1">> \in Seq(CORE_REGISTER) /\ Range(<<"s0", "s1">>) = {"s0", "s1"}
      BY <2>1, <2>3, Zenon
    <3> QED BY <2>5, <3>1, <3>2, Zenon
  <2>6. CASE ~IsDouble(list[k]) /\ Dropped(list, k)
    BY <2>2, <2>4, <2>6, Zenon
  <2>7. CASE ~IsDouble(list[k]) /\ ~Dropped(list, k)
    BY <2>1, <2>3, <2>4, <2>7, Zenon
  <2> QED BY <2>5, <2>6, <2>7, Zenon
<1>3. pieces \in Seq(Seq(CORE_REGISTER)) /\ Len(pieces) = Len(list)
      /\ \A k \in 1..Len(list) : pieces[k] = Transfers(list, k)
  <2> DEFINE W == Seq(CORE_REGISTER)
  <2>1. \A k \in 1..Len(list) : Transfers(list, k) \in W
    BY <1>2
  <2> HIDE DEF W
  <2>2. pieces \in Seq(W) /\ Len(pieces) = Len(list)
        /\ \A k \in 1..Len(list) : pieces[k] = Transfers(list, k)
    BY <1>1, <2>1
  <2> QED BY <2>2 DEF W
<1>5. RegDataList(list) = FlattenSeq(pieces)
  BY Zenon DEF RegDataList, pieces
<1> HIDE DEF pieces
<1> QED BY <1>2, <1>3, <1>5, Zenon

\* Each transfer belongs to a name of the list, and has no field that the name has not.
LEMMA TransfersOf ==
  ASSUME NEW list \in Seq(CORE_REGISTER)
  PROVE  /\ Range(RegDataList(list)) \subseteq CORE_REGISTER
         /\ Range(RegDataList(list)) = UNION {Range(Transfers(list, k)) : k \in 1..Len(list)}
         /\ \A k \in 1..Len(list) :
              Range(Transfers(list, k)) = IF IsDouble(list[k]) THEN {"s0", "s1"}
                                          ELSE IF Dropped(list, k) THEN {} ELSE {list[k]}
<1>1. PICK pieces \in Seq(Seq(CORE_REGISTER)) :
           /\ RegDataList(list) = FlattenSeq(pieces) /\ Len(pieces) = Len(list)
           /\ \A k \in 1..Len(list) :
                /\ pieces[k] = Transfers(list, k)
                /\ Range(pieces[k]) = IF IsDouble(list[k]) THEN {"s0", "s1"}
                                      ELSE IF Dropped(list, k) THEN {} ELSE {list[k]}
  BY PiecesAre
<1>2. Range(FlattenSeq(pieces)) = UNION {Range(Transfers(list, k)) : k \in 1..Len(list)}
  <2>1. CASE pieces = << >>
    <3>1. FlattenSeq(pieces) = << >> /\ Range(<< >>) = {} /\ 1..Len(list) = {}
      BY <1>1, <2>1, EmptySeq DEF FlattenSeq, Range
    <3> QED BY <3>1
  <2>2. CASE pieces # << >>
    <3>1. Range(FlattenSeq(pieces)) = UNION {Range(pieces[k]) : k \in 1..Len(pieces)}
      BY <2>2, FlattenRange
    <3> QED BY <1>1, <3>1
  <2> QED BY <2>1, <2>2
<1>3. Range(RegDataList(list)) \subseteq CORE_REGISTER
  BY RegDataType, RangeWithin
<1>4. \A k \in 1..Len(list) :
        Range(Transfers(list, k)) = IF IsDouble(list[k]) THEN {"s0", "s1"}
                                    ELSE IF Dropped(list, k) THEN {} ELSE {list[k]}
  <2> TAKE k \in 1..Len(list)
  <2>1. pieces[k] = Transfers(list, k)
    BY <1>1
  <2> QED BY <1>1, <2>1, Zenon
<1> QED BY <1>1, <1>2, <1>3, <1>4, Zenon

\* What is transferred are fields of the names, in the groups of the names, and every
\* field of a name outside the groups.
LEMMA TransfersCover ==
  ASSUME NEW list \in Seq(CORE_REGISTER)
  PROVE  /\ \A reg \in Range(RegDataList(list)) :
              \E name \in ToSet(list) : /\ FieldsOf(reg) \subseteq FieldsOf(name)
                                        /\ reg \in CFBP_REGS \cup XPSR_REGS => name = reg
         /\ \A name \in ToSet(list) : name \notin Groups(ToSet(list)) =>
              \A field \in FieldsOf(name) :
                \E reg \in Range(RegDataList(list)) : field \in FieldsOf(reg)
<1>1. DOMAIN list = 1..Len(list) /\ \A k \in 1..Len(list) : list[k] \in ToSet(list)
  BY LenProperties DEF ToSet
<1>2. FieldsOf("d0") = {"s0", "s1"} /\ FieldsOf("s0") = {"s0"} /\ FieldsOf("s1") = {"s1"}
  BY DEF FieldsOf
<1>3. ASSUME NEW reg \in Range(RegDataList(list))
      PROVE  \E name \in ToSet(list) : /\ FieldsOf(reg) \subseteq FieldsOf(name)
                                       /\ reg \in CFBP_REGS \cup XPSR_REGS => name = reg
  <2>1. PICK k \in 1..Len(list) : reg \in Range(Transfers(list, k))
    BY TransfersOf
  <2>2. \/ IsDouble(list[k]) /\ reg \in {"s0", "s1"}
        \/ reg = list[k]
    BY <2>1, TransfersOf
  <2>3. "s0" \notin CFBP_REGS \cup XPSR_REGS /\ "s1" \notin CFBP_REGS \cup XPSR_REGS
    BY DEF CFBP_REGS, XPSR_REGS
  <2> QED BY <1>1, <1>2, <2>2, <2>3 DEF IsDouble
<1>4. ASSUME NEW name \in ToSet(list), name \notin Groups(ToSet(list)),
             NEW field \in FieldsOf(name)
      PROVE  \E reg \in Range(RegDataList(list)) : field \in FieldsOf(reg)
  <2>1. PICK k \in 1..Len(list) : name = list[k]
    BY <1>1 DEF ToSet
  <2>2. name \notin CFBP_REGS /\ name \notin XPSR_REGS
    BY <1>4 DEF Groups
  <2>3. ~Dropped(list, k)
    BY <2>1, <2>2 DEF Dropped, IsCfbpSub, IsPsrSub, CFBP_REGS, XPSR_REGS
  <2>4. Range(Transfers(list, k)) = IF IsDouble(name) THEN {"s0", "s1"} ELSE {name}
    BY <2>1, <2>3, TransfersOf
  <2>5. \E reg \in Range(Transfers(list, k)) : field \in FieldsOf(reg)
    BY <1>2, <2>4 DEF IsDouble
  <2> QED BY <2>5, TransfersOf
<1> QED BY <1>3, <1>4

\* What is left to transfer when the values were entered.
LEMMA TransfersLeft ==
  ASSUME NEW o, o.bit \in 0..1, o.list \in Seq(CORE_REGISTER)
  PROVE  {step \in Range(ReadSteps(o) \o PutSteps(o)) : step[1] = "put"}
           = {Put(reg, Data(reg, o.bit)) : reg \in Range(RegDataList(o.list))}
<1> DEFINE S == TransferSteps(o)
<1>1. /\ ReadSteps(o) \in Seq(S) /\ PutSteps(o) \in Seq(S)
      /\ Range(ReadSteps(o) \o PutSteps(o)) = Range(ReadSteps(o)) \cup Range(PutSteps(o))
  BY Transferring, RangeOfConcat
<1> HIDE DEF S
<1>2. \A step \in Range(ReadSteps(o)) : step[1] # "put"
  BY DEF Range, ReadSteps
<1>3. PICK list : list = RegDataList(o.list)
  OBVIOUS
<1>4. Range(PutSteps(o)) = {Put(reg, Data(reg, o.bit)) : reg \in Range(list)}
  BY <1>3 DEF Range, PutSteps
<1>5. \A step \in Range(PutSteps(o)) : step[1] = "put"
  BY <1>4 DEF Put
<1> QED BY <1>1, <1>2, <1>3, <1>4, <1>5

\* The values of a write are entered.
LEMMA EnterIs ==
  ASSUME Types, op \in Ops \cup {None}, Where, HostStep, Doing("enter")
  PROVE  /\ op.name = "write" /\ op' = op
         /\ op.bit \in 0..1 /\ op.list \in Seq(CORE_REGISTER) /\ ToSet(op.list) \subseteq CORE_REGISTER
         /\ Left' = {Put(reg, Data(reg, op.bit)) : reg \in Range(RegDataList(op.list))}
         /\ cache' = AfterWrite(cache, op.list, op.bit)
         /\ DOMAIN cache' = (DOMAIN cache \cup ToSet(op.list)) \ Groups(ToSet(op.list))
         /\ \A reg \in DOMAIN cache' :
              cache'[reg] = IF reg \in ToSet(op.list) THEN Data(reg, op.bit) ELSE cache[reg]
         /\ excused' = (excused \ ToSet(op.list)) \cup (Aliases(op.list) \cap DOMAIN cache)
         /\ UNCHANGED <<core, regs, token, ctoken, loc, sticky>>
<1>1. todo # << >> /\ Head(todo)[1] = "enter" /\ todo \in Seq(Steps)
  BY DEF Doing, Idle, Types
<1>2. op.name = "write" /\ op \in Ops /\ op' = op
  BY <1>1, Performs, Kinds, HostKeeps
<1>3. op.bit \in 0..1 /\ op.list \in Seq(CORE_REGISTER)
  BY <1>2, OpsAre
<1>4. Enter
  BY <1>1, Dispatch
<1>5. ToSet(op.list) \subseteq CORE_REGISTER
  BY <1>3 DEF ToSet
<1>6. todo' = ReadSteps(op) \o PutSteps(op)
  BY <1>4, Zenon DEF Enter, ReadSteps, PutSteps
<1>7. Left' = {Put(reg, Data(reg, op.bit)) : reg \in Range(RegDataList(op.list))}
  <2>1. PICK o : o = op
    OBVIOUS
  <2>2. {step \in Range(ReadSteps(o) \o PutSteps(o)) : step[1] = "put"}
           = {Put(reg, Data(reg, o.bit)) : reg \in Range(RegDataList(o.list))}
    <3>1. o.bit \in 0..1 /\ o.list \in Seq(CORE_REGISTER)
      BY <1>3, <2>1
    <3> QED BY <3>1, TransfersLeft, Zenon
  <2>3. Left' = {step \in Range(todo') : step[1] = "put"}
    BY <1>2 DEF Left
  <2> QED BY <1>6, <2>1, <2>2, <2>3
<1>8. /\ cache' = AfterWrite(cache, op.list, op.bit)
      /\ excused' = (excused \ ToSet(op.list)) \cup (Aliases(op.list) \cap DOMAIN cache)
      /\ UNCHANGED <<core, regs, token, ctoken, loc, sticky>>
  BY <1>4 DEF Enter, hardware
<1>9. PICK names : names = ToSet(op.list)
  OBVIOUS
<1>10. PICK bit : bit = op.bit
  OBVIOUS
<1>11. cache' = Forget(Merged(cache, [reg \in names |-> Data(reg, bit)]), Groups(names))
  BY <1>8, <1>9, <1>10, Zenon DEF AfterWrite
<1>12. PICK entered : entered = Merged(cache, [reg \in names |-> Data(reg, bit)])
  OBVIOUS
<1>13. /\ DOMAIN entered = DOMAIN cache \cup names
       /\ \A reg \in DOMAIN entered :
            entered[reg] = IF reg \in names THEN Data(reg, bit) ELSE cache[reg]
  BY <1>12 DEF Merged
<1>14. /\ DOMAIN cache' = DOMAIN entered \ Groups(names)
       /\ \A reg \in DOMAIN cache' : cache'[reg] = entered[reg]
  BY <1>11, <1>12 DEF Forget, Restrict
<1> QED BY <1>2, <1>3, <1>5, <1>7, <1>8, <1>9, <1>10, <1>13, <1>14
-----------------------------------------------------------------------------
(* The run tokens, and what a write has entered.                           *)

\* The cache never has a token that the core has not given out; a run that is counted makes
\* the cache's token an old one.
LEMMA TokenHost2 ==
  ASSUME Types, Types', TokenBehind, HostStep
  PROVE  /\ TokenBehind'
         /\ token' = token + 1 => ctoken' = ctoken /\ ctoken' # token'
<1>1. /\ token \in Nat /\ ctoken \in Nat /\ MaxToken \in Nat /\ token' \in Nat
      /\ token' <= MaxToken
  BY CortexMAssumption DEF Types, TypeOK
<1>2. /\ token' \in {token, token + 1}
      /\ ~Doing("check_cache") => ctoken' = ctoken
      /\ Doing("check_cache") => token' = token /\ ctoken' \in {ctoken, token}
  BY CacheKeeps
<1>3. \A a, c, m \in Nat : c <= a \/ c = m + 1 =>
        /\ a <= a /\ (c <= a + 1 \/ c = m + 1)
        /\ a + 1 <= m => c # a + 1
        /\ a # a + 1
  OBVIOUS
<1>4. \/ token' = token /\ ctoken' \in {ctoken, token}
      \/ token' = token + 1 /\ ctoken' = ctoken
  BY <1>1, <1>2, <1>3, Zenon
<1>5. /\ token <= token /\ (ctoken <= token + 1 \/ ctoken = MaxToken + 1)
      /\ token + 1 <= MaxToken => ctoken # token + 1
      /\ token # token + 1
  BY <1>1, <1>3 DEF TokenBehind
<1>6. CASE token' = token /\ ctoken' \in {ctoken, token}
  BY <1>5, <1>6, Zenon DEF TokenBehind
<1>7. CASE token' = token + 1 /\ ctoken' = ctoken
  BY <1>1, <1>5, <1>7, Zenon DEF TokenBehind
<1> QED BY <1>4, <1>5, <1>6, <1>7, Zenon

\* Nothing is entered anew: what was entered stays so.
LEMMA EnteredKeeps ==
  ASSUME Entered, op' = op, Left' \subseteq Left, DOMAIN cache' \subseteq DOMAIN cache,
         Kept' \subseteq Kept
  PROVE  Entered'
BY DEF Entered

\* A step of an operation keeps what was entered.
LEMMA EnteredHost ==
  ASSUME Types, op \in Ops \cup {None}, Where, Entered, HostStep
  PROVE  Entered'
<1>1. op' = op
  BY HostKeeps
<1>2. CASE ~Doing("enter") /\ ~Doing("fill")
  <2>1. Left' \subseteq Left
    BY <1>2, LeftHost
  <2>2. \/ cache' = EmptyCache
        \/ cache' = cache /\ excused \subseteq excused'
    BY <1>2, CacheKeeps
  <2>3. DOMAIN EmptyCache = {}
    BY DEF EmptyCache
  <2>4. DOMAIN cache' \subseteq DOMAIN cache /\ Kept' \subseteq Kept
    BY <2>2, <2>3 DEF Kept
  <2> QED BY <1>1, <2>1, <2>4, EnteredKeeps
<1>3. CASE Doing("fill")
  <2>1. op.name = "read"
    BY <1>3, Performs DEF Doing, Idle
  <2> QED BY <1>1, <2>1 DEF Entered, Left
<1>4. CASE Doing("enter")
  <2>1. PICK names : names = ToSet(op.list)
    OBVIOUS
  <2>2. PICK regs0 : regs0 = Range(RegDataList(op.list))
    OBVIOUS
  <2>3. PICK list \in Seq(CORE_REGISTER) : list = op.list
    BY <1>4, EnterIs
  <2>4. /\ regs0 \subseteq CORE_REGISTER
        /\ \A reg \in regs0 :
             \E name \in names : /\ FieldsOf(reg) \subseteq FieldsOf(name)
                                 /\ reg \in CFBP_REGS \cup XPSR_REGS => name = reg
    BY <2>1, <2>2, <2>3, TransfersOf, TransfersCover
  <2>5. /\ names \subseteq CORE_REGISTER /\ DOMAIN cache \subseteq CORE_REGISTER
        /\ DOMAIN cache' = (DOMAIN cache \cup names) \ Groups(names)
        /\ excused' = (excused \ names) \cup (Aliases(list) \cap DOMAIN cache)
        /\ Left' = {Put(reg, Data(reg, op.bit)) : reg \in regs0}
    BY <1>4, <2>1, <2>2, <2>3, EnterIs DEF Types, TypeOK
  <2>6. /\ names \cap CFBP_REGS # {} => CFBP_REGS \subseteq Groups(names)
        /\ names \cap XPSR_REGS # {} => XPSR_REGS \subseteq Groups(names)
    BY DEF Groups
  <2>7. SUFFICES ASSUME NEW reg \in regs0
                 PROVE  /\ reg \in CFBP_REGS => DOMAIN cache' \cap CFBP_REGS = {}
                        /\ reg \in XPSR_REGS => DOMAIN cache' \cap XPSR_REGS = {}
                        /\ \A other \in Kept' \ names : FieldsOf(other) \cap FieldsOf(reg) = {}
    BY <1>1, <2>1, <2>5 DEF Entered, Put
  <2>8. PICK name \in names : /\ FieldsOf(reg) \subseteq FieldsOf(name)
                              /\ reg \in CFBP_REGS \cup XPSR_REGS => name = reg
    BY <2>4
  <2>9. /\ reg \in CFBP_REGS => DOMAIN cache' \cap CFBP_REGS = {}
        /\ reg \in XPSR_REGS => DOMAIN cache' \cap XPSR_REGS = {}
    BY <2>5, <2>6, <2>8
  <2>10. ASSUME NEW other \in Kept' \ names PROVE FieldsOf(other) \cap FieldsOf(reg) = {}
    <3>1. /\ other \in DOMAIN cache /\ other \in CORE_REGISTER \ (names \cup Groups(names))
          /\ other \notin Aliases(list)
      BY <2>5, <2>10 DEF Kept
    <3>2. FieldsOf(other) \cap FieldsOf(name) = {}
      BY <2>1, <2>3, <3>1 DEF Aliases
    <3> QED BY <2>8, <3>2
  <2> QED BY <2>9, <2>10
<1> QED BY <1>2, <1>3, <1>4

\* So does everything else.
LEMMA EnteredElse ==
  ASSUME Types, op \in Ops \cup {None}, Where, Asked, Entered, Fails \/ Hardware
  PROVE  Entered'
<1>1. CASE Fails
  <2>1. /\ op' = op /\ cache' = cache /\ excused \subseteq excused' /\ todo # << >>
        /\ todo' \in {<< >>, todo, Tail(todo)}
    BY <1>1, CacheFails
  <2>2. Left' \subseteq Left
    BY <2>1, LeftElse
  <2> QED BY <2>1, <2>2, EnteredKeeps DEF Kept
<1>2. CASE Hardware
  <2>1. /\ op' = op /\ todo' = todo /\ cache' = cache
        /\ excused' = excused \/ excused' = DOMAIN cache
    BY <1>2, CacheHardware DEF host
  <2>2. Left' = Left
    BY <2>1 DEF Left
  <2> QED BY <2>1, <2>2, EnteredKeeps DEF Kept
<1> QED BY <1>1, <1>2

\* Before an operation, and between two, nothing is left to transfer.
LEMMA LeftNothing ==
  ASSUME Return \/ \E o \in menu : Start(o), menu \subseteq Ops
  PROVE  Left' = {}
<1>1. CASE Return
  <2>1. todo' = << >> /\ Range(<< >>) = {}
    BY <1>1 DEF Return, Idle, Range
  <2> QED BY <2>1 DEF Left
<1>2. CASE \E o \in menu : Start(o)
  <2>1. PICK o \in Ops : Start(o)
    BY <1>2
  <2>2. op' = o /\ todo' = Program(o)
    BY <2>1 DEF Start
  <2>3. ASSUME o.name = "write" PROVE \A step \in Range(Program(o)) : step[1] # "put"
    <3>1. PICK list : list = Program(o)
      OBVIOUS
    <3>2. list = <<<<"state">>, <<"check_cache">>, <<"enter">>>>
      BY <2>3, <3>1 DEF Program, GetState
    <3>3. /\ DOMAIN list = 1..3 /\ list[1][1] # "put" /\ list[2][1] # "put"
          /\ list[3][1] # "put"
      BY <3>2
    <3> QED BY <3>1, <3>3 DEF Range
  <2> QED BY <2>2, <2>3 DEF Left
<1> QED BY <1>1, <1>2
-----------------------------------------------------------------------------
(* A run is counted before the core is let go.                             *)

\* Once a run is counted, only the check of the cache takes note of it.
LEMMA StaysOld ==
  ASSUME Types, Types', TokenBehind, op \in Ops \cup {None}, Where, HostStep,
         ctoken # token, op.name \notin {"read", "write"}
  PROVE  ctoken' # token'
<1>1. todo # << >>
  BY Dispatch
<1>2. ~Doing("check_cache")
  BY <1>1, Performs DEF Doing
<1>3. ctoken' = ctoken /\ token' \in {token, token + 1}
  BY <1>2, CacheKeeps
<1>4. token' = token + 1 => ctoken' # token'
  BY TokenHost2
<1> QED BY <1>3, <1>4, Zenon

\* A reset is counted before it is performed.
LEMMA CountedReset ==
  ASSUME Types, Types', TokenBehind, op \in Ops \cup {None}, Where, HostStep,
         op.name = "reset", todo \in {<< >>, Reset1(op.type, << >>)} \/ ctoken # token
  PROVE  ctoken' # token'
<1>1. todo # << >>
  BY Dispatch
<1>2. op.type \in ResetTypes /\ << >> \in Seq(Steps)
  BY <1>1, Kinds, OpsAre, EmptySeq
<1>3. CASE todo = Reset1(op.type, << >>)
  <2>1. IsList(todo, <<"reset", op.type>>, << >>)
    BY <1>2, <1>3, Wraps
  <2>2. token' = token + 1
    BY <2>1, Advance
  <2> QED BY <2>2, TokenHost2
<1> QED BY <1>1, <1>3, StaysOld

\* So is the one of reset_and_halt.
LEMMA CountedResetHalt ==
  ASSUME Types, Types', TokenBehind, op \in Ops \cup {None}, Where, HostStep,
         op.name = "reset_and_halt", Uncounted(op.type) \/ ctoken # token
  PROVE  Uncounted(op.type)' \/ ctoken' # token'
<1>1. todo # << >> /\ op' = op
  BY Dispatch, HostKeeps
<1>2. PICK type \in ResetTypes : type = op.type
  BY <1>1, Kinds, OpsAre
<1>3. /\ IsList(Reset1(type, Looking), <<"reset", type>>, Looking)
      /\ Catching(type) = Catch(TRUE, Reset1(type, Looking)) /\ TRUE \in BOOLEAN
      /\ IsList(Reading(type), <<"read_demcr">>, Catching(type))
      /\ IsList(Cons(Halt, Reading(type)), Halt, Reading(type))
      /\ Reset1(type, Looking) \in Seq(Steps) /\ Halt[1] = "dhcsr"
  BY HaltLists, Begins, Firsts, Zenon
<1>4. SUFFICES ASSUME Uncounted(type)
               PROVE  todo' \in {Reading(type), Catching(type), Reset1(type, Looking)}
                        \/ ctoken' # token'
  BY <1>1, <1>2, StaysOld DEF Uncounted
<1>5. CASE todo = Cons(Halt, Reading(type))
  <2>1. Reading(type) \in Seq(Steps) /\ FALSE \in BOOLEAN /\ TRUE \in BOOLEAN
    BY <1>3, Begins, Zenon
  <2>2. todo' = Reading(type)
    BY <1>5, <2>1, Writes, Zenon DEF Halt
  <2> QED BY <2>2
<1>6. CASE todo = Reading(type)
  <2>1. PICK first : first = <<"read_demcr">>
    OBVIOUS
  <2>2. IsList(todo, first, Catching(type)) /\ first[1] = "read_demcr"
    BY <1>3, <1>6, <2>1
  <2>3. todo' = Catching(type)
    BY <2>2, Advance
  <2> QED BY <2>3
<1>7. CASE todo = Catching(type)
  <2>1. todo' = Reset1(type, Looking)
    BY <1>3, <1>7, Catches, Zenon
  <2> QED BY <2>1
<1>8. CASE todo = Reset1(type, Looking)
  <2>1. token' = token + 1
    BY <1>3, <1>8, Advance
  <2> QED BY <2>1, TokenHost2
<1> QED BY <1>1, <1>4, <1>5, <1>6, <1>7, <1>8 DEF Uncounted

\* resume counts the run that the write of DHCSR begins.
LEMMA ResumingCounts ==
  ASSUME Types, NEW rest \in Seq(Steps), Resuming(rest), HostStep,
         rest = << >> \/ Head(rest)[1] # "dhcsr", todo' # << >>, Head(todo') = Go
  PROVE  token' = token + 1
<1>g. Go[1] = "dhcsr"
  BY Firsts
<1>1. Resume1(rest) \in Seq(Steps)
  BY WrapsBegin
<1>2. IsList(Resume1(rest), <<"resume">>, rest)
  BY Wraps
<1>h. Head(Resume1(rest))[1] = "resume"
  BY <1>2 DEF IsList
<1>3. CASE todo = Cons(GetState, Resume1(rest))
  <2>1. IsList(todo, GetState, Resume1(rest)) /\ GetState[1] = "state"
    BY <1>1, <1>3, Wraps, Firsts
  <2>2. todo' \in {Resume1(rest), Cons(<<"state_again">>, Resume1(rest))}
    BY <2>1, Advance
  <2>3. Head(Cons(<<"state_again">>, Resume1(rest)))[1] = "state_again"
    BY <1>1, WrapsBegin
  <2> QED BY <1>g, <1>h, <2>2, <2>3
<1>4. CASE todo = Cons(<<"state_again">>, Resume1(rest))
  <2>1. IsList(todo, <<"state_again">>, Resume1(rest))
    BY <1>1, <1>4, Wraps
  <2>2. todo' = Resume1(rest)
    BY <2>1, Advance
  <2> QED BY <1>g, <1>h, <2>2
<1>5. CASE todo = Resume1(rest)
  <2>1. todo' = rest \/ token' = token + 1
    BY <1>2, <1>5, Advance
  <2> QED BY <1>g, <2>1
<1>6. CASE todo = Cons(Go, rest)
  <2>1. IsList(todo, Go, rest)
    BY <1>6, Wraps
  <2>2. todo' = rest
    BY <1>g, <2>1, Advance
  <2> QED BY <1>g, <2>2
<1> QED BY <1>3, <1>4, <1>5, <1>6 DEF Resuming

\* In resume and disconnect the core is let go only after that.
LEMMA CountedResume ==
  ASSUME Types, op \in Ops \cup {None}, Where, HostStep,
         op.name \in {"resume", "disconnect"}, todo' # << >>, Head(todo') = Go
  PROVE  token' = token + 1
<1>0. todo # << >> /\ op \in Ops
  BY Dispatch, Kinds
<1>1. << >> \in Seq(Steps) /\ FALSE \in BOOLEAN
  BY EmptySeq
<1>2. IsList(Releasing, <<"release">>, << >>) /\ Go[1] = "dhcsr"
  BY LastLists, Firsts
<1>3. Releasing \in Seq(Steps) /\ Head(Releasing)[1] # "dhcsr"
  BY <1>2 DEF IsList
<1>4. CASE Resuming(<< >>) \/ Resuming(Releasing)
  BY <1>1, <1>3, <1>4, ResumingCounts
<1>5. CASE todo = Releasing
  <2>1. todo' = << >>
    BY <1>2, <1>5, Advance
  <2> QED BY <2>1
<1>6. todo # Catch(FALSE, << >>)
  BY <1>1, Catches, Zenon
<1>7. todo # Catch(FALSE, Cons(GetState, Resume1(Releasing)))
  <2>1. Resume1(Releasing) \in Seq(Steps)
    BY <1>3, WrapsBegin
  <2>2. Cons(GetState, Resume1(Releasing)) \in Seq(Steps)
        /\ Head(Cons(GetState, Resume1(Releasing)))[1] = "state"
    BY <2>1, WrapsBegin
  <2>3. Head(Cons(GetState, Resume1(Releasing))) # Go
    BY <1>2, <2>2
  <2> QED BY <1>1, <2>2, <2>3, Catches, Zenon
<1>8. CASE op.name = "resume"
  BY <1>0, <1>4, <1>8 DEF Where, ResumeOp
<1>9. CASE op.name = "disconnect"
  BY <1>0, <1>4, <1>5, <1>6, <1>7, <1>9 DEF Where, DisconnectOp
<1> QED BY <1>8, <1>9

\* A step of an operation keeps Counted.
LEMMA CountedHost ==
  ASSUME Types, Types', TokenBehind, op \in Ops \cup {None}, Where, Counted, HostStep
  PROVE  Counted'
<1>1. op' = op
  BY HostKeeps
<1>2. op.name = "reset" => ctoken' # token'
  BY CountedReset DEF Counted
<1>3. op.name = "reset_and_halt" => Uncounted(op.type)' \/ ctoken' # token'
  BY CountedResetHalt DEF Counted
<1>4. op.name \in {"resume", "disconnect"} /\ todo' # << >> /\ Head(todo') = Go => token' = token + 1
  BY CountedResume
<1>5. token' = token + 1 => ctoken' # token'
  BY TokenHost2
<1> QED BY <1>1, <1>2, <1>3, <1>4, <1>5 DEF Counted

\* A reset that takes another step than these was counted.
LEMMA CountedLate ==
  ASSUME Types, op \in Ops \cup {None}, Counted, op.name \in {"reset", "reset_and_halt"},
         todo # << >>, Head(todo)[1] \notin {"dhcsr", "read_demcr", "write_vc", "reset"}
  PROVE  ctoken # token
<1>1. op \in Ops
  BY DEF None
<1>2. PICK type \in ResetTypes : type = op.type
  BY <1>1, OpsAre
<1>3. todo # Reset1(type, << >>)
  <2>1. IsList(Reset1(type, << >>), <<"reset", type>>, << >>)
    BY LastLists, Wraps
  <2> QED BY <2>1 DEF IsList
<1>4. ~Uncounted(type)
  <2>1. /\ IsList(Reset1(type, Looking), <<"reset", type>>, Looking)
        /\ IsList(Reading(type), <<"read_demcr">>, Catching(type))
        /\ IsList(Cons(Halt, Reading(type)), Halt, Reading(type)) /\ Halt[1] = "dhcsr"
        /\ Catching(type) = Catch(TRUE, Reset1(type, Looking)) /\ TRUE \in BOOLEAN
        /\ Reset1(type, Looking) \in Seq(Steps)
    BY HaltLists, Begins, Firsts, Zenon
  <2>2. todo \notin {Reset1(type, Looking), Reading(type), Cons(Halt, Reading(type))}
    BY <2>1 DEF IsList
  <2>3. todo # Catching(type)
    <3>1. todo = Catching(type) => Head(todo)[1] = "write_vc"
      BY <2>1, Catches, Zenon
    <3> QED BY <3>1
  <2> QED BY <2>2, <2>3 DEF Uncounted
<1> QED BY <1>2, <1>3, <1>4 DEF Counted

\* So does everything else.
LEMMA CountedElse ==
  ASSUME Types, op \in Ops \cup {None}, Where, Counted, Fails \/ Hardware
  PROVE  Counted'
<1>1. CASE Fails
  <2>1. /\ op' = op /\ ctoken' = ctoken /\ token' = token /\ todo # << >>
        /\ todo' # << >> => Head(todo)[1] \in {"aircr", "await_reset", "await_halt"}
    BY <1>1, CacheFails
  <2>2. ASSUME todo' # << >>
        PROVE  op.name \in {"reset", "reset_and_halt"} /\ ctoken # token
    <3>1. op \in Ops /\ op.name \in {"reset", "reset_and_halt"}
      <4>1. op.name \notin {"halt", "set_vector_catch", "read", "write", "resume", "disconnect",
                            "step"}
        BY <2>1, <2>2, Kinds, Firsts
      <4> QED BY <2>1, <4>1, Kinds, OpsAre
    <3> QED BY <2>1, <2>2, <3>1, CountedLate
  <2>3. CASE todo' = << >>
    BY <2>1, <2>3 DEF Counted, Uncounted
  <2>4. CASE todo' # << >>
    BY <2>1, <2>2, <2>4 DEF Counted
  <2> QED BY <2>3, <2>4
<1>2. CASE Hardware
  <2>1. op' = op /\ todo' = todo /\ ctoken' = ctoken /\ token' = token
    BY <1>2, HardwareKeeps DEF host
  <2> QED BY <2>1 DEF Counted, Uncounted
<1> QED BY <1>1, <1>2

\* And so does the beginning of an operation, and its end.
LEMMA CountedBetween ==
  ASSUME Return \/ \E o \in menu : Start(o), menu \subseteq Ops
  PROVE  Counted'
<1>1. CASE Return
  <2>1. op' = None
    BY <1>1 DEF Return
  <2> QED BY <2>1 DEF Counted, None
<1>2. CASE \E o \in menu : Start(o)
  <2>1. PICK o \in Ops : op' = o /\ todo' = Program(o)
    BY <1>2 DEF Start
  <2>2. o.name = "reset" => Program(o) = Reset1(o.type, << >>)
    BY Programs
  <2>3. o.name = "reset_and_halt" => Program(o) = Cons(Halt, Reading(o.type))
    BY Programs
  <2>4. /\ << >> \in Seq(Steps) /\ Resume1(<< >>) \in Seq(Steps) /\ Go[1] = "dhcsr"
        /\ Releasing \in Seq(Steps) /\ Resume1(Releasing) \in Seq(Steps) /\ FALSE \in BOOLEAN
    <3>1. << >> \in Seq(Steps) /\ Releasing \in Seq(Steps)
      BY LastLists DEF IsList
    <3>2. Go[1] = "dhcsr" /\ FALSE \in BOOLEAN
      BY Firsts
    <3> QED BY <3>1, <3>2, WrapsBegin
  <2>5. o.name = "resume" => Head(Program(o)) # Go
    <3>1. Head(Cons(GetState, Resume1(<< >>)))[1] = "state"
      BY <2>4, WrapsBegin
    <3>2. o.name = "resume" => Program(o) = Cons(GetState, Resume1(<< >>))
      BY Programs
    <3> QED BY <2>4, <3>1, <3>2
  <2>6. o.name = "disconnect" => Head(Program(o)) # Go
    <3>1. Cons(GetState, Resume1(Releasing)) \in Seq(Steps)
      BY <2>4, WrapsBegin
    <3>2. ASSUME NEW rest \in Seq(Steps) PROVE Head(Catch(FALSE, rest))[1] = "write_vc"
      <4>1. IsList(Catch(FALSE, rest), <<"write_vc", FALSE>>, rest)
        BY <2>4, Wraps, Zenon
      <4>2. Head(Catch(FALSE, rest)) = <<"write_vc", FALSE>>
        BY <4>1, Begins, Zenon
      <4>3. <<"write_vc", FALSE>>[1] = "write_vc"
        BY Firsts, Zenon
      <4> QED BY <4>2, <4>3, Zenon
    <3>3. o.name = "disconnect" =>
            Program(o) \in {Catch(FALSE, Cons(GetState, Resume1(Releasing))), Catch(FALSE, << >>)}
      BY Programs
    <3> QED BY <2>4, <3>1, <3>2, <3>3
  <2> QED BY <2>1, <2>2, <2>3, <2>5, <2>6 DEF Counted, Uncounted
<1> QED BY <1>1, <1>2
-----------------------------------------------------------------------------
(* What disconnect lets go.                                                *)

\* Every name has a field.
LEMMA FieldsThere == \A reg \in CORE_REGISTER : FieldsOf(reg) # {} /\ FieldsOf(reg) \subseteq Fields
BY DEF CORE_REGISTER, FieldsOf, Fields

\* The cache of a core that is not halted is of no use, unless a write or a step goes on.
LEMMA UnusedOf ==
  ASSUME Types, Coherent, core # "halted", Left = {}, ~SteppedOff
  PROVE  Stale
<1>1. Pending = {}
  BY DEF Pending
<1>2. SUFFICES ASSUME ctoken = token, NEW reg \in Kept PROVE FALSE
  BY DEF Stale
<1>3. PICK field : field \in FieldsOf(reg)
  BY FieldsThere DEF Kept, Types, TypeOK
<1>4. Right(reg, field)
  BY <1>2, <1>3 DEF Coherent
<1> QED BY <1>1, <1>4 DEF Right

\* The lists of disconnect, one after the other.
LEMMA ResumingLists ==
  ASSUME Types, NEW rest \in Seq(Steps), Resuming(rest), HostStep
  PROVE  \/ todo' # << >> /\ Head(todo') = Go
         \/ /\ Head(todo)[1] = "state" /\ todo' # << >>
            /\ Head(todo')[1] \in {"resume", "state_again"}
         \/ Head(todo)[1] = "state_again" /\ todo' # << >> /\ Head(todo')[1] = "resume"
         \/ Head(todo)[1] = "resume" /\ todo' = rest /\ token' = token
         \/ Head(todo) = Go /\ todo' = rest
<1>1. /\ Resume1(rest) \in Seq(Steps) /\ IsList(Resume1(rest), <<"resume">>, rest)
      /\ Go[1] = "dhcsr"
  BY WrapsBegin, Wraps, Firsts
<1>2. Resume1(rest) # << >> /\ Head(Resume1(rest))[1] = "resume"
  BY <1>1 DEF IsList
<1>3. CASE todo = Cons(GetState, Resume1(rest))
  <2>1. IsList(todo, GetState, Resume1(rest)) /\ GetState[1] = "state"
    BY <1>1, <1>3, Wraps, Firsts
  <2>2. todo' \in {Resume1(rest), Cons(<<"state_again">>, Resume1(rest))}
    BY <2>1, Advance
  <2>3. /\ Head(Cons(<<"state_again">>, Resume1(rest)))[1] = "state_again"
        /\ Cons(<<"state_again">>, Resume1(rest)) # << >>
    <3>1. IsList(Cons(<<"state_again">>, Resume1(rest)), <<"state_again">>, Resume1(rest))
      BY <1>1, Wraps
    <3> QED BY <3>1 DEF IsList
  <2> QED BY <1>2, <2>1, <2>2, <2>3 DEF IsList
<1>4. CASE todo = Cons(<<"state_again">>, Resume1(rest))
  <2>1. IsList(todo, <<"state_again">>, Resume1(rest))
    BY <1>1, <1>4, Wraps
  <2>2. todo' = Resume1(rest)
    BY <2>1, Advance
  <2> QED BY <1>2, <2>1, <2>2 DEF IsList
<1>5. CASE todo = Resume1(rest)
  <2>1. \/ todo' = rest /\ token' = token
        \/ todo' = Cons(Go, rest)
    BY <1>1, <1>5, Advance
  <2>2. IsList(Cons(Go, rest), Go, rest)
    BY Wraps
  <2> QED BY <1>2, <1>5, <2>1, <2>2 DEF IsList
<1>6. CASE todo = Cons(Go, rest)
  <2>1. IsList(todo, Go, rest)
    BY <1>6, Wraps
  <2>2. todo' = rest
    BY <1>1, <2>1, Advance
  <2> QED BY <2>1, <2>2 DEF IsList
<1> QED BY <1>3, <1>4, <1>5, <1>6 DEF Resuming

\* They end with the release of the core.
LEMMA DisconnectLists ==
  ASSUME Types, op \in Ops \cup {None}, Where, HostStep, op.name = "disconnect"
  PROVE  \/ todo' = << >>
         \/ Head(todo') = Go \/ Head(todo')[1] = "state"
         \/ Head(todo)[1] = "state" /\ Head(todo')[1] \in {"resume", "state_again"}
         \/ Head(todo)[1] = "state_again" /\ Head(todo')[1] = "resume"
         \/ Head(todo)[1] = "resume" /\ Head(todo')[1] = "release" /\ token' = token
         \/ Head(todo) = Go /\ Head(todo')[1] = "release"
<1>0. todo # << >> /\ op \in Ops
  BY Dispatch, Kinds
<1>1. << >> \in Seq(Steps) /\ FALSE \in BOOLEAN
  BY EmptySeq
<1>2. IsList(Releasing, <<"release">>, << >>)
  BY LastLists
<1>3. Releasing \in Seq(Steps) /\ Head(Releasing)[1] = "release"
  BY <1>2 DEF IsList
<1>4. CASE Resuming(Releasing)
  BY <1>3, <1>4, ResumingLists
<1>5. CASE todo = Releasing
  <2>1. todo' = << >>
    BY <1>2, <1>5, Advance
  <2> QED BY <2>1
<1>6. CASE todo = Catch(FALSE, << >>)
  <2>1. todo' = << >>
    BY <1>1, <1>6, Catches, Zenon
  <2> QED BY <2>1
<1>7. CASE todo = Catch(FALSE, Cons(GetState, Resume1(Releasing)))
  <2>1. Resume1(Releasing) \in Seq(Steps)
    BY <1>3, WrapsBegin
  <2>2. Cons(GetState, Resume1(Releasing)) \in Seq(Steps)
        /\ Head(Cons(GetState, Resume1(Releasing)))[1] = "state"
    BY <2>1, WrapsBegin
  <2>3. todo' = Cons(GetState, Resume1(Releasing))
    BY <1>1, <1>7, <2>2, Catches, Zenon
  <2> QED BY <2>2, <2>3
<1> QED BY <1>0, <1>4, <1>5, <1>6, <1>7 DEF Where, DisconnectOp

\* A step of disconnect keeps Leaving.
LEMMA LeavingHost ==
  ASSUME Types, Types', TokenBehind, op \in Ops \cup {None}, Where, Counted, Leaving, Coherent,
         HostStep
  PROVE  Leaving'
<1>0. op' = op /\ todo # << >>
  BY HostKeeps, Dispatch
<1>1. SUFFICES ASSUME op.name = "disconnect", todo' # << >>
               PROVE  /\ Head(todo')[1] = "release" => Stale'
                      /\ Head(todo')[1] = "resume" /\ loc'.state # "halted" => Stale'
                      /\ Head(todo')[1] = "state_again" /\ (loc'.state # "halted" \/ sticky'.reset)
                           => Stale'
  BY <1>0 DEF Leaving
<1>2. Stale => Stale'
  <2>1. ~Doing("check_cache") /\ ~Doing("fill") /\ ~Doing("enter")
    BY <1>0, <1>1, Performs DEF Doing
  <2>2. cache' = cache /\ excused \subseteq excused'
    BY <2>1, CacheKeeps
  <2>3. ctoken # token => ctoken' # token'
    BY <1>1, StaysOld
  <2> QED BY <2>2, <2>3 DEF Stale, Kept
<1>3. core # "halted" => Stale
  BY <1>1, UnusedOf DEF Left, SteppedOff
<1>4. CASE Head(todo') = Go \/ Head(todo')[1] = "state"
  BY <1>4, Firsts
<1>5. CASE Head(todo)[1] = "state" /\ Head(todo')[1] \in {"resume", "state_again"}
  <2>1. ReadState
    BY <1>0, <1>5, Dispatch
  <2>2. loc'.state # "halted" \/ sticky'.reset => core # "halted"
    BY <2>1 DEF ReadState, ReadSticky, Types, Locals
  <2> QED BY <1>2, <1>3, <1>5, <2>2
<1>6. CASE Head(todo)[1] = "state_again" /\ Head(todo')[1] = "resume"
  <2>1. ReadStateAgain
    BY <1>0, <1>6, Dispatch
  <2>2. loc'.state # "halted" => loc.state # "halted" \/ sticky.reset
    BY <2>1 DEF ReadStateAgain
  <2>3. loc.state # "halted" \/ sticky.reset => Stale
    BY <1>0, <1>1, <1>6 DEF Leaving
  <2> QED BY <1>2, <1>6, <2>2, <2>3
<1>7. CASE Head(todo)[1] = "resume" /\ Head(todo')[1] = "release" /\ token' = token
  <2>1. Resume
    BY <1>0, <1>7, Dispatch
  <2>2. loc.state # "halted"
    <3>1. \A a \in Nat : a # a + 1
      OBVIOUS
    <3>2. token \in Nat
      BY CortexMAssumption DEF Types, TypeOK
    <3> QED BY <1>7, <2>1, <3>1, <3>2 DEF Resume
  <2>3. Stale
    BY <1>0, <1>1, <1>7, <2>2 DEF Leaving
  <2> QED BY <1>2, <1>7, <2>3
<1>8. CASE Head(todo) = Go /\ Head(todo')[1] = "release"
  <2>1. ctoken # token
    BY <1>0, <1>1, <1>8 DEF Counted
  <2> QED BY <1>2, <1>8, <2>1 DEF Stale
<1> QED BY <1>1, <1>4, <1>5, <1>6, <1>7, <1>8, DisconnectLists

\* So does everything else.
LEMMA LeavingElse ==
  ASSUME Types, op \in Ops \cup {None}, Where, Asked, Leaving, Fails \/ Hardware
  PROVE  Leaving'
<1>1. CASE Fails
  <2>1. /\ op' = op /\ todo # << >>
        /\ todo' # << >> => Head(todo)[1] \in {"aircr", "await_reset", "await_halt"}
    BY <1>1, CacheFails
  <2>2. op.name = "disconnect" =>
          Head(todo)[1] \in {"state", "state_again", "resume", "write_vc", "release", "dhcsr"}
    BY <2>1, Kinds, Firsts
  <2>3. op.name = "disconnect" => todo' = << >>
    BY <2>1, <2>2
  <2> QED BY <2>1, <2>3 DEF Leaving
<1>2. CASE Hardware
  <2>1. /\ op' = op /\ todo' = todo /\ loc' = loc /\ token' = token /\ ctoken' = ctoken
        /\ cache' = cache
        /\ excused' = excused \/ excused' = DOMAIN cache
        /\ sticky'.reset => \/ sticky.reset \/ excused' = DOMAIN cache
                            \/ todo # << >> /\ Head(todo) = <<"await_reset">>
    BY <1>2, CacheHardware DEF host
  <2>2. Stale => Stale'
    BY <2>1 DEF Stale, Kept
  <2>3. excused' = DOMAIN cache => Stale'
    BY <2>1 DEF Stale, Kept
  <2>4. todo # << >> /\ Head(todo)[1] = "state_again" /\ sticky'.reset => sticky.reset \/ Stale'
    BY <2>1, <2>3
  <2> QED BY <2>1, <2>2, <2>4 DEF Leaving
<1> QED BY <1>1, <1>2

\* Before disconnect reads the state of the core there is nothing to say.
LEMMA LeavingBetween ==
  ASSUME Return \/ \E o \in menu : Start(o), menu \subseteq Ops
  PROVE  Leaving'
<1>1. CASE Return
  <2>1. op' = None
    BY <1>1 DEF Return
  <2> QED BY <2>1 DEF Leaving, None
<1>2. CASE \E o \in menu : Start(o)
  <2>1. PICK o \in Ops : op' = o /\ todo' = Program(o)
    BY <1>2 DEF Start
  <2>2. o.name = "disconnect" => Head(Program(o))[1] = "write_vc"
    <3>1. << >> \in Seq(Steps) /\ Releasing \in Seq(Steps) /\ FALSE \in BOOLEAN
      BY LastLists DEF IsList
    <3>2. Cons(GetState, Resume1(Releasing)) \in Seq(Steps)
      BY <3>1, WrapsBegin
    <3>3. ASSUME NEW rest \in Seq(Steps) PROVE Head(Catch(FALSE, rest))[1] = "write_vc"
      <4>1. IsList(Catch(FALSE, rest), <<"write_vc", FALSE>>, rest)
        BY <3>1, Wraps, Zenon
      <4>2. Head(Catch(FALSE, rest)) = <<"write_vc", FALSE>>
        BY <4>1, Begins, Zenon
      <4>3. <<"write_vc", FALSE>>[1] = "write_vc"
        BY Firsts, Zenon
      <4> QED BY <4>2, <4>3, Zenon
    <3>4. o.name = "disconnect" =>
            Program(o) \in {Catch(FALSE, Cons(GetState, Resume1(Releasing))), Catch(FALSE, << >>)}
      BY Programs
    <3> QED BY <3>1, <3>2, <3>3, <3>4
  <2> QED BY <2>1, <2>2 DEF Leaving
<1> QED BY <1>1, <1>2
-----------------------------------------------------------------------------
(* The values of the cache are the core's.                                 *)

\* A cache that is not in use is coherent.
LEMMA CoherentUnused == ASSUME Stale PROVE Coherent
BY DEF Stale, Coherent

\* What changes neither the core nor the cache keeps them coherent.
LEMMA CoherentKeeps ==
  ASSUME Coherent, op' = op, core' = core, regs' = regs, cache' = cache,
         excused \subseteq excused', token' = token, ctoken' = ctoken, Left' = Left,
         SteppedOff => SteppedOff'
  PROVE  Coherent'
<1>1. Kept' \subseteq Kept /\ Pending' = Pending
  BY DEF Kept, Pending
<1> QED BY <1>1 DEF Coherent, Right

\* step lets the core go before it counts the run.
LEMMA CoherentStep ==
  ASSUME Types, Types', TokenBehind, op \in Ops \cup {None}, Where, Coherent, HostStep,
         op.name = "step"
  PROVE  Coherent'
<1>1. /\ op' = op /\ todo # << >> /\ past'.mask = past.mask /\ op \in Ops
  BY HostKeeps, Dispatch, Kinds
<1>2. /\ IsList(Counting, <<"count">>, << >>) /\ IsList(Step1, <<"step">>, << >>)
      /\ IsList(AwaitingStep, <<"await_step">>, IF Masking THEN Unmasking ELSE Counting)
      /\ AwaitingStep \in Seq(Steps) /\ Counting \in Seq(Steps)
  BY <1>1, StepLists, LastLists DEF IsList
<1>3. TRUE \in BOOLEAN /\ FALSE \in BOOLEAN /\ StepMask \in BOOLEAN /\ Going \in Seq(Steps)
  BY <1>1, StepLists
<1>4. AwaitingStep' = AwaitingStep
  BY <1>1 DEF AwaitingStep, Masking
<1>5. token' = token + 1 => Coherent'
  <2>1. token' = token + 1 => ctoken' # token'
    BY TokenHost2
  <2> QED BY <2>1 DEF Coherent
<1>6. CASE todo = AwaitingStep
  <2>1. todo' \in {todo, Unmasking, Counting}
    BY <1>2, <1>6, Advance
  <2> QED BY <1>1, <1>4, <1>6, <2>1 DEF Coherent, SteppedOff
<1>7. CASE todo = Unmasking
  <2>1. todo' = Counting
    BY <1>2, <1>3, <1>7, Writes, Zenon DEF Unmasking, Halt
  <2> QED BY <1>1, <2>1 DEF Coherent, SteppedOff
<1>8. CASE todo = Counting
  <2>1. Head(todo)[1] = "count"
    BY <1>2, <1>8 DEF IsList
  <2>2. CountStep
    BY <2>1, Dispatch
  <2> QED BY <1>5, <2>2 DEF CountStep
<1>9. CASE todo = Going
  <2>1. todo' = AwaitingStep
    BY <1>2, <1>3, <1>9, Writes, Zenon DEF Going
  <2> QED BY <1>1, <1>4, <2>1 DEF Coherent, SteppedOff
<1>10. CASE todo \in {Step1, Mask1}
  <2>1. Head(todo)[1] \in {"step", "dhcsr"} /\ core' = core
    <3>1. CASE todo = Step1
      <4>1. Head(todo)[1] = "step"
        BY <1>2, <3>1 DEF IsList
      <4> QED BY <4>1, HostKeeps DEF Doing
    <3>2. CASE todo = Mask1
      <4>1. Head(todo)[1] = "dhcsr" /\ core' = core
        BY <1>3, <3>2, Writes, Zenon DEF Mask1
      <4> QED BY <4>1
    <3> QED BY <1>10, <3>1, <3>2
  <2>2. /\ regs' = regs /\ token' = token /\ cache' = cache /\ excused \subseteq excused'
        /\ ctoken' = ctoken
    BY <2>1, HostKeeps, CacheKeeps DEF Doing
  <2>3. Left' = Left
    BY <1>1 DEF Left
  <2>4. ~SteppedOff
    <3>1. Head(todo)[1] \in {"step", "dhcsr"}
      BY <2>1
    <3>2. todo \notin {AwaitingStep, Counting}
      BY <1>2, <3>1 DEF IsList
    <3>3. todo # Unmasking
      <4>1. Step1 # Unmasking
        <5>1. Head(Step1)[1] = "step" /\ Head(Unmasking) = Halt /\ Halt[1] = "dhcsr"
          BY <1>2, WrapsBegin, Firsts DEF IsList, Unmasking
        <5> QED BY <5>1
      <4> QED BY <1>1, <1>10, <4>1, StepLists
    <3> QED BY <3>2, <3>3 DEF SteppedOff
  <2> QED BY <1>1, <2>1, <2>2, <2>3, <2>4, CoherentKeeps
<1> QED BY <1>1, <1>6, <1>7, <1>8, <1>9, <1>10 DEF Where, StepOp
\* The core is let go by an operation that has counted the run, or that found it running.
LEMMA CoherentDhcsr ==
  ASSUME Types, Types', TokenBehind, op \in Ops \cup {None}, Where, Counted, Leaving, Coherent,
         HostStep, op.name # "step", Doing("dhcsr") \/ Doing("release")
  PROVE  Coherent'
<1>0. op' = op /\ todo # << >> /\ op \in Ops
  BY HostKeeps, Dispatch, Kinds
<1>1. ~SteppedOff
  BY DEF SteppedOff
<1>2. /\ cache' = cache /\ ctoken' = ctoken /\ excused \subseteq excused'
      /\ token' = token /\ regs' = regs
  BY HostKeeps, CacheKeeps DEF Doing
<1>3. Stale => Coherent'
  <2>1. Stale => Stale'
    BY <1>2 DEF Stale, Kept
  <2> QED BY <2>1 DEF Stale, Coherent
<1>4. CASE Doing("release")
  <2>1. op.name \in {"resume", "disconnect"}
    BY <1>0, <1>4, Performs DEF Doing
  <2>2. op.name # "resume"
    <3>1. << >> \in Seq(Steps) /\ Go[1] = "dhcsr"
      BY EmptySeq, Firsts
    <3>2. ~Resuming(<< >>)
      BY <1>4, <3>1, ResumingFirst DEF Doing
    <3> QED BY <1>0, <3>2 DEF Where, ResumeOp
  <2>3. Stale
    BY <1>0, <1>4, <2>1, <2>2 DEF Leaving, Doing
  <2> QED BY <1>3, <2>3
<1>5. CASE Doing("dhcsr") /\ Head(todo) = Go
  <2>1. op.name \in {"resume", "disconnect"}
    <3>1. Go # Halt
      <4>1. Go[2].halt = FALSE /\ Halt[2].halt = TRUE
        BY DEF Go, Halt, Dhcsr
      <4> QED BY <4>1
    <3>2. Go[1] = "dhcsr" /\ Go \notin {<<"nreset">>, <<"aircr">>, <<"await_reset">>}
      BY Firsts
    <3> QED BY <1>0, <1>5, <3>1, <3>2, Kinds, OpsAre
  <2>2. ctoken # token
    BY <1>0, <1>5, <2>1 DEF Counted
  <2> QED BY <1>3, <2>2 DEF Stale
<1>6. CASE Doing("dhcsr") /\ Head(todo) # Go
  <2>1. Head(todo) = Halt
    BY <1>0, <1>6, Kinds, OpsAre DEF Doing
  <2>2. WriteDhcsr
    BY <1>6, Dispatch DEF Doing
  <2>3. core' = core
    <3>1. Halt[2].halt = TRUE
      BY DEF Halt, Dhcsr
    <3> QED BY <2>1, <2>2, <3>1 DEF WriteDhcsr, Arg
  <2>4. Left' = Left
    <3>1. ~(op.name = "write" /\ Doing("put"))
      BY <1>6 DEF Doing
    <3>2. ~Doing("enter")
      BY <1>6 DEF Doing
    <3> QED BY <3>1, <3>2, LeftHost
  <2> QED BY <1>0, <1>1, <1>2, <2>3, <2>4, CoherentKeeps
<1> QED BY <1>4, <1>5, <1>6

\* A reset is counted before it changes the core and its registers.
LEMMA CoherentReset ==
  ASSUME Types, Types', TokenBehind, op \in Ops \cup {None}, Where, Counted, HostStep,
         op.name \in {"reset", "reset_and_halt"},
         Doing("nreset") \/ Doing("thumb") \/ Doing("put")
  PROVE  Coherent'
<1>1. ctoken # token
  BY CountedLate DEF Doing, Idle
<1>2. ctoken' # token'
  BY <1>1, StaysOld
<1> QED BY <1>2 DEF Coherent

\* Most steps change neither the core's state nor its registers nor the cache.
LEMMA CoherentQuiet ==
  ASSUME Types, Types', TokenBehind, op \in Ops \cup {None}, Where, Coherent, HostStep,
         op.name # "step",
         ~Doing("dhcsr"), ~Doing("release"), ~Doing("nreset"), ~Doing("thumb"), ~Doing("put"),
         ~Doing("check_cache"), ~Doing("fill"), ~Doing("enter")
  PROVE  Coherent'
<1>1. /\ op' = op /\ core' = core /\ regs' = regs /\ cache' = cache
      /\ excused \subseteq excused' /\ ctoken' = ctoken
  BY HostKeeps, CacheKeeps
<1>2. Left' = Left
  BY LeftHost
<1>3. ~SteppedOff
  BY DEF SteppedOff
<1>4. CASE token' = token
  BY <1>1, <1>2, <1>3, <1>4, CoherentKeeps
<1>5. CASE token' = token + 1
  <2>1. ctoken' # token'
    BY <1>5, TokenHost2
  <2> QED BY <2>1 DEF Coherent
<1> QED BY <1>4, <1>5, CacheKeeps

\* The check of the cache empties it or leaves it.
LEMMA CoherentChecked ==
  ASSUME Types, op \in Ops \cup {None}, Where, Coherent, HostStep, op.name # "step",
         Doing("check_cache")
  PROVE  Coherent'
<1>1. op' = op /\ core' = core /\ regs' = regs /\ token' = token
  BY HostKeeps DEF Doing
<1>2. Left' = Left
  BY LeftHost DEF Doing
<1>3. ~SteppedOff
  BY DEF SteppedOff
<1>4. CASE cache' = EmptyCache
  <2>1. DOMAIN cache' = {}
    BY <1>4 DEF EmptyCache
  <2>2. Kept' = {}
    BY <2>1 DEF Kept
  <2> QED BY <2>2 DEF Coherent
<1>5. CASE cache' = cache /\ excused' = excused /\ ctoken' = ctoken
  BY <1>1, <1>2, <1>3, <1>5, CoherentKeeps
<1> QED BY <1>4, <1>5, CacheKeeps

\* What is read from a halted core is what it has; the rest is excused.
LEMMA CoherentFill ==
  ASSUME Types, Types', op \in Ops \cup {None}, Where, Coherent, HostStep, Doing("fill")
  PROVE  Coherent'
<1>0. op.name = "read" /\ op' = op /\ core' = core /\ regs' = regs /\ token' = token
      /\ ctoken' = ctoken
  BY Performs, HostKeeps, CacheKeeps DEF Doing, Idle
<1>1. Fill
  BY Dispatch DEF Doing
<1>2. Pending = {} /\ Pending' = {} /\ ~SteppedOff
  BY <1>0 DEF Pending, Left, SteppedOff
<1>3. PICK names : names = Filled(Missing(cache, op.list))
  OBVIOUS
<1>4. /\ cache' = AfterRead(cache, op.list, regs)
      /\ \/ excused' = excused \ names /\ (core = "halted" \/ names = {})
         \/ excused' = excused \cup names
  BY <1>1, <1>3 DEF Fill, Unhalted
<1>5. cache' = Merged(cache, [reg \in names |-> ValueOf(regs, reg)])
  BY <1>3, <1>4, Zenon DEF AfterRead
<1>6. PICK read : read = [reg \in names |-> ValueOf(regs, reg)]
  OBVIOUS
<1>7. /\ DOMAIN read = names /\ DOMAIN cache' = DOMAIN cache \cup names
      /\ \A reg \in names : cache'[reg] = ValueOf(regs, reg)
      /\ \A reg \in DOMAIN cache \ names : cache'[reg] = cache[reg]
  BY <1>5, <1>6 DEF Merged
<1>8. SUFFICES ASSUME ctoken = token, NEW reg \in Kept', NEW field \in FieldsOf(reg)
               PROVE  core = "halted" /\ cache'[reg][field] = regs[field]
  BY <1>0, <1>2 DEF Coherent, Right
<1>9. CASE reg \in names
  <2>1. core = "halted"
    BY <1>4, <1>8, <1>9 DEF Kept
  <2>2. FieldsOf(reg) \subseteq DOMAIN regs
    <3>1. reg \in CORE_REGISTER
      BY <1>8 DEF Kept, Types, TypeOK
    <3> QED BY <3>1, FieldsThere DEF Types, TypeOK
  <2> QED BY <1>7, <1>8, <1>9, <2>1, <2>2 DEF ValueOf, Restrict
<1>10. CASE reg \notin names
  <2>1. reg \in Kept /\ cache'[reg] = cache[reg]
    BY <1>4, <1>7, <1>8, <1>10 DEF Kept
  <2>2. Right(reg, field)
    BY <1>2, <1>8, <2>1 DEF Coherent
  <2> QED BY <1>2, <2>1, <2>2 DEF Right
<1> QED BY <1>9, <1>10
\* The values that a write enters are those it transfers.
LEMMA CoherentEnter ==
  ASSUME Types, op \in Ops \cup {None}, Where, Coherent, HostStep, Doing("enter")
  PROVE  Coherent'
<1>1. PICK names : names = ToSet(op.list)
  OBVIOUS
<1>2. PICK list \in Seq(CORE_REGISTER) : list = op.list
  BY EnterIs
<1>3. PICK parts : parts = Range(RegDataList(list))
  OBVIOUS
<1>4. /\ op.name = "write" /\ op' = op
      /\ names \subseteq CORE_REGISTER
      /\ Left' = {Put(reg, Data(reg, op.bit)) : reg \in parts}
      /\ DOMAIN cache' = (DOMAIN cache \cup names) \ Groups(names)
      /\ \A reg \in DOMAIN cache' :
           cache'[reg] = IF reg \in names THEN Data(reg, op.bit) ELSE cache[reg]
      /\ excused' = (excused \ names) \cup (Aliases(list) \cap DOMAIN cache)
      /\ core' = core /\ regs' = regs /\ token' = token /\ ctoken' = ctoken
  BY <1>1, <1>2, <1>3, EnterIs
<1>5. /\ \A reg \in parts : \E name \in names : FieldsOf(reg) \subseteq FieldsOf(name)
      /\ \A name \in names : name \notin Groups(names) =>
           \A field \in FieldsOf(name) : \E reg \in parts : field \in FieldsOf(reg)
  BY <1>1, <1>2, <1>3, TransfersCover
<1>6. Pending' = UNION {FieldsOf(reg) : reg \in parts}
  <2>1. \A reg \in parts : /\ Put(reg, Data(reg, op.bit)) \in Left'
                           /\ Put(reg, Data(reg, op.bit))[2] = reg
    BY <1>4 DEF Put
  <2>2. \A step \in Left' : \E reg \in parts : step[2] = reg
    BY <1>4, <2>1
  <2>3. \A reg \in parts : \E step \in Left' : step[2] = reg
    BY <2>1
  <2> QED BY <2>2, <2>3 DEF Pending
<1>7. Left = {}
  <2>1. todo # << >> /\ Head(todo)[1] = "enter" /\ op \in Ops
    BY <1>4 DEF Doing, Idle, None
  <2>2. todo \notin Seq(TransferSteps(op))
    <3>1. \A s \in TransferSteps(op) : s[1] \in {"read_first", "put"}
      BY <1>4, <2>1, OpsAre, TransferStepsAre
    <3> QED BY <2>1, <3>1
  <2>3. todo = Enter1
    <3>1. Enter1 \in Seq(Steps) /\ Checked(Enter1) \in Seq(Steps)
      BY LastLists, WrapsBegin DEF IsList
    <3>2. /\ Head(Checked(Enter1))[1] = "check_cache"
          /\ Head(Cons(GetState, Checked(Enter1)))[1] = "state"
          /\ Head(Cons(<<"state_again">>, Checked(Enter1)))[1] = "state_again"
      BY <3>1, WrapsBegin
    <3> QED BY <1>4, <2>1, <2>2, <3>2 DEF Where, WriteOp
  <2>4. IsList(Enter1, <<"enter">>, << >>)
    BY LastLists
  <2>5. PICK first : first = <<"enter">>
    OBVIOUS
  <2>6. Range(todo) = {first} \cup Range(<< >>)
    BY <2>3, <2>4, <2>5, RangeOfHeadAndTail DEF IsList
  <2>7. Range(<< >>) = {} /\ first[1] # "put"
    BY <2>5 DEF Range
  <2> QED BY <2>6, <2>7 DEF Left
<1>8. Pending = {} /\ ~SteppedOff
  BY <1>4, <1>7 DEF Pending, SteppedOff
<1>9. SUFFICES ASSUME ctoken = token, NEW reg \in Kept', NEW field \in FieldsOf(reg)
               PROVE  Right(reg, field)'
  BY <1>4 DEF Coherent
<1>10. CASE reg \in names
  <2>1. reg \notin Groups(names) /\ cache'[reg] = Data(reg, op.bit)
    BY <1>4, <1>9, <1>10 DEF Kept
  <2>2. field \in Pending'
    BY <1>5, <1>6, <1>9, <1>10, <2>1
  <2>3. cache'[reg][field] = op.bit
    BY <1>9, <2>1 DEF Data
  <2> QED BY <1>4, <2>2, <2>3 DEF Right
<1>11. CASE reg \notin names
  <2>1. /\ reg \in Kept /\ cache'[reg] = cache[reg] /\ reg \notin Groups(names)
        /\ reg \notin Aliases(list) /\ reg \in CORE_REGISTER
    BY <1>4, <1>9, <1>11 DEF Kept, Types, TypeOK
  <2>2. \A other \in names : FieldsOf(reg) \cap FieldsOf(other) = {}
    BY <1>1, <1>2, <1>11, <2>1 DEF Aliases
  <2>3. field \notin Pending'
    BY <1>5, <1>6, <1>9, <2>2
  <2>4. Right(reg, field)
    BY <1>8, <1>9, <2>1 DEF Coherent
  <2> QED BY <1>4, <1>8, <2>1, <2>3, <2>4 DEF Right
<1> QED BY <1>10, <1>11

\* The combined register that a part is transferred with.
IsSub(reg) == IsCfbpSub(reg) \/ IsPsrSub(reg)
WholeOf(reg) == IF IsCfbpSub(reg) THEN "cfbp" ELSE "xpsr"
Beside(reg) == IF IsSub(reg) THEN FieldsOf(WholeOf(reg)) ELSE {}

\* A write transfers a register with the bit of the write.
LEMMA PutsOfWrite ==
  ASSUME Types, op \in Ops \cup {None}, Where, Doing("put"), op.name = "write"
  PROVE  /\ op \in Ops /\ todo \in Seq(TransferSteps(op)) /\ todo # << >>
         /\ \E reg \in CORE_REGISTER : Head(todo) = Put(reg, Data(reg, op.bit))
<1>1. todo # << >> /\ Head(todo)[1] = "put" /\ op \in Ops
  BY Kinds DEF Doing, Idle
<1>2. todo \in Seq(TransferSteps(op))
  <2>1. Enter1 \in Seq(Steps) /\ Checked(Enter1) \in Seq(Steps) /\ Head(Enter1)[1] = "enter"
    BY LastLists, WrapsBegin DEF IsList
  <2>2. /\ Head(Checked(Enter1))[1] = "check_cache"
        /\ Head(Cons(GetState, Checked(Enter1)))[1] = "state"
        /\ Head(Cons(<<"state_again">>, Checked(Enter1)))[1] = "state_again"
    BY <2>1, WrapsBegin
  <2> QED BY <1>1, <2>1, <2>2 DEF Where, WriteOp
<1>3. PICK first : first = Head(todo)
  OBVIOUS
<1>4. first \in TransferSteps(op) /\ first[1] = "put"
  BY <1>1, <1>2, <1>3
<1> QED BY <1>1, <1>2, <1>3, <1>4 DEF TransferSteps

\* What a transfer to a halted core writes: the fields of its register, and the rest of its
\* group as it was read first.
LEMMA PutIs ==
  ASSUME Types, op \in Ops \cup {None}, Where, HostStep, Doing("put"), op.name = "write",
         NEW reg \in CORE_REGISTER, Head(todo) = Put(reg, Data(reg, op.bit)), core = "halted"
  PROVE  /\ \A field \in FieldsOf(reg) : regs'[field] = op.bit
         /\ \A field \in Fields \ FieldsOf(reg) :
              regs'[field] = IF field \in Beside(reg) /\ field \in DOMAIN loc.merge
                               THEN loc.merge[field] ELSE regs[field]
         /\ ~IsSub(reg) => loc' = loc
         /\ IsSub(reg) =>
              /\ DOMAIN loc.merge \subseteq DOMAIN loc'.merge
              /\ \A field \in DOMAIN loc.merge :
                   loc'.merge[field] = IF field \in Beside(reg) THEN regs'[field]
                                                               ELSE loc.merge[field]
         /\ past' = past
<1>1. todo # << >> /\ Head(todo)[1] = "put"
  BY DEF Doing, Idle
<1>2. PICK first : first = Head(todo)
  OBVIOUS
<1>3. first[2] = reg /\ first[3] = Data(reg, op.bit)
  BY <1>2 DEF Put
<1>4. PutRegister
  BY <1>1, Dispatch
<1>5. PICK group : group = IF IsCfbpSub(reg) \/ IsPsrSub(reg)
                             THEN FieldsOf(Selectors(reg)[1]) ELSE {}
  OBVIOUS
<1>6. PICK old : old = Restrict(loc.merge, group \cap DOMAIN loc.merge)
  OBVIOUS
<1>7. PICK merge : merge = Merged(old, Data(reg, op.bit))
  OBVIOUS
<1>8. /\ regs' = Merged(regs, merge) /\ past' = past
      /\ loc' = IF group = {} THEN loc ELSE [loc EXCEPT !.merge = Merged(@, merge)]
  BY <1>2, <1>3, <1>4, <1>5, <1>6, <1>7 DEF PutRegister, history
<1>9. group = Beside(reg) /\ (group = {} <=> ~IsSub(reg)) /\ (IsSub(reg) => FieldsOf(reg) \subseteq group)
  <2>1. PICK one : one = <<"cfbp">>
    OBVIOUS
  <2>2. PICK two : two = <<"xpsr">>
    OBVIOUS
  <2>3. one[1] = "cfbp" /\ two[1] = "xpsr"
    BY <2>1, <2>2
  <2>4. CASE IsCfbpSub(reg)
    <3>1. ~IsPsrSub(reg) /\ ~IsDouble(reg)
      BY <2>4 DEF IsCfbpSub, IsPsrSub, IsDouble
    <3>2. Selectors(reg) = one
      BY <2>1, <2>4, <3>1, Zenon DEF Selectors
    <3>3. group = FieldsOf("cfbp")
      BY <1>5, <2>3, <2>4, <3>2
    <3> QED BY <2>4, <3>3 DEF Beside, IsSub, WholeOf, FieldsOf, IsCfbpSub
  <2>5. CASE IsPsrSub(reg)
    <3>1. ~IsCfbpSub(reg) /\ ~IsDouble(reg)
      BY <2>5 DEF IsCfbpSub, IsPsrSub, IsDouble
    <3>2. Selectors(reg) = two
      BY <2>2, <2>5, <3>1, Zenon DEF Selectors
    <3>3. group = FieldsOf("xpsr")
      BY <1>5, <2>3, <2>5, <3>2
    <3> QED BY <2>5, <3>1, <3>3 DEF Beside, IsSub, WholeOf, FieldsOf, IsPsrSub
  <2>6. CASE ~IsCfbpSub(reg) /\ ~IsPsrSub(reg)
    BY <1>5, <2>6 DEF Beside, IsSub
  <2> QED BY <2>4, <2>5, <2>6
<1>10. /\ DOMAIN old = group \cap DOMAIN loc.merge
       /\ \A field \in DOMAIN old : old[field] = loc.merge[field]
       /\ DOMAIN Data(reg, op.bit) = FieldsOf(reg)
       /\ \A field \in FieldsOf(reg) : Data(reg, op.bit)[field] = op.bit
  BY <1>6 DEF Restrict, Data
<1>11. /\ DOMAIN merge = (group \cap DOMAIN loc.merge) \cup FieldsOf(reg)
       /\ \A field \in FieldsOf(reg) : merge[field] = op.bit
       /\ \A field \in DOMAIN merge \ FieldsOf(reg) : merge[field] = loc.merge[field]
  BY <1>7, <1>10 DEF Merged
<1>12. DOMAIN regs = Fields /\ FieldsOf(reg) \subseteq Fields
  BY FieldsThere DEF Types, TypeOK
<1>13. /\ \A field \in DOMAIN merge : regs'[field] = merge[field]
       /\ \A field \in Fields \ DOMAIN merge : regs'[field] = regs[field]
  BY <1>8, <1>12 DEF Merged
<1>14. IsSub(reg) =>
         /\ DOMAIN loc'.merge = DOMAIN loc.merge \cup DOMAIN merge
         /\ \A field \in DOMAIN loc'.merge :
              loc'.merge[field] = IF field \in DOMAIN merge THEN merge[field] ELSE loc.merge[field]
  <2>1. IsSub(reg) => loc'.merge = Merged(loc.merge, merge)
    BY <1>8, <1>9 DEF Types, Locals
  <2> QED BY <2>1 DEF Merged
<1> HIDE <1>5, <1>6, <1>7, <1>10
<1>15. /\ \A field \in FieldsOf(reg) : regs'[field] = op.bit
       /\ \A field \in Fields \ FieldsOf(reg) :
            regs'[field] = IF field \in Beside(reg) /\ field \in DOMAIN loc.merge
                             THEN loc.merge[field] ELSE regs[field]
  BY <1>9, <1>11, <1>13
<1>16. IsSub(reg) =>
         /\ DOMAIN loc.merge \subseteq DOMAIN loc'.merge
         /\ \A field \in DOMAIN loc.merge :
              loc'.merge[field] = IF field \in Beside(reg) THEN regs'[field] ELSE loc.merge[field]
  BY <1>9, <1>11, <1>13, <1>14
<1> QED BY <1>8, <1>9, <1>15, <1>16

\* What a transfer writes: its fields, and the rest of its group.
LEMMA PutWrites ==
  ASSUME Types, op \in Ops \cup {None}, Where, HostStep, Doing("put"), op.name = "write"
  PROVE  \E reg \in CORE_REGISTER :
           /\ Head(todo) = Put(reg, Data(reg, op.bit))
           /\ core = "halted" =>
                /\ \A field \in FieldsOf(reg) : regs'[field] = op.bit
                /\ \A field \in Fields \ FieldsOf(reg) :
                     \/ regs'[field] = regs[field]
                     \/ reg \in CFBP_REGS /\ field \in FieldsOf("cfbp")
                     \/ reg \in XPSR_REGS /\ field \in FieldsOf("xpsr")
           /\ core # "halted" => ToSet(op.list) \subseteq excused'
<1>1. PICK reg \in CORE_REGISTER : Head(todo) = Put(reg, Data(reg, op.bit))
  BY PutsOfWrite
<1>2. core # "halted" => ToSet(op.list) \subseteq excused'
  <2>1. PutRegister
    BY Dispatch DEF Doing
  <2> QED BY <2>1 DEF PutRegister, Unhalted
<1>3. \/ Beside(reg) = {}
      \/ reg \in CFBP_REGS /\ Beside(reg) = FieldsOf("cfbp")
      \/ reg \in XPSR_REGS /\ Beside(reg) = FieldsOf("xpsr")
  BY DEF Beside, IsSub, WholeOf, IsCfbpSub, IsPsrSub, CFBP_REGS, XPSR_REGS
<1>4. core = "halted" =>
         /\ \A field \in FieldsOf(reg) : regs'[field] = op.bit
         /\ \A field \in Fields \ FieldsOf(reg) :
              regs'[field] = regs[field] \/ field \in Beside(reg)
  BY <1>1, PutIs
<1> QED BY <1>1, <1>2, <1>3, <1>4
\* A transfer gives the core a value the cache has already.
LEMMA CoherentPut ==
  ASSUME Types, op \in Ops \cup {None}, Where, Entered, Coherent, HostStep, Doing("put"),
         op.name = "write"
  PROVE  Coherent'
<1>1. PICK reg0 \in CORE_REGISTER :
           /\ Head(todo) = Put(reg0, Data(reg0, op.bit))
           /\ core = "halted" =>
                /\ \A field \in FieldsOf(reg0) : regs'[field] = op.bit
                /\ \A field \in Fields \ FieldsOf(reg0) :
                     \/ regs'[field] = regs[field]
                     \/ reg0 \in CFBP_REGS /\ field \in FieldsOf("cfbp")
                     \/ reg0 \in XPSR_REGS /\ field \in FieldsOf("xpsr")
           /\ core # "halted" => ToSet(op.list) \subseteq excused'
  BY PutWrites
<1>2. PICK first : first = Head(todo)
  OBVIOUS
<1>3. first[2] = reg0
  BY <1>1, <1>2 DEF Put
<1>4. /\ op' = op /\ core' = core /\ cache' = cache /\ excused \subseteq excused'
      /\ token' = token /\ ctoken' = ctoken
  BY HostKeeps, CacheKeeps DEF Doing
<1>5. Left = Left' \cup {first}
  BY <1>2, LeftHost DEF Doing
<1>6. Pending = Pending' \cup FieldsOf(reg0)
  BY <1>3, <1>5 DEF Pending
<1>7. ~SteppedOff /\ Kept' \subseteq Kept
  BY <1>4 DEF SteppedOff, Kept
<1>8. first \in Left
  BY <1>5
<1>9. /\ reg0 \in CFBP_REGS => DOMAIN cache \cap CFBP_REGS = {}
      /\ reg0 \in XPSR_REGS => DOMAIN cache \cap XPSR_REGS = {}
      /\ \A reg \in Kept \ ToSet(op.list) : FieldsOf(reg) \cap FieldsOf(reg0) = {}
  BY <1>3, <1>8 DEF Entered
<1>10. SUFFICES ASSUME ctoken = token, NEW reg \in Kept', NEW field \in FieldsOf(reg)
                PROVE  Right(reg, field)'
  BY <1>4 DEF Coherent
<1>11. Right(reg, field) /\ reg \in Kept /\ reg \in CORE_REGISTER
  BY <1>7, <1>10 DEF Coherent, Kept, Types, TypeOK
<1>12. CASE field \in Pending'
  BY <1>4, <1>6, <1>11, <1>12 DEF Right
<1>13. CASE field \notin Pending' /\ field \in FieldsOf(reg0)
  <2>1. cache[reg][field] = op.bit
    BY <1>6, <1>11, <1>13 DEF Right
  <2>2. core = "halted"
    BY <1>1, <1>9, <1>10, <1>11, <1>13 DEF Kept
  <2> QED BY <1>1, <1>4, <1>13, <2>1, <2>2 DEF Right
<1>14. CASE field \notin Pending' /\ field \notin FieldsOf(reg0)
  <2>1. core = "halted" /\ cache[reg][field] = regs[field]
    BY <1>6, <1>11, <1>14 DEF Right
  <2>2. field \in FieldsOf("cfbp") => reg \in CFBP_REGS
    BY <1>10, <1>11 DEF FieldsOf, CFBP_REGS, CORE_REGISTER, Fields
  <2>3. field \in FieldsOf("xpsr") => reg \in XPSR_REGS
    BY <1>10, <1>11 DEF FieldsOf, XPSR_REGS, CORE_REGISTER, Fields
  <2>4. reg \in DOMAIN cache /\ field \in Fields \ FieldsOf(reg0)
    BY <1>10, <1>11, <1>14, FieldsThere DEF Kept
  <2>5. regs'[field] = regs[field]
    BY <1>1, <1>9, <2>1, <2>2, <2>3, <2>4
  <2> QED BY <1>4, <1>14, <2>1, <2>5 DEF Right
<1> QED BY <1>12, <1>13, <1>14

\* A step of an operation keeps the cache coherent.
LEMMA CoherentHost ==
  ASSUME Types, Types', op \in Ops \cup {None}, Where, CacheInv, HostStep
  PROVE  Coherent'
<1>0. TokenBehind /\ Entered /\ Counted /\ Leaving /\ Coherent
  BY DEF CacheInv
<1>1. CASE op.name = "step"
  BY <1>0, <1>1, CoherentStep
<1>2. CASE op.name # "step" /\ (Doing("dhcsr") \/ Doing("release"))
  BY <1>0, <1>2, CoherentDhcsr
<1>3. CASE Doing("nreset") \/ Doing("thumb") \/ Doing("put")
  <2>1. op.name \in {"reset", "reset_and_halt"} \/ (op.name = "write" /\ Doing("put"))
    BY <1>3, Performs DEF Doing, Idle
  <2>2. CASE op.name \in {"reset", "reset_and_halt"}
    BY <1>0, <1>3, <2>2, CoherentReset
  <2>3. CASE op.name = "write" /\ Doing("put")
    BY <1>0, <2>3, CoherentPut
  <2> QED BY <2>1, <2>2, <2>3
<1>4. CASE op.name # "step" /\ Doing("check_cache")
  BY <1>0, <1>4, CoherentChecked
<1>5. CASE Doing("fill")
  BY <1>0, <1>5, CoherentFill
<1>6. CASE Doing("enter")
  BY <1>0, <1>6, CoherentEnter
<1>7. CASE /\ op.name # "step"
           /\ ~Doing("dhcsr") /\ ~Doing("release") /\ ~Doing("nreset") /\ ~Doing("thumb")
           /\ ~Doing("put") /\ ~Doing("check_cache") /\ ~Doing("fill") /\ ~Doing("enter")
  BY <1>0, <1>7, CoherentQuiet
<1> QED BY <1>1, <1>2, <1>3, <1>4, <1>5, <1>6, <1>7

\* A failing step excuses what the core may have changed, a failing write what it entered.
LEMMA CoherentFails ==
  ASSUME Types, op \in Ops \cup {None}, Where, Entered, Coherent, Fails
  PROVE  Coherent'
<1>1. /\ cache' = cache /\ ctoken' = ctoken /\ token' = token /\ op' = op
      /\ core' = core /\ regs' = regs /\ todo # << >>
      /\ excused \subseteq excused'
      /\ op.name = "step" => DOMAIN cache \subseteq excused'
      /\ op.name = "write" => ToSet(op.list) \subseteq excused'
      /\ todo' \in {<< >>, todo, Tail(todo)}
  BY CacheFails
<1>2. CASE op.name = "step"
  <2>1. Kept' = {}
    BY <1>1, <1>2 DEF Kept
  <2> QED BY <2>1 DEF Coherent
<1>3. CASE op.name = "write"
  <2>1. Left' \subseteq Left
    BY <1>1, LeftElse
  <2>2. Pending' \subseteq Pending /\ Kept' \subseteq Kept \ ToSet(op.list) /\ ~SteppedOff
    BY <1>1, <1>3, <2>1 DEF Pending, Kept, SteppedOff
  <2>3. SUFFICES ASSUME ctoken = token, NEW reg \in Kept', NEW field \in FieldsOf(reg)
                 PROVE  Right(reg, field)'
    BY <1>1 DEF Coherent
  <2>4. field \notin Pending
    BY <2>2, <2>3 DEF Entered, Pending
  <2>5. Right(reg, field)
    BY <2>2, <2>3 DEF Coherent
  <2> QED BY <1>1, <2>2, <2>4, <2>5 DEF Right
<1>4. CASE op.name \notin {"step", "write"}
  <2>1. Left' = Left /\ ~SteppedOff
    BY <1>1, <1>4 DEF Left, SteppedOff
  <2> QED BY <1>1, <2>1, CoherentKeeps
<1> QED BY <1>2, <1>3, <1>4

\* A core that is not halted may change as it likes; a halted one only by a reset that was
\* counted or that excuses the cache.
LEMMA CoherentHardware ==
  ASSUME Types, op \in Ops \cup {None}, Where, Asked, Counted, Coherent, Hardware
  PROVE  Coherent'
<1>1. /\ op' = op /\ todo' = todo /\ token' = token /\ ctoken' = ctoken /\ cache' = cache
      /\ past'.mask = past.mask
      /\ excused' = excused \/ excused' = DOMAIN cache
      /\ \/ core # "halted"
         \/ core' = core /\ regs' = regs
         \/ excused' = DOMAIN cache
         \/ todo # << >> /\ Head(todo) = <<"await_reset">>
  BY CacheHardware, HardwareKeeps DEF host
<1>2. Left' = Left
  BY <1>1 DEF Left
<1>3. SteppedOff => SteppedOff'
  BY <1>1 DEF SteppedOff, AwaitingStep, Masking
<1>4. CASE excused' = DOMAIN cache
  <2>1. Kept' = {}
    BY <1>1, <1>4 DEF Kept
  <2> QED BY <2>1 DEF Coherent
<1>5. CASE excused' = excused /\ core' = core /\ regs' = regs
  BY <1>1, <1>2, <1>3, <1>5, CoherentKeeps
<1>6. CASE excused' = excused /\ core # "halted"
  <2>1. Kept' = Kept /\ Pending' = Pending
    BY <1>1, <1>2, <1>6 DEF Kept, Pending
  <2> QED BY <1>1, <1>3, <1>6, <2>1 DEF Coherent, Right
<1>7. CASE todo # << >> /\ Head(todo) = <<"await_reset">>
  <2>1. op.name \in {"reset", "reset_and_halt"}
    BY <1>7, Performs
  <2>2. ctoken # token
    BY <1>7, <2>1, CountedLate
  <2> QED BY <1>1, <2>2 DEF Coherent
<1> QED BY <1>1, <1>4, <1>5, <1>6, <1>7

\* Between operations nothing is left to transfer, and no step is under way.
LEMMA CoherentBetween ==
  ASSUME Types, op \in Ops \cup {None}, Where, Coherent, menu \subseteq Ops,
         Return \/ \E o \in menu : Start(o)
  PROVE  Coherent'
<1>1. /\ todo = << >> /\ core' = core /\ regs' = regs /\ cache' = cache /\ excused' = excused
      /\ token' = token /\ ctoken' = ctoken
  BY DEF Return, Start, Where, Idle, hardware
<1>2. Left' = {}
  BY LeftNothing
<1>3. Left = {}
  <2>1. Range(<< >>) = {}
    BY DEF Range
  <2> QED BY <1>1, <2>1 DEF Left
<1>4. ~SteppedOff
  <2>1. ASSUME op.name = "step" PROVE todo \notin {AwaitingStep, Unmasking, Counting}
    <3>1. op \in Ops
      BY <2>1 DEF None
    <3>2. /\ IsList(Counting, <<"count">>, << >>)
          /\ IsList(AwaitingStep, <<"await_step">>, IF Masking THEN Unmasking ELSE Counting)
      BY <2>1, <3>1, StepLists
    <3>3. IsList(Unmasking, Halt, Counting)
      BY <3>2, Wraps DEF IsList, Unmasking
    <3> QED BY <1>1, <3>2, <3>3 DEF IsList
  <2> QED BY <2>1 DEF SteppedOff
<1>5. Kept' = Kept /\ Pending' = {} /\ Pending = {}
  BY <1>1, <1>2, <1>3 DEF Kept, Pending
<1> QED BY <1>1, <1>4, <1>5 DEF Coherent, Right
-----------------------------------------------------------------------------
(* The cache, in every step.                                               *)

\* At first there is nothing in the cache.
LEMMA InitCache == Init => CacheInv
<1>1. SUFFICES ASSUME Init PROVE CacheInv
  OBVIOUS
<1>2. op.name = "none" /\ todo = << >> /\ Kept = {} /\ ctoken = MaxToken + 1
  BY <1>1 DEF Init, None, Kept, EmptyCache
<1>3. Left = {} /\ ~SteppedOff
  BY <1>2 DEF Left, SteppedOff
<1> QED BY <1>2, <1>3 DEF CacheInv, TokenBehind, Entered, Counted, Leaving, Coherent

\* A posted write that fails leaves the cache as it was and its operation where another
\* part of it begins.
LEMMA CacheLost ==
  ASSUME Types, op \in Ops \cup {None}, Where, CacheInv, PostedLost
  PROVE  CacheInv'
<1>1. /\ op' = op /\ loc' = loc /\ token' = token /\ ctoken' = ctoken /\ cache' = cache
      /\ core' = core /\ regs' = regs /\ excused' = excused /\ past' = past
      /\ todo' = Tail(todo) /\ todo # << >> /\ Head(todo)[1] \in Posted
  BY LostKeeps DEF hardware
<1>2. /\ op \in Ops /\ op.name \in {"set_vector_catch", "disconnect", "reset_and_halt"}
      /\ Tail(todo) = << >> \/ Head(Tail(todo))[1] \in {"state", "reset"}
      /\ op.name = "reset_and_halt" =>
           \/ Tail(todo) = Reset1(op.type, Looking)
           \/ Tail(todo) = << >>
      /\ op.name = "disconnect" =>
           \/ Tail(todo) = << >>
           \/ Tail(todo) = Cons(GetState, Resume1(Releasing))
  BY <1>1, PostedAre
<1>3. Left = {} /\ Left' = {} /\ ~SteppedOff /\ ~SteppedOff'
  BY <1>1, <1>2 DEF Left, SteppedOff
<1>4. TokenBehind' /\ Entered'
  BY <1>1, <1>3 DEF CacheInv, TokenBehind, Entered
<1>5. op.name = "disconnect" /\ Tail(todo) # << >> => Head(Tail(todo))[1] = "state"
  <2>1. Resume1(Releasing) \in Seq(Steps)
    <3>1. Releasing \in Seq(Steps)
      BY LastLists DEF IsList
    <3> QED BY <3>1, WrapsBegin
  <2>2. Head(Cons(GetState, Resume1(Releasing)))[1] = "state"
    BY <2>1, WrapsBegin
  <2> QED BY <1>2, <2>2
<1>6. Counted'
  <2>1. Go[1] = "dhcsr"
    BY Firsts
  <2>2. op.name = "disconnect" /\ Tail(todo) # << >> => Head(Tail(todo)) # Go
    BY <1>5, <2>1
  <2>3. op.name = "reset_and_halt" => Uncounted(op.type)'
    BY <1>1, <1>2 DEF Uncounted
  <2> QED BY <1>1, <1>2, <2>2, <2>3 DEF Counted
<1>7. Leaving'
  BY <1>1, <1>5 DEF Leaving
<1>8. Coherent'
  <2>1. Coherent /\ Kept' = Kept /\ Pending' = Pending
    BY <1>1, <1>3 DEF CacheInv, Kept, Pending
  <2> QED BY <1>1, <1>3, <2>1 DEF Coherent, Right
<1> QED BY <1>4, <1>6, <1>7, <1>8 DEF CacheInv

\* Every step keeps the invariant of the cache.
LEMMA NextCache == IInv /\ IInv' /\ CacheInv /\ [Next]_vars => CacheInv'
<1> SUFFICES ASSUME IInv, IInv', CacheInv, [Next]_vars PROVE CacheInv'
  OBVIOUS
<1>1. /\ Types /\ Types' /\ Where /\ Asked /\ op \in Ops \cup {None} /\ menu \subseteq Ops
  BY CortexMAssumption DEF IInv, Types, TypeOK
<1>2. TokenBehind /\ Entered /\ Counted /\ Leaving /\ Coherent
  BY DEF CacheInv
<1>3. CASE HostStep
  <2>1. TokenBehind'
    BY <1>1, <1>2, <1>3, TokenHost2
  <2>2. Entered' /\ Counted' /\ Leaving'
    BY <1>1, <1>2, <1>3, EnteredHost, CountedHost, LeavingHost
  <2>3. Coherent'
    BY <1>1, <1>3, CoherentHost
  <2> QED BY <2>1, <2>2, <2>3 DEF CacheInv
<1>4. CASE Fails
  <2>1. token' = token /\ ctoken' = ctoken
    BY <1>1, <1>4, FailsKeep
  <2>2. TokenBehind'
    BY <1>2, <2>1 DEF TokenBehind
  <2>3. Entered' /\ Counted' /\ Leaving' /\ Coherent'
    BY <1>1, <1>2, <1>4, EnteredElse, CountedElse, LeavingElse, CoherentFails
  <2> QED BY <2>2, <2>3 DEF CacheInv
<1>5. CASE Hardware
  <2>1. token' = token /\ ctoken' = ctoken
    BY <1>1, <1>5, HardwareKeeps DEF host
  <2>2. TokenBehind'
    BY <1>2, <2>1 DEF TokenBehind
  <2>3. Entered' /\ Counted' /\ Leaving' /\ Coherent'
    BY <1>1, <1>2, <1>5, EnteredElse, CountedElse, LeavingElse, CoherentHardware
  <2> QED BY <2>2, <2>3 DEF CacheInv
<1>6. CASE Return \/ \E o \in menu : Start(o)
  <2>1. token' = token /\ ctoken' = ctoken
    BY <1>6 DEF Return, Start
  <2>2. TokenBehind'
    BY <1>2, <2>1 DEF TokenBehind
  <2>3. Left' = {}
    BY <1>1, <1>6, LeftNothing
  <2>4. Entered'
    BY <2>3 DEF Entered
  <2>5. Counted' /\ Leaving' /\ Coherent'
    BY <1>1, <1>2, <1>6, CountedBetween, LeavingBetween, CoherentBetween
  <2> QED BY <2>2, <2>4, <2>5 DEF CacheInv
<1>7. CASE UNCHANGED vars
  BY <1>2, <1>7 DEF vars, CacheInv, TokenBehind, Entered, Counted, Leaving, Coherent, Left,
                    Kept, Stale, SteppedOff, Uncounted, Right, Pending, AwaitingStep, Masking
<1>8. CASE PostedLost
  BY <1>1, <1>8, CacheLost
<1> QED BY <1>3, <1>4, <1>5, <1>6, <1>7, <1>8 DEF Next, Fails

\* What the cache holds is coherent in every state.
LEMMA CacheInvariance == Spec => []CacheInv
<1>1. Init => CacheInv
  BY InitCache
<1>2. IInv /\ IInv' /\ CacheInv /\ [Next]_vars => CacheInv'
  BY NextCache
<1> QED BY <1>1, <1>2, Invariance, PTL DEF Spec

\* RegisterCache: between operations, what the cache would still use of a halted core is what
\* the core has there, for every program of calls, every list of registers, and wherever an
\* access fails or the core is reset (_check_cache and the run token).
THEOREM CacheIsCoherent == Spec => []CacheCoherent
<1>1. IInv /\ CacheInv => CacheCoherent
  <2>1. SUFFICES ASSUME IInv, CacheInv, op = None, core = "halted", ctoken = token,
                        NEW reg \in DOMAIN cache \ excused
                 PROVE  cache[reg] = ValueOf(regs, reg)
    BY DEF CacheCoherent
  <2>2. op.name = "none"
    BY <2>1 DEF None
  <2>3. Pending = {} /\ ~SteppedOff /\ reg \in Kept
    BY <2>1, <2>2 DEF Pending, Left, SteppedOff, Kept
  <2>4. \A field \in FieldsOf(reg) : cache[reg][field] = regs[field]
    BY <2>1, <2>3 DEF CacheInv, Coherent, Right
  <2>5. /\ cache[reg] \in [FieldsOf(reg) -> 0..1] /\ FieldsOf(reg) \subseteq Fields
        /\ DOMAIN regs = Fields
    BY <2>1, FieldsThere DEF IInv, Types, TypeOK
  <2> QED BY <2>4, <2>5 DEF ValueOf, Restrict
<1> QED BY <1>1, Invariance, CacheInvariance, PTL
-----------------------------------------------------------------------------
(* The registers that a write has written.  One list of names defeats      *)
(* write_core_registers_raw: where a part of a group is transferred after  *)
(* the group's register, it is merged into the value from before.          *)

PartsFirst(list) ==
  \A i, j \in DOMAIN list :
    i < j /\ IsSub(list[j]) /\ ~Dropped(list, j) => list[i] # WholeOf(list[j])

\* The fields of the names that are not dropped.
Named(list) == UNION {FieldsOf(list[k]) : k \in {j \in DOMAIN list : ~Dropped(list, j)}}

PartsOrder ==
  {pair \in CORE_REGISTER \X CORE_REGISTER : IsSub(pair[2]) => pair[1] # WholeOf(pair[2])}

\* Steps of a write in an order that merges current values.
Follows(first, second) ==
  /\ second[1] = "read_first" => first[1] = "read_first"
  /\ first[1] = "put" /\ second[1] = "put" /\ IsSub(second[2]) => first[2] # WholeOf(second[2])

StepOrder(o) ==
  {pair \in TransferSteps(o) \X TransferSteps(o) : Follows(pair[1], pair[2])}

Moving == op.name = "write" /\ todo \in Seq(TransferSteps(op))
Smooth == ~past.raised /\ ~past.disturbed

Ordered == Moving => InRelation(todo, StepOrder(op))

\* The fields that were transferred have the bit, those that are not named their old value.
Arrived ==
  Moving /\ Smooth =>
    /\ core = "halted" /\ past.regs \in [Fields -> 0..1]
    /\ Pending \subseteq Named(op.list)
    /\ \A field \in Fields :
         IF field \in Named(op.list) THEN field \in Pending \/ regs[field] = op.bit
                                     ELSE regs[field] = past.regs[field]

\* A part is merged into the current value of its group, or that is still to be read.
MergeReady ==
  Moving /\ Smooth => \A step \in Left : IsSub(step[2]) =>
    \/ <<"read_first", WholeOf(step[2])>> \in Range(todo)
    \/ \A field \in FieldsOf(WholeOf(step[2])) :
         field \in DOMAIN loc.merge /\ loc.merge[field] = regs[field]

WriteInv == Ordered /\ Arrived /\ MergeReady

\* What is transferred are the fields of the names that are not dropped.
LEMMA TransfersNamed ==
  ASSUME NEW list \in Seq(CORE_REGISTER)
  PROVE  UNION {FieldsOf(reg) : reg \in Range(RegDataList(list))} = Named(list)
<1>1. DOMAIN list = 1..Len(list)
  BY LenProperties
<1>2. FieldsOf("d0") = {"s0", "s1"} /\ FieldsOf("s0") = {"s0"} /\ FieldsOf("s1") = {"s1"}
  BY DEF FieldsOf
<1>3. \A k \in 1..Len(list) : IsDouble(list[k]) => list[k] = "d0" /\ ~Dropped(list, k)
  BY DEF IsDouble, Dropped, IsCfbpSub, IsPsrSub
<1>4. \A k \in 1..Len(list) :
        UNION {FieldsOf(reg) : reg \in Range(Transfers(list, k))}
          = IF Dropped(list, k) THEN {} ELSE FieldsOf(list[k])
  <2> TAKE k \in 1..Len(list)
  <2>1. CASE IsDouble(list[k])
    <3>1. Range(Transfers(list, k)) = {"s0", "s1"}
      BY <2>1, TransfersOf
    <3> QED BY <1>2, <1>3, <2>1, <3>1
  <2>2. CASE ~IsDouble(list[k])
    <3>1. Range(Transfers(list, k)) = IF Dropped(list, k) THEN {} ELSE {list[k]}
      BY <2>2, TransfersOf
    <3> QED BY <3>1
  <2> QED BY <2>1, <2>2
<1>5. Range(RegDataList(list)) = UNION {Range(Transfers(list, k)) : k \in 1..Len(list)}
  BY TransfersOf
<1>6. ASSUME NEW field \in Named(list)
      PROVE  \E reg \in Range(RegDataList(list)) : field \in FieldsOf(reg)
  <2>1. PICK k \in 1..Len(list) : ~Dropped(list, k) /\ field \in FieldsOf(list[k])
    BY <1>1 DEF Named
  <2> QED BY <1>4, <1>5, <2>1
<1>7. ASSUME NEW reg \in Range(RegDataList(list)), NEW field \in FieldsOf(reg)
      PROVE  field \in Named(list)
  <2>1. PICK k \in 1..Len(list) : reg \in Range(Transfers(list, k))
    BY <1>5
  <2>2. ~Dropped(list, k) /\ field \in FieldsOf(list[k])
    BY <1>4, <2>1
  <2> QED BY <1>1, <2>2 DEF Named
<1> QED BY <1>6, <1>7

\* They are transferred in the order of the names.
LEMMA TransfersOrdered ==
  ASSUME NEW list \in Seq(CORE_REGISTER), PartsFirst(list)
  PROVE  InRelation(RegDataList(list), PartsOrder)
<1>1. PICK pieces \in Seq(Seq(CORE_REGISTER)) :
           /\ RegDataList(list) = FlattenSeq(pieces) /\ Len(pieces) = Len(list)
           /\ \A k \in 1..Len(list) :
                /\ pieces[k] = IF IsDouble(list[k]) THEN <<"s0", "s1">>
                               ELSE IF Dropped(list, k) THEN << >> ELSE <<list[k]>>
                /\ Range(pieces[k]) = IF IsDouble(list[k]) THEN {"s0", "s1"}
                                      ELSE IF Dropped(list, k) THEN {} ELSE {list[k]}
  BY PiecesAre
<1>2. DOMAIN list = 1..Len(list) /\ Len(list) \in Nat /\ \A k \in 1..Len(list) : list[k] \in CORE_REGISTER
  BY LenProperties
<1>3. /\ ~IsSub("s0") /\ ~IsSub("s1") /\ "s0" \in CORE_REGISTER /\ "s1" \in CORE_REGISTER
      /\ \A reg : WholeOf(reg) \in {"cfbp", "xpsr"}
  BY DEF IsSub, IsCfbpSub, IsPsrSub, CORE_REGISTER, Fields, WholeOf
<1>4. \A x, y \in CORE_REGISTER : <<x, y>> \in PartsOrder <=> (IsSub(y) => x # WholeOf(y))
  BY DEF PartsOrder
<1>5. CASE pieces = << >>
  <2>1. FlattenSeq(pieces) = << >> /\ DOMAIN << >> = {}
    BY <1>5, EmptySeq DEF FlattenSeq
  <2> QED BY <1>1, <2>1 DEF InRelation
<1>6. ASSUME NEW k \in 1..Len(list) PROVE InRelation(pieces[k], PartsOrder)
  <2>1. PICK two : two = <<"s0", "s1">>
    OBVIOUS
  <2>2. InRelation(two, PartsOrder)
    <3>1. DOMAIN two = {1, 2} /\ two[1] = "s0" /\ two[2] = "s1"
      BY <2>1
    <3>2. <<"s0", "s1">> \in PartsOrder
      BY <1>3, <1>4
    <3>3. \A i, j \in {1, 2} : i < j => i = 1 /\ j = 2
      OBVIOUS
    <3>4. \A i, j \in DOMAIN two : i < j => <<two[i], two[j]>> \in PartsOrder
      BY <3>1, <3>2, <3>3
    <3> QED BY <3>4 DEF InRelation
  <2>3. InRelation(<< >>, PartsOrder)
    <3>1. DOMAIN << >> = {}
      OBVIOUS
    <3> QED BY <3>1 DEF InRelation
  <2>4. ASSUME NEW x PROVE InRelation(<<x>>, PartsOrder)
    <3>1. DOMAIN <<x>> = {1} /\ \A i, j \in {1} : ~(i < j)
      OBVIOUS
    <3> QED BY <3>1 DEF InRelation
  <2> QED BY <1>1, <2>1, <2>2, <2>3, <2>4
<1>7. ASSUME NEW i \in 1..Len(list), NEW j \in 1..Len(list), i < j,
             NEW x \in Range(pieces[i]), NEW y \in Range(pieces[j])
      PROVE  <<x, y>> \in PartsOrder
  <2>1. x \in {list[i], "s0", "s1"} /\ y \in {list[j], "s0", "s1"}
    BY <1>1, <1>7
  <2>2. CASE IsSub(y)
    <3>1. y = list[j] /\ ~Dropped(list, j)
      BY <1>1, <1>3, <1>7, <2>1, <2>2
    <3>2. list[i] # WholeOf(y)
      BY <1>2, <1>7, <2>2, <3>1 DEF PartsFirst
    <3> QED BY <1>2, <1>3, <1>4, <2>1, <3>1, <3>2
  <2> QED BY <1>2, <1>3, <1>4, <2>1, <2>2
<1>8. CASE pieces # << >>
  <2>1. InRelation(FlattenSeq(pieces), PartsOrder)
    BY <1>1, <1>6, <1>7, <1>8, FlattenRelated
  <2> QED BY <1>1, <2>1
<1> QED BY <1>5, <1>8
-----------------------------------------------------------------------------
(* The steps of a write, in their order.                                   *)

\* Pairs of steps in the order of a write.
LEMMA OrderIs ==
  ASSUME NEW o, NEW x \in TransferSteps(o), NEW y \in TransferSteps(o)
  PROVE  <<x, y>> \in StepOrder(o) <=> Follows(x, y)
<1>1. PICK S : S = TransferSteps(o)
  OBVIOUS
<1>2. \A u, v \in S : <<u, v>> \in {pair \in S \X S : Follows(pair[1], pair[2])} <=> Follows(u, v)
  <2> TAKE u, v \in S
  <2>1. PICK pair : pair = <<u, v>>
    OBVIOUS
  <2>2. pair[1] = u /\ pair[2] = v /\ pair \in S \X S
    BY <2>1
  <2> QED BY <2>1, <2>2
<1> QED BY <1>1, <1>2, Zenon DEF StepOrder

\* Everything that is read first is read before, and the registers follow in their order.
LEMMA StepsOrdered ==
  ASSUME NEW o, o.bit \in 0..1, o.list \in Seq(CORE_REGISTER), PartsFirst(o.list)
  PROVE  InRelation(ReadSteps(o) \o PutSteps(o), StepOrder(o))
<1>1. PICK S : S = TransferSteps(o)
  OBVIOUS
<1>2. PICK R : R = StepOrder(o)
  OBVIOUS
<1>3. \A x, y \in S : Follows(x, y) => <<x, y>> \in R
  BY <1>1, <1>2, OrderIs
<1>4. PICK reads \in Seq(S) : reads = ReadSteps(o)
  BY <1>1, Transferring
<1>5. PICK puts \in Seq(S) : puts = PutSteps(o)
  BY <1>1, Transferring
<1>6. /\ \A i \in DOMAIN reads : reads[i] \in S
      /\ \A i \in DOMAIN puts : puts[i] \in S
  BY LenProperties
<1>7. \A x \in Range(reads) : x \in S /\ x[1] = "read_first"
  <2>1. \A i \in DOMAIN reads : reads[i][1] = "read_first"
    BY <1>4 DEF ReadSteps
  <2> QED BY <1>6, <2>1 DEF Range
<1>8. PICK list \in Seq(CORE_REGISTER) : list = RegDataList(o.list)
  BY RegDataType
<1>9. /\ DOMAIN puts = DOMAIN list
      /\ \A i \in DOMAIN puts : puts[i][1] = "put" /\ puts[i][2] = list[i]
  BY <1>5, <1>8 DEF PutSteps, Put
<1>10. InRelation(reads, R)
  <2>1. \A i \in DOMAIN reads : reads[i][1] = "read_first"
    BY <1>7 DEF Range
  <2>2. \A i, j \in DOMAIN reads : Follows(reads[i], reads[j])
    BY <2>1 DEF Follows
  <2> QED BY <1>3, <1>6, <2>2 DEF InRelation
<1>11. InRelation(puts, R)
  <2>1. ASSUME NEW i \in DOMAIN puts, NEW j \in DOMAIN puts, i < j
        PROVE  <<puts[i], puts[j]>> \in R
    <3>1. <<list[i], list[j]>> \in PartsOrder
      BY <1>8, <1>9, <2>1, TransfersOrdered DEF InRelation
    <3>2. list[i] \in CORE_REGISTER /\ list[j] \in CORE_REGISTER
      BY <1>9, LenProperties
    <3>3. IsSub(list[j]) => list[i] # WholeOf(list[j])
      BY <3>1, <3>2 DEF PartsOrder
    <3>4. Follows(puts[i], puts[j])
      BY <1>9, <3>3 DEF Follows
    <3> QED BY <1>3, <1>6, <3>4
  <2> QED BY <2>1 DEF InRelation
<1>12. \A x \in Range(reads), y \in Range(puts) : <<x, y>> \in R
  <2>1. \A y \in Range(puts) : y \in S /\ y[1] = "put"
    BY <1>6, <1>9 DEF Range
  <2>2. \A x \in Range(reads), y \in Range(puts) : Follows(x, y)
    BY <1>7, <2>1 DEF Follows
  <2> QED BY <1>3, <1>7, <2>1, <2>2
<1>13. InRelation(reads \o puts, R)
  BY <1>10, <1>11, <1>12, ConcatRelated
<1> QED BY <1>2, <1>4, <1>5, <1>13

\* The group of a part that is transferred is read first.
LEMMA GroupsRead ==
  ASSUME NEW o, o.bit \in 0..1, o.list \in Seq(CORE_REGISTER),
         NEW reg \in Range(RegDataList(o.list)), IsSub(reg)
  PROVE  <<"read_first", WholeOf(reg)>> \in Range(ReadSteps(o) \o PutSteps(o))
<1>1. PICK k \in 1..Len(o.list) : reg \in Range(Transfers(o.list, k))
  BY TransfersOf
<1>2. k \in DOMAIN o.list /\ reg = o.list[k]
  <2>1. reg \in {"s0", "s1"} \/ reg = o.list[k]
    BY <1>1, TransfersOf
  <2>2. reg # "s0" /\ reg # "s1"
    BY DEF IsSub, IsCfbpSub, IsPsrSub
  <2> QED BY <2>1, <2>2, LenProperties
<1>3. PICK first : first = ReadFirst(o.list)
  OBVIOUS
<1> DEFINE A == IF \E i \in DOMAIN o.list : IsCfbpSub(o.list[i]) THEN <<"cfbp">> ELSE << >>
           B == IF \E i \in DOMAIN o.list : IsPsrSub(o.list[i]) THEN <<"xpsr">> ELSE << >>
<1>4. PICK one : one = A
  OBVIOUS
<1>5. PICK two : two = B
  OBVIOUS
<1>6. first = one \o two /\ one \in Seq({"cfbp", "xpsr"}) /\ two \in Seq({"cfbp", "xpsr"})
  <2>1. first = one \o two
    <3>1. ReadFirst(o.list) = A \o B
      BY Zenon DEF ReadFirst
    <3> HIDE DEF A, B
    <3> QED BY <1>3, <1>4, <1>5, <3>1
  <2>2. << >> \in Seq({"cfbp", "xpsr"}) /\ <<"cfbp">> \in Seq({"cfbp", "xpsr"}) /\ <<"xpsr">> \in Seq({"cfbp", "xpsr"})
    OBVIOUS
  <2>3. one \in {<< >>, <<"cfbp">>} /\ two \in {<< >>, <<"xpsr">>}
    BY <1>4, <1>5, Zenon
  <2> QED BY <2>1, <2>2, <2>3, Zenon
<1>7. Range(first) = Range(one) \cup Range(two)
  BY <1>6, RangeOfConcat
<1>8. WholeOf(reg) \in Range(first)
  <2>1. CASE IsCfbpSub(reg)
    <3>1. PICK x : x = <<"cfbp">>
      OBVIOUS
    <3>2. one = x
      BY <1>2, <1>4, <2>1, <3>1
    <3>3. DOMAIN x = {1} /\ x[1] = "cfbp"
      BY <3>1
    <3> QED BY <1>7, <2>1, <3>2, <3>3 DEF WholeOf, Range
  <2>2. CASE ~IsCfbpSub(reg)
    <3>1. PICK x : x = <<"xpsr">>
      OBVIOUS
    <3>2. two = x
      BY <1>2, <1>5, <2>2, <3>1 DEF IsSub
    <3>3. DOMAIN x = {1} /\ x[1] = "xpsr"
      BY <3>1
    <3> QED BY <1>7, <2>2, <3>2, <3>3 DEF WholeOf, Range
  <2> QED BY <2>1, <2>2
<1>9. <<"read_first", WholeOf(reg)>> \in Range(ReadSteps(o))
  BY <1>3, <1>8 DEF ReadSteps, Range
<1>10. Range(ReadSteps(o) \o PutSteps(o)) = Range(ReadSteps(o)) \cup Range(PutSteps(o))
  BY Transferring, RangeOfConcat
<1> QED BY <1>9, <1>10

\* What enters the values leaves to do.
LEMMA EnterSteps ==
  ASSUME Types, op \in Ops \cup {None}, Where, HostStep, Doing("enter")
  PROVE  /\ todo' = ReadSteps(op) \o PutSteps(op) /\ op' = op
         /\ past'.regs = regs /\ past'.raised = past.raised
         /\ past'.disturbed <=> past.disturbed \/ core # "halted"
<1>1. todo # << >> /\ Head(todo)[1] = "enter"
  BY DEF Doing, Idle
<1>2. Enter
  BY <1>1, Dispatch
<1>3. todo' = ReadSteps(op) \o PutSteps(op)
  BY <1>2, Zenon DEF Enter, ReadSteps, PutSteps
<1>4. past' = [past EXCEPT !.regs = regs, !.disturbed = @ \/ core # "halted"]
  BY <1>2 DEF Enter
<1>5. /\ past'.regs = regs /\ past'.raised = past.raised
      /\ past'.disturbed <=> past.disturbed \/ core # "halted"
  <2>1. past \in Pasts
    BY DEF Types
  <2> QED BY <1>4, <2>1 DEF Pasts
<1> QED BY <1>3, <1>5, HostKeeps

\* The steps of a write after its values were entered.
LEMMA WriteMoves ==
  ASSUME Types, op \in Ops \cup {None}, Where, HostStep, Moving', ~Doing("enter")
  PROVE  /\ Moving /\ op \in Ops /\ op' = op /\ todo # << >> /\ todo' = Tail(todo)
         /\ Doing("read_first") \/ Doing("put")
<1>1. op' = op /\ op.name = "write" /\ todo # << >> /\ todo \in Seq(Steps)
  BY HostKeeps, Dispatch DEF Moving, Types
<1>2. op \in Ops /\ op.bit \in 0..1
  BY <1>1, Kinds, OpsAre
<1>3. todo' \in Seq(TransferSteps(op)) /\ \A s \in TransferSteps(op) : s[1] \in {"read_first", "put"}
  BY <1>1, <1>2, TransferStepsAre DEF Moving, TransferSteps
<1>4. PICK first : first = Head(todo)
  OBVIOUS
<1>5. PICK rest \in Seq(Steps) : rest = Tail(todo)
  <2>1. Tail(todo) \in Seq(Steps)
    BY <1>1
  <2> QED BY <2>1
<1>6. IsList(todo, first, rest)
  BY <1>1, <1>4, <1>5 DEF IsList
<1>7. CASE todo \in Seq(TransferSteps(op))
  <2>1. first[1] \in {"read_first", "put"}
    BY <1>1, <1>3, <1>4, <1>7
  <2>2. todo' = rest
    BY <1>6, <2>1, Advance
  <2> QED BY <1>1, <1>2, <1>4, <1>5, <1>7, <2>1, <2>2 DEF Moving, Doing, Idle
<1>8. CASE todo \notin Seq(TransferSteps(op))
  <2>1. /\ IsList(Enter1, <<"enter">>, << >>) /\ IsList(Checked(Enter1), <<"check_cache">>, Enter1)
        /\ IsList(Cons(GetState, Checked(Enter1)), GetState, Checked(Enter1))
        /\ IsList(Cons(<<"state_again">>, Checked(Enter1)), <<"state_again">>, Checked(Enter1))
    <3>1. Enter1 \in Seq(Steps) /\ IsList(Enter1, <<"enter">>, << >>)
      BY LastLists DEF IsList
    <3>2. Checked(Enter1) \in Seq(Steps) /\ IsList(Checked(Enter1), <<"check_cache">>, Enter1)
      BY <3>1, Wraps, WrapsBegin
    <3> QED BY <3>1, <3>2, Wraps
  <2>2. todo' \in {Cons(<<"state_again">>, Checked(Enter1)), Checked(Enter1), Enter1}
    <3>1. first[1] # "enter"
      BY <1>1, <1>4 DEF Doing, Idle
    <3>2. todo \in {Cons(GetState, Checked(Enter1)), Cons(<<"state_again">>, Checked(Enter1)),
                    Checked(Enter1), Enter1}
      BY <1>1, <1>8 DEF Where, WriteOp
    <3>3. CASE todo = Cons(GetState, Checked(Enter1))
      <4>1. first = GetState /\ rest = Checked(Enter1)
        BY <1>4, <1>5, <2>1, <3>3 DEF IsList
      <4>2. first[1] = "state"
        BY <4>1 DEF GetState
      <4> QED BY <1>6, <4>1, <4>2, Advance
    <3>4. CASE todo = Cons(<<"state_again">>, Checked(Enter1))
      <4>1. PICK s : s = <<"state_again">>
        OBVIOUS
      <4>2. first = s /\ rest = Checked(Enter1) /\ first[1] = "state_again"
        BY <1>4, <1>5, <2>1, <3>4, <4>1 DEF IsList
      <4> QED BY <1>6, <4>2, Advance
    <3>5. CASE todo = Checked(Enter1)
      <4>1. PICK s : s = <<"check_cache">>
        OBVIOUS
      <4>2. first = s /\ rest = Enter1 /\ first[1] = "check_cache"
        BY <1>4, <1>5, <2>1, <3>5, <4>1 DEF IsList
      <4> QED BY <1>6, <4>2, Advance
    <3>6. CASE todo = Enter1
      <4>1. PICK s : s = <<"enter">>
        OBVIOUS
      <4>2. first[1] = "enter"
        BY <1>4, <2>1, <3>6, <4>1 DEF IsList
      <4> QED BY <3>1, <4>2
    <3> QED BY <3>2, <3>3, <3>4, <3>5, <3>6
  <2>3. todo' # << >> /\ Head(todo')[1] \in {"state_again", "check_cache", "enter"}
    <3>1. PICK a : a = <<"state_again">>
      OBVIOUS
    <3>2. PICK b : b = <<"check_cache">>
      OBVIOUS
    <3>3. PICK c : c = <<"enter">>
      OBVIOUS
    <3>4. a[1] = "state_again" /\ b[1] = "check_cache" /\ c[1] = "enter"
      BY <3>1, <3>2, <3>3
    <3> QED BY <2>1, <2>2, <3>1, <3>2, <3>3, <3>4 DEF IsList
  <2>4. Head(todo') \in TransferSteps(op)
    BY <1>3, <2>3
  <2> QED BY <1>3, <2>3, <2>4
<1> QED BY <1>7, <1>8
-----------------------------------------------------------------------------
(* What a write has written, step by step.                                 *)

\* An operation that is no write in transfer has nothing to keep.
LEMMA NotMoving == ~Moving => WriteInv
BY DEF WriteInv, Ordered, Arrived, MergeReady

\* Nor has one that raised and does nothing more.
LEMMA GivenUp == todo = << >> /\ past.raised => WriteInv
<1>1. DOMAIN << >> = {}
  OBVIOUS
<1> QED BY <1>1 DEF WriteInv, Ordered, Arrived, MergeReady, Smooth, InRelation

\* When the values are entered, everything is still to be transferred, in the right order.
LEMMA WrittenEnter ==
  ASSUME Types, op \in Ops \cup {None}, Where, HostStep, Doing("enter"), PartsFirst(op.list)
  PROVE  WriteInv'
<1>1. PICK o : o = op
  OBVIOUS
<1>2. PICK parts : parts = Range(RegDataList(o.list))
  OBVIOUS
<1>3. /\ o.bit \in 0..1 /\ o.list \in Seq(CORE_REGISTER) /\ op' = o
      /\ Left' = {Put(reg, Data(reg, o.bit)) : reg \in parts}
      /\ regs' = regs /\ core' = core
  BY <1>1, <1>2, EnterIs
<1>4. /\ todo' = ReadSteps(o) \o PutSteps(o)
      /\ past'.regs = regs /\ past'.raised = past.raised
      /\ past'.disturbed <=> past.disturbed \/ core # "halted"
  BY <1>1, EnterSteps
<1>5. regs \in [Fields -> 0..1]
  BY DEF Types, TypeOK
<1>6. \A reg : Put(reg, Data(reg, o.bit))[2] = reg
  BY DEF Put
<1>7. Pending' = Named(o.list)
  <2>1. /\ \A reg \in parts : \E step \in Left' : step[2] = reg
        /\ \A step \in Left' : \E reg \in parts : step[2] = reg
    BY <1>3, <1>6
  <2>2. Pending' = UNION {FieldsOf(reg) : reg \in parts}
    BY <2>1 DEF Pending
  <2> QED BY <1>2, <1>3, <2>2, TransfersNamed
<1>8. Ordered'
  <2>1. InRelation(ReadSteps(o) \o PutSteps(o), StepOrder(o))
    BY <1>1, <1>3, StepsOrdered
  <2> QED BY <1>3, <1>4, <2>1 DEF Ordered
<1>9. Arrived'
  BY <1>3, <1>4, <1>5, <1>7 DEF Arrived, Smooth
<1>10. MergeReady'
  <2>1. ASSUME NEW step \in Left', IsSub(step[2])
        PROVE  <<"read_first", WholeOf(step[2])>> \in Range(todo')
    <3>1. step[2] \in parts
      BY <1>3, <1>6
    <3> QED BY <1>2, <1>3, <1>4, <2>1, <3>1, GroupsRead
  <2> QED BY <2>1 DEF MergeReady
<1> QED BY <1>8, <1>9, <1>10 DEF WriteInv

\* What is left of an order is in order, and a group is not read once transfers are made.
LEMMA OrderLeft ==
  ASSUME op.name = "write", todo \in Seq(TransferSteps(op)), todo # << >>, Ordered
  PROVE  /\ Tail(todo) \in Seq(TransferSteps(op))
         /\ InRelation(Tail(todo), StepOrder(op))
         /\ \A step \in Range(Tail(todo)) : Follows(Head(todo), step)
         /\ Range(todo) = {Head(todo)} \cup Range(Tail(todo))
<1>1. PICK S : S = TransferSteps(op)
  OBVIOUS
<1>2. PICK R : R = StepOrder(op)
  OBVIOUS
<1>3. /\ todo \in Seq(S) /\ Head(todo) \in S /\ Tail(todo) \in Seq(S)
      /\ \A step \in Range(Tail(todo)) : step \in S
  <2>1. todo \in Seq(S) /\ Head(todo) \in S /\ Tail(todo) \in Seq(S)
    BY <1>1
  <2> QED BY <2>1, RangeWithin
<1>4. InRelation(todo, R)
  BY <1>2 DEF Ordered, Moving
<1>5. InRelation(Tail(todo), R) /\ \A y \in Range(Tail(todo)) : <<Head(todo), y>> \in R
  BY <1>3, <1>4, TailRelated
<1>6. \A step \in Range(Tail(todo)) : Follows(Head(todo), step)
  BY <1>1, <1>2, <1>3, <1>5, OrderIs
<1> QED BY <1>1, <1>2, <1>3, <1>5, <1>6, RangeOfHeadAndTail

\* The group that is read first is what its parts are merged into.
LEMMA WrittenRead ==
  ASSUME Types, op \in Ops \cup {None}, Where, WriteInv, HostStep, Moving',
         Moving, op' = op, todo # << >>, todo' = Tail(todo), Doing("read_first")
  PROVE  WriteInv'
<1>1. PICK first : first = Head(todo)
  OBVIOUS
<1>2. first[1] = "read_first" /\ ReadFirstRegister
  BY <1>1, Dispatch DEF Doing
<1>3. PICK whole : whole = first[2]
  OBVIOUS
<1>4. first \in TransferSteps(op) /\ todo \in Seq(TransferSteps(op)) /\ op.name = "write"
  BY <1>1 DEF Moving
<1>5. whole \in {"cfbp", "xpsr"} /\ first = <<"read_first", whole>>
  BY <1>2, <1>3, <1>4 DEF TransferSteps, Put
<1>6. /\ regs' = regs /\ core' = core /\ Left' = Left
      /\ loc'.merge = Merged(loc.merge, ValueOf(regs, whole))
  <2>1. regs' = regs /\ core' = core
    BY <1>2 DEF ReadFirstRegister, hardware
  <2>2. Left' = Left
    BY <1>1, <1>2, LeftHost DEF Doing
  <2>3. loc'.merge = Merged(loc.merge, ValueOf(regs, whole))
    BY <1>1, <1>2, <1>3 DEF ReadFirstRegister, Arg, Types, Locals
  <2> QED BY <2>1, <2>2, <2>3
<1>7. past'.disturbed \/ past' = past
  <2>1. past' = past \/ past' = [past EXCEPT !.disturbed = TRUE]
    BY <1>2 DEF ReadFirstRegister, Unhalted, history
  <2> QED BY <2>1 DEF Types, Pasts
<1>8. /\ InRelation(Tail(todo), StepOrder(op))
      /\ Range(todo) = {first} \cup Range(todo')
  BY <1>1, <1>4, OrderLeft DEF WriteInv
<1>9. Ordered'
  BY <1>8 DEF Ordered
<1>10. Arrived'
  BY <1>6, <1>7 DEF WriteInv, Arrived, Smooth, Pending
<1>11. /\ DOMAIN loc'.merge = DOMAIN loc.merge \cup FieldsOf(whole)
       /\ \A field \in DOMAIN loc'.merge :
            loc'.merge[field] = IF field \in FieldsOf(whole) THEN regs[field] ELSE loc.merge[field]
  <2>1. whole \in CORE_REGISTER
    BY <1>5 DEF CORE_REGISTER
  <2>2. FieldsOf(whole) \subseteq DOMAIN regs
    BY <2>1, FieldsThere DEF Types, TypeOK
  <2>3. PICK value : value = ValueOf(regs, whole)
    OBVIOUS
  <2>4. /\ DOMAIN value = FieldsOf(whole)
        /\ \A field \in FieldsOf(whole) : value[field] = regs[field]
    BY <2>2, <2>3 DEF ValueOf, Restrict
  <2> QED BY <1>6, <2>3, <2>4 DEF Merged
<1>12. MergeReady'
  <2>1. SUFFICES ASSUME Smooth', NEW step \in Left', IsSub(step[2]),
                        <<"read_first", WholeOf(step[2])>> \notin Range(todo'),
                        NEW field \in FieldsOf(WholeOf(step[2]))
                 PROVE  field \in DOMAIN loc'.merge /\ loc'.merge[field] = regs'[field]
    BY DEF MergeReady
  <2>2. Smooth /\ step \in Left
    BY <1>6, <1>7, <2>1 DEF Smooth
  <2>3. CASE <<"read_first", WholeOf(step[2])>> \in Range(todo)
    <3>1. first = <<"read_first", WholeOf(step[2])>>
      BY <1>8, <2>1, <2>3
    <3>2. whole = WholeOf(step[2])
      BY <1>3, <3>1
    <3> QED BY <1>6, <1>11, <2>1, <3>2
  <2>4. CASE <<"read_first", WholeOf(step[2])>> \notin Range(todo)
    <3>1. field \in DOMAIN loc.merge /\ loc.merge[field] = regs[field]
      BY <2>1, <2>2, <2>4 DEF WriteInv, MergeReady
    <3> QED BY <1>6, <1>11, <3>1
  <2> QED BY <2>3, <2>4
<1> QED BY <1>9, <1>10, <1>12 DEF WriteInv

\* A transfer gives its fields the bit and leaves every other field.
LEMMA WrittenPut ==
  ASSUME Types, op \in Ops \cup {None}, Where, WriteInv, HostStep, Moving',
         Moving, op' = op, todo # << >>, todo' = Tail(todo), Doing("put")
  PROVE  WriteInv'
<1>1. PICK first : first = Head(todo)
  OBVIOUS
<1>2. op.name = "write" /\ todo \in Seq(TransferSteps(op)) /\ first[1] = "put"
  BY <1>1 DEF Moving, Doing
<1>3. PICK reg \in CORE_REGISTER : Head(todo) = Put(reg, Data(reg, op.bit))
  BY <1>2, PutsOfWrite
<1>4. first[2] = reg
  BY <1>1, <1>3 DEF Put
<1>5. core' = core /\ Left = Left' \cup {first} /\ first \in Range(todo)
  <2>1. core' = core
    BY HostKeeps DEF Doing
  <2>2. Left = Left' \cup {first}
    BY <1>1, <1>2, LeftHost DEF Doing
  <2> QED BY <2>1, <2>2 DEF Left
<1>6. Pending = Pending' \cup FieldsOf(reg)
  BY <1>4, <1>5 DEF Pending
<1>7. /\ InRelation(Tail(todo), StepOrder(op))
      /\ \A step \in Range(todo') : Follows(first, step)
      /\ Range(todo) = {first} \cup Range(todo')
  BY <1>1, <1>2, OrderLeft DEF WriteInv
<1>8. Ordered'
  BY <1>7 DEF Ordered
<1>9. \A group : <<"read_first", group>> \notin Range(todo)
  <2>1. ASSUME NEW group PROVE <<"read_first", group>> \notin Range(todo)
    <3>1. PICK step : step = <<"read_first", group>>
      OBVIOUS
    <3>2. step[1] = "read_first"
      BY <3>1
    <3> QED BY <1>2, <1>7, <3>1, <3>2 DEF Follows
  <2> QED BY <2>1
<1>10. PutRegister
  BY Dispatch DEF Doing
<1>11. core # "halted" => past'.disturbed
  BY <1>10 DEF PutRegister, Unhalted, Types, Pasts
<1>12. CASE ~Smooth'
  BY <1>8, <1>12 DEF WriteInv, Arrived, MergeReady
<1>13. CASE Smooth'
  <2>1. core = "halted"
    BY <1>11, <1>13 DEF Smooth
  <2>2. /\ \A field \in FieldsOf(reg) : regs'[field] = op.bit
        /\ \A field \in Fields \ FieldsOf(reg) :
             regs'[field] = IF field \in Beside(reg) /\ field \in DOMAIN loc.merge
                              THEN loc.merge[field] ELSE regs[field]
        /\ ~IsSub(reg) => loc' = loc
        /\ IsSub(reg) =>
             /\ DOMAIN loc.merge \subseteq DOMAIN loc'.merge
             /\ \A field \in DOMAIN loc.merge :
                  loc'.merge[field] = IF field \in Beside(reg) THEN regs'[field]
                                                              ELSE loc.merge[field]
        /\ past' = past
    BY <1>2, <1>3, <2>1, PutIs
  <2>3. Smooth
    BY <1>13, <2>2 DEF Smooth
  <2>4. \A step \in Left : IsSub(step[2]) =>
          \A field \in FieldsOf(WholeOf(step[2])) :
            field \in DOMAIN loc.merge /\ loc.merge[field] = regs[field]
    BY <1>9, <2>3 DEF WriteInv, MergeReady
  <2>5. \A field \in Beside(reg) : field \in DOMAIN loc.merge /\ loc.merge[field] = regs[field]
    <3>1. first \in Left
      BY <1>5
    <3>2. IsSub(reg) => \A field \in FieldsOf(WholeOf(reg)) :
                           field \in DOMAIN loc.merge /\ loc.merge[field] = regs[field]
      BY <1>4, <2>4, <3>1
    <3> QED BY <3>2 DEF Beside
  <2>6. \A field \in Fields \ FieldsOf(reg) : regs'[field] = regs[field]
    BY <2>2, <2>5
  <2>7. Arrived'
    BY <1>2, <1>5, <1>6, <2>1, <2>2, <2>3, <2>6 DEF WriteInv, Arrived, Moving
  <2>8. ASSUME NEW step \in Left', IsSub(step[2]), NEW field \in FieldsOf(WholeOf(step[2]))
        PROVE  field \in DOMAIN loc'.merge /\ loc'.merge[field] = regs'[field]
    <3>1. field \in DOMAIN loc.merge /\ loc.merge[field] = regs[field] /\ step \in Left
      BY <1>5, <2>4, <2>8
    <3>2. field \in Fields
      <4>1. WholeOf(step[2]) \in CORE_REGISTER
        BY DEF WholeOf, CORE_REGISTER
      <4> QED BY <2>8, <4>1, FieldsThere
    <3>3. CASE IsSub(reg) /\ field \in Beside(reg)
      BY <2>2, <3>1, <3>3
    <3>4. CASE IsSub(reg) /\ field \notin Beside(reg)
      <4>1. FieldsOf(reg) \subseteq Beside(reg)
        BY <3>4 DEF Beside, IsSub, WholeOf, FieldsOf, IsCfbpSub, IsPsrSub
      <4>2. regs'[field] = regs[field]
        BY <2>6, <3>2, <3>4, <4>1
      <4> QED BY <2>2, <3>1, <3>4, <4>2
    <3>5. CASE ~IsSub(reg)
      <4>1. step \in Range(todo') /\ step[1] = "put"
        BY <2>8 DEF Left
      <4>2. reg # WholeOf(step[2])
        BY <1>2, <1>4, <1>7, <2>8, <4>1 DEF Follows
      <4>3. field \notin FieldsOf(reg)
        <5>1. /\ FieldsOf("cfbp") = {"control", "basepri", "primask"} /\ FieldsOf("xpsr") = {"ipsr", "epsr"}
              /\ FieldsOf("d0") = {"s0", "s1"} /\ \A f \in {"r0", "s0", "s1"} : FieldsOf(f) = {f}
          BY DEF FieldsOf
        <5>2. WholeOf(step[2]) \in {"cfbp", "xpsr"}
          BY DEF WholeOf
        <5>3. reg \in {"r0", "s0", "s1", "cfbp", "xpsr", "d0"}
          BY <3>5 DEF CORE_REGISTER, Fields, IsSub, IsCfbpSub, IsPsrSub
        <5> QED BY <2>8, <4>2, <5>1, <5>2, <5>3
      <4>4. regs'[field] = regs[field]
        BY <2>6, <3>2, <4>3
      <4> QED BY <2>2, <3>1, <3>5, <4>4
    <3> QED BY <3>3, <3>4, <3>5
  <2>9. MergeReady'
    BY <2>8 DEF MergeReady
  <2> QED BY <1>8, <2>7, <2>9 DEF WriteInv
<1> QED BY <1>12, <1>13

\* A step of an operation keeps what a write has written.
LEMMA WrittenHost ==
  ASSUME Types, op \in Ops \cup {None}, Where, WriteInv, HostStep,
         op.name = "write" => PartsFirst(op.list)
  PROVE  WriteInv'
<1>1. CASE ~Moving'
  BY <1>1, NotMoving DEF WriteInv, Ordered, Arrived, MergeReady
<1>2. CASE Moving' /\ Doing("enter")
  <2>1. op.name = "write"
    BY <1>2, HostKeeps DEF Moving
  <2> QED BY <1>2, <2>1, WrittenEnter
<1>3. CASE Moving' /\ ~Doing("enter")
  <2>1. /\ Moving /\ op' = op /\ todo # << >> /\ todo' = Tail(todo)
        /\ Doing("read_first") \/ Doing("put")
    BY <1>3, WriteMoves
  <2> QED BY <1>3, <2>1, WrittenRead, WrittenPut
<1> QED BY <1>1, <1>2, <1>3

\* A write that fails raises.
LEMMA WrittenFails ==
  ASSUME Types, op \in Ops \cup {None}, Where, WriteInv, Fails
  PROVE  WriteInv'
<1>1. op' = op /\ todo # << >>
  BY FailsKeep
<1>2. CASE op.name # "write"
  BY <1>1, <1>2 DEF Moving, WriteInv, Ordered, Arrived, MergeReady
<1>3. CASE op.name = "write"
  <2>1. Head(todo)[1] \in {"state", "state_again", "check_cache", "enter", "read_first", "put"}
    BY <1>1, <1>3, Kinds
  <2>2. Head(todo)[1] \notin {"aircr", "await_reset", "await_halt"}
    BY <2>1
  <2>3. todo' = << >> /\ past'.raised
    BY <2>2, FailsKeep
  <2>4. DOMAIN << >> = {}
    OBVIOUS
  <2> QED BY <2>3, <2>4 DEF WriteInv, Ordered, Arrived, MergeReady, Smooth, InRelation
<1> QED BY <1>2, <1>3

\* A halted core changes only by a reset, which disturbs.
LEMMA WrittenHardware ==
  ASSUME Types, op \in Ops \cup {None}, Where, Asked, WriteInv, Hardware
  PROVE  WriteInv'
<1>1. op' = op /\ todo' = todo /\ loc' = loc
  BY HardwareKeeps DEF host
<1>2. Left' = Left /\ Pending' = Pending /\ (Moving' <=> Moving)
  BY <1>1 DEF Left, Pending, Moving, TransferSteps
<1>3. Ordered'
  BY <1>1, <1>2 DEF WriteInv, Ordered, StepOrder, TransferSteps
<1>4. past' = past \/ past'.disturbed
  <2>1. past' = past \/ past' = [past EXCEPT !.disturbed = TRUE]
    BY DEF Hardware, Execute, HitBreakpoint, StopRequested, SleepOrWake, TakeReset, OutsideReset,
           LeaveReset, history
  <2> QED BY <2>1 DEF Types, Pasts
<1>5. CASE ~Moving \/ ~Smooth'
  BY <1>2, <1>3, <1>5 DEF WriteInv, Arrived, MergeReady
<1>6. CASE Moving /\ Smooth'
  <2>1. Smooth /\ past' = past /\ core = "halted" /\ op.name = "write"
    BY <1>4, <1>6 DEF Smooth, WriteInv, Arrived, Moving
  <2>2. request # "asked"
    <3>1. PICK wait : wait = <<"await_reset">>
      OBVIOUS
    <3>2. wait[1] = "await_reset"
      BY <3>1
    <3>3. todo # << >> => Head(todo)[1] # "await_reset"
      BY <2>1, Kinds
    <3> QED BY <3>1, <3>2, <3>3 DEF Asked
  <2>3. core' = core /\ regs' = regs
    BY <1>6, <2>1, <2>2, HaltedHardware DEF Smooth
  <2>4. Arrived' /\ MergeReady'
    BY <1>1, <1>2, <1>6, <2>1, <2>3 DEF WriteInv, Arrived, MergeReady
  <2> QED BY <1>3, <2>4 DEF WriteInv
<1> QED BY <1>5, <1>6

\* Before the first step of a write, and after the last, no transfer is made.
LEMMA WrittenBetween ==
  ASSUME menu \subseteq Ops, Return \/ \E o \in menu : Start(o)
  PROVE  WriteInv'
<1>1. ~Moving'
  <2>1. CASE Return
    BY <2>1 DEF Return, None, Moving
  <2>2. ASSUME NEW o \in menu, Start(o) PROVE ~Moving'
    <3>1. op' = o /\ todo' = Program(o) /\ o \in Ops
      BY <2>2 DEF Start
    <3>2. CASE o.name = "write"
      <4>1. todo' = Cons(GetState, Checked(Enter1)) /\ o.bit \in 0..1
        BY <3>1, <3>2, Programs, OpsAre
      <4>2. IsList(Cons(GetState, Checked(Enter1)), GetState, Checked(Enter1))
        <5>1. Enter1 \in Seq(Steps)
          BY LastLists DEF IsList
        <5>2. Checked(Enter1) \in Seq(Steps)
          BY <5>1, WrapsBegin
        <5> QED BY <5>2, Wraps
      <4>3. todo' # << >> /\ Head(todo')[1] = "state"
        BY <4>1, <4>2 DEF IsList, GetState
      <4>4. \A s \in TransferSteps(o) : s[1] \in {"read_first", "put"}
        BY <4>1, TransferStepsAre
      <4>5. Head(todo') \notin TransferSteps(o)
        BY <4>3, <4>4
      <4>6. todo' \notin Seq(TransferSteps(o))
        BY <4>3, <4>5
      <4> QED BY <3>1, <4>6 DEF Moving
    <3>3. CASE o.name # "write"
      BY <3>1, <3>3 DEF Moving
    <3> QED BY <3>2, <3>3
  <2> QED BY <2>1, <2>2
<1> QED BY <1>1 DEF WriteInv, Ordered, Arrived, MergeReady

\* The lists of one name, which is what callers of write_core_registers_raw pass, are of
\* that kind.  (_perform_emulated_reset passes a longer one, without any part.)
LEMMA OneName == \A reg \in CORE_REGISTER : PartsFirst(<<reg>>)
<1> TAKE reg \in CORE_REGISTER
<1>1. DOMAIN <<reg>> = {1} /\ \A i, j \in {1} : ~(i < j)
  OBVIOUS
<1> QED BY <1>1 DEF PartsFirst

\* What a write of lists that name no part after its group has written, in every state.
LEMMA WriteInvariance ==
  ASSUME \A list \in WriteLists : PartsFirst(list)
  PROVE  Spec => []WriteInv
<1>1. Init => WriteInv
  <2>1. Init => op.name = "none"
    BY DEF Init, None
  <2> QED BY <2>1, NotMoving DEF Moving
<1>2. IInv /\ IInv' /\ WriteInv /\ [Next]_vars => WriteInv'
  <2> SUFFICES ASSUME IInv, WriteInv, [Next]_vars PROVE WriteInv'
    OBVIOUS
  <2>1. /\ Types /\ Where /\ Asked /\ op \in Ops \cup {None} /\ menu \subseteq Ops
    BY CortexMAssumption DEF IInv, Types, TypeOK
  <2>2. op.name = "write" => PartsFirst(op.list)
    <3>1. op.name = "write" => op \in Ops
      BY <2>1 DEF None
    <3> QED BY <3>1, OpsAre
  <2>3. CASE HostStep
    BY <2>1, <2>2, <2>3, WrittenHost
  <2>4. CASE Fails
    BY <2>1, <2>4, WrittenFails
  <2>5. CASE Hardware
    BY <2>1, <2>5, WrittenHardware
  <2>6. CASE Return \/ \E o \in menu : Start(o)
    BY <2>1, <2>6, WrittenBetween
  <2>7. CASE UNCHANGED vars
    BY <2>7 DEF vars, WriteInv, Ordered, Arrived, MergeReady, Moving, Smooth, Left, Pending,
                StepOrder, TransferSteps
  <2>8. CASE PostedLost
    <3>1. op' = op /\ op.name \in {"set_vector_catch", "disconnect", "reset_and_halt"}
      BY <2>1, <2>8, LostKeeps, PostedAre
    <3> QED BY <3>1 DEF Moving, WriteInv, Ordered, Arrived, MergeReady
  <2> QED BY <2>3, <2>4, <2>5, <2>6, <2>7, <2>8 DEF Next, Fails
<1> QED BY <1>1, <1>2, Invariance, PTL DEF Spec

\* Of the fields that no dropped name has, the ones that are written are those the list names.
LEMMA NamedAre ==
  ASSUME NEW list \in Seq(CORE_REGISTER), NEW field, field \notin DroppedFields(list)
  PROVE  field \in Named(list) <=> field \in UNION {FieldsOf(reg) : reg \in ToSet(list)}
<1>1. ASSUME field \in Named(list)
      PROVE  field \in UNION {FieldsOf(reg) : reg \in ToSet(list)}
  BY <1>1 DEF Named, ToSet
<1>2. ASSUME field \in UNION {FieldsOf(reg) : reg \in ToSet(list)}
      PROVE  field \in Named(list)
  <2>1. PICK k \in DOMAIN list : field \in FieldsOf(list[k])
    BY <1>2 DEF ToSet
  <2>2. ~Dropped(list, k)
    BY <2>1 DEF DroppedFields
  <2> QED BY <2>1, <2>2 DEF Named
<1> QED BY <1>1, <1>2

\* OthersWritten: when a write returns undisturbed, every field that no dropped name has is
\* written if the list names its register and keeps its value if not
\* (write_core_registers_raw), whatever the lists, if no list names a part of CFBP or XPSR
\* after the whole of it: there the code merges the part into the value it read before.
THEOREM RegistersAreWritten ==
  ASSUME \A list \in WriteLists : PartsFirst(list)
  PROVE  Spec => []OthersWritten
<1>1. IInv /\ WriteInv => OthersWritten
  <2>1. SUFFICES ASSUME IInv, WriteInv, Returned("write"), Undisturbed,
                        NEW field \in Fields \ DroppedFields(op.list)
                 PROVE  regs[field] = Intended(past.regs, op.list, op.bit)[field]
    BY DEF OthersWritten
  <2>2. op.name = "write" /\ todo = << >> /\ Smooth
    BY <2>1 DEF Returned, Idle, Undisturbed, Smooth
  <2>3. Moving
    BY <2>2, EmptySeq DEF Moving
  <2>4. Pending = {}
    <3>1. Range(<< >>) = {}
      BY DEF Range
    <3> QED BY <2>2, <3>1 DEF Pending, Left
  <2>5. regs[field] = IF field \in Named(op.list) THEN op.bit ELSE past.regs[field]
    BY <2>1, <2>2, <2>3, <2>4 DEF WriteInv, Arrived
  <2>6. op.list \in Seq(CORE_REGISTER)
    <3>1. op \in Ops
      BY <2>1, <2>2 DEF IInv, Types, TypeOK, None
    <3> QED BY <2>2, <3>1, OpsAre
  <2>7. field \in Named(op.list)
          <=> field \in UNION {FieldsOf(reg) : reg \in ToSet(op.list)}
    BY <2>1, <2>6, NamedAre
  <2> QED BY <2>1, <2>5, <2>7 DEF Intended
<1>2. Spec => []WriteInv
  BY WriteInvariance
<1> QED BY <1>1, <1>2, Invariance, PTL
=============================================================================
