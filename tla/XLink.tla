------------------------------- MODULE XLink --------------------------------
(***************************************************************************)
(* The facade through which the threads of RTTView use the debug probe:    *)
(* class XLink of xlink.py.  Every public method is wrapped by the         *)
(* decorator locked, which holds one threading.Lock from before the body   *)
(* to after it, exceptions included.  The GUI thread (RTTView.py) and the  *)
(* thread of the GDB server (gdbserver.py) share the object.               *)
(*                                                                         *)
(* A method's body is what it does in order: probe operations, that is     *)
(* calls of self.xlk, and calls of other methods of this class.  Whether a *)
(* thread can acquire the lock it already holds is a matter of the lock's  *)
(* class: threading.Lock cannot be acquired twice.                         *)
(***************************************************************************)
EXTENDS Naturals, Sequences

CONSTANTS
  Threads,
  NoThread,
  Riscv,       \* self.mode.startswith('rv')
  OpenOCD,     \* isinstance(self.xlk, openocd.OpenOCD)
  Calls        \* for each thread the methods it calls

VARIABLES
  lock,    \* the thread that holds self.lock, or NoThread
  stack,   \* for each thread its running methods of XLink, innermost first
  using    \* the threads that are inside a probe operation

vars == <<lock, stack, using>>

Probe == "self.xlk"

SimpleMethods ==
  {"open", "close", "write_U8", "write_U16", "write_U32", "write_mem_U8", "write_mem_U32",
   "read_mem_U8", "read_mem_U16", "read_mem_U32", "read_U32", "read_reg", "read_regs",
   "write_reg", "halt", "step", "go", "halted"}

\* (A wrong variant of Bodies: reset resumes by a method XLink has not.)
BodiesResume(method) ==
  IF method \in SimpleMethods THEN {<<Probe>>} ELSE {<<Probe, "resume">>}

\* What a method does; where that depends on what it reads, each way.  (The
\* loops of resetStopOnReset and waitReset are taken once; read_core_type
\* resumes a RISC-V core that it had to halt.)
Bodies(method) ==
  CASE method \in SimpleMethods   -> {<<Probe>>}
    [] method = "write_mem"       -> {<<"write_mem_U8">>}
    [] method = "reset"           ->
         {IF Riscv THEN <<Probe, Probe, Probe, "go">> ELSE <<Probe>>}
    [] method = "read_core_type"  ->
         IF Riscv THEN {<<"halted", "read_reg">>, <<"halted", "halt", "read_reg", "go">>}
                  ELSE {<<"read_U32">>}
    [] method = "reset_and_halt"  ->
         {IF OpenOCD \/ Riscv THEN <<Probe>> ELSE <<"resetStopOnReset", "write_reg">>}
    [] method = "resetStopOnReset" ->
         {<<"halt", "read_U32", "write_U32", "reset", "read_U32", "halted", "write_U32">>}

AllMethods == SimpleMethods \cup
  {"write_mem", "reset", "read_core_type", "reset_and_halt", "resetStopOnReset"}

ASSUME XLinkAssumption ==
  /\ NoThread \notin Threads
  /\ Riscv \in BOOLEAN /\ OpenOCD \in BOOLEAN
  /\ Calls \in [Threads -> SUBSET AllMethods]

\* (A wrong variant of Frame: the body of a method that is not decorated.)
FrameUnlocked(body) == [holds |-> TRUE, body |-> body]

Frame(body) == [holds |-> FALSE, body |-> body]

Running(t) == stack[t] # << >>
Top(t) == Head(stack[t])

\* A running method goes on to the rest of its body.
Advance(t) == [Top(t) EXCEPT !.body = Tail(@)]

-----------------------------------------------------------------------------
Init ==
  /\ lock = NoThread
  /\ stack = [t \in Threads |-> << >>]
  /\ using = {}

\* A thread calls a method from outside, or the innermost method calls one.
Call(t, method) ==
  /\ ~Running(t)
  /\ \E body \in Bodies(method) : stack' = [stack EXCEPT ![t] = <<Frame(body)>>]
  /\ UNCHANGED <<lock, using>>

CallNested(t) ==
  /\ Running(t) /\ Top(t).holds
  /\ Top(t).body # << >> /\ Head(Top(t).body) # Probe
  /\ \E body \in Bodies(Head(Top(t).body)) :
       stack' = [stack EXCEPT ![t] = <<Frame(body), Advance(t)>> \o Tail(@)]
  /\ UNCHANGED <<lock, using>>

\* with self.lock: waits until nobody holds it, this thread included.
Acquire(t) ==
  /\ Running(t) /\ ~Top(t).holds
  /\ lock = NoThread
  /\ lock' = t
  /\ stack' = [stack EXCEPT ![t] = <<[Top(t) EXCEPT !.holds = TRUE]>> \o Tail(@)]
  /\ UNCHANGED using

BeginProbe(t) ==
  /\ Running(t) /\ Top(t).holds /\ t \notin using
  /\ Top(t).body # << >> /\ Head(Top(t).body) = Probe
  /\ using' = using \cup {t}
  /\ UNCHANGED <<lock, stack>>

EndProbe(t) ==
  /\ t \in using
  /\ using' = using \ {t}
  /\ stack' = [stack EXCEPT ![t] = <<Advance(t)>> \o Tail(@)]
  /\ UNCHANGED lock

\* (A wrong variant of ProbeRaises: a lock taken and given back by hand.)
ProbeRaisesKeepsLock(t) ==
  /\ t \in using
  /\ using' = using \ {t}
  /\ stack' = [stack EXCEPT ![t] = << >>]
  /\ UNCHANGED lock

\* A probe operation raises: every running method of the thread is left, and
\* the with statement of each releases the lock.
ProbeRaises(t) ==
  /\ t \in using
  /\ using' = using \ {t}
  /\ stack' = [stack EXCEPT ![t] = << >>]
  /\ lock' = NoThread

Return(t) ==
  /\ Running(t) /\ Top(t).holds /\ Top(t).body = << >>
  /\ lock' = NoThread
  /\ stack' = [stack EXCEPT ![t] = Tail(@)]
  /\ UNCHANGED using

-----------------------------------------------------------------------------
Step(t) ==
  \/ CallNested(t) \/ Acquire(t) \/ BeginProbe(t)
  \/ EndProbe(t) \/ ProbeRaises(t) \/ Return(t)

Next == \E t \in Threads : Step(t) \/ \E method \in Calls[t] : Call(t, method)

Spec == Init /\ [][Next]_vars

\* A thread runs on when it can, and a probe operation returns or raises.
\* Nothing makes the lock fair between threads that compete for it.
FairSpec == Spec /\ \A t \in Threads : WF_vars(Step(t))

-----------------------------------------------------------------------------
(* Properties.                                                             *)

FrameType == [holds : BOOLEAN, body : Seq(AllMethods \cup {Probe})]

TypeOK ==
  /\ lock \in Threads \cup {NoThread}
  /\ stack \in [Threads -> Seq(FrameType)]
  /\ using \subseteq Threads

\* Only one thread at a time talks to the probe, and only while it holds the
\* lock: the probe layers below (DapPipeline among them) are written for one
\* thread.
ProbeExclusive == \A t \in using : lock = t

\* The lock is held exactly by a thread with a method in its body: no way out
\* of a method keeps the lock, and none gives another thread's lock away.
LockMatchesStack ==
  \A t \in Threads : lock = t <=> \E i \in DOMAIN stack[t] : stack[t][i].holds

\* Whoever takes the lock gives it back, unless it is waiting for itself: a
\* slow or failing probe operation never leaves the other thread locked out.
WaitsForItself(t) == lock = t /\ Running(t) /\ ~Top(t).holds

LockIsReleasedUnlessNested ==
  lock # NoThread ~> (lock = NoThread \/ \E t \in Threads : WaitsForItself(t))

\* "Allows Ozone or other GDB clients to connect to the target via RTTView's
\* connection" (gdbserver.py): what the one thread does never locks the other
\* out for good.
LockIsReleased == lock # NoThread ~> lock = NoThread
=============================================================================
