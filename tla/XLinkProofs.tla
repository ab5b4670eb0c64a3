---------------------------- MODULE XLinkProofs -----------------------------
(***************************************************************************)
(* For any number of threads, whatever they call: only the thread that     *)
(* holds the lock is at the probe, and the lock is held exactly by a       *)
(* thread that is inside the body of a method.                             *)
(***************************************************************************)
EXTENDS XLink, SequenceLemmas

Steps == AllMethods \cup {Probe}

\* A lock that cannot be taken twice leaves a thread at most two methods deep,
\* the inner one waiting for the lock that the outer one holds.
Shape(t) ==
  /\ Len(stack[t]) <= 2
  /\ Len(stack[t]) = 2 => ~stack[t][1].holds /\ stack[t][2].holds

Holds(t) == \E i \in 1..Len(stack[t]) : stack[t][i].holds

AtProbe(t) ==
  Running(t) /\ Top(t).holds /\ Top(t).body # << >> /\ Head(Top(t).body) = Probe

IInv ==
  /\ TypeOK
  /\ \A t \in Threads : Shape(t)
  /\ \A t \in Threads : lock = t <=> Holds(t)
  /\ \A t \in using : AtProbe(t)

\* Whatever the kind of core and of probe, a body is made of probe operations
\* and of methods of the class.
LEMMA BodiesType ==
  ASSUME NEW method \in AllMethods
  PROVE  Bodies(method) \subseteq Seq(Steps)
<1>1. Probe \in Steps /\ SimpleMethods \subseteq Steps /\ AllMethods \subseteq Steps
  BY DEF Steps, AllMethods
<1> DEFINE halt == "halt"  rd == "read_U32"  wr == "write_U32"  reset == "reset"
           halted == "halted"  reg == "read_reg"  go == "go"
<1>2. /\ halt \in Steps /\ rd \in Steps /\ wr \in Steps /\ reset \in Steps
      /\ halted \in Steps /\ reg \in Steps /\ go \in Steps
      /\ "write_mem_U8" \in Steps /\ "resetStopOnReset" \in Steps /\ "write_reg" \in Steps
  BY DEF Steps, AllMethods, SimpleMethods
<1>3. <<Probe>> \in Seq(Steps) /\ <<"write_mem_U8">> \in Seq(Steps)
  BY <1>1, <1>2
<1>4. <<Probe, Probe, Probe, go>> \in Seq(Steps) /\ <<rd>> \in Seq(Steps)
  BY <1>1, <1>2
<1>5. <<halted, reg>> \in Seq(Steps) /\ <<halted, halt, reg, go>> \in Seq(Steps)
  BY <1>1, <1>2
<1>6. <<"resetStopOnReset", "write_reg">> \in Seq(Steps)
  BY <1>1, <1>2
<1>7. <<halt, rd, wr, reset, rd, halted, wr>> \in Seq(Steps)
  BY <1>1, <1>2, Literals
<1> HIDE DEF halt, rd, wr, reset, halted, reg, go
<1>8. Bodies(method) \subseteq
        {<<Probe>>, <<"write_mem_U8">>, <<Probe, Probe, Probe, go>>, <<rd>>, <<halted, reg>>,
         <<halted, halt, reg, go>>, <<"resetStopOnReset", "write_reg">>,
         <<halt, rd, wr, reset, rd, halted, wr>>}
  BY Zenon DEF Bodies, AllMethods, halt, rd, wr, reset, halted, reg, go
<1> QED BY <1>3, <1>4, <1>5, <1>6, <1>7, <1>8

\* The initial states satisfy the inductive invariant.
LEMMA InitIInv == Init => IInv
BY XLinkAssumption DEF Init, IInv, TypeOK, Shape, Holds, FrameType

\* What a thread's own step must establish when the other stacks are as they
\* were: each part of the invariant for that thread, and the lock not taken
\* from or left to another.
LEMMA OwnStep ==
  ASSUME IInv, NEW t \in Threads,
         NEW new \in Seq(FrameType),
         stack' = [stack EXCEPT ![t] = new],
         lock' \in Threads \cup {NoThread}, using' \subseteq using \cup {t},
         Shape(t)', lock' = t <=> Holds(t)',
         lock' # lock => {lock, lock'} \subseteq {t, NoThread},
         t \in using' => AtProbe(t)'
  PROVE  IInv'
<1>1. stack \in [Threads -> Seq(FrameType)] /\ using \subseteq Threads
  BY DEF IInv, TypeOK
<1>2. \A u \in Threads \ {t} : stack'[u] = stack[u]
  BY <1>1
<1>3. TypeOK'
  BY <1>1 DEF TypeOK
<1>4. \A u \in Threads : Shape(u)'
  BY <1>2 DEF IInv, Shape
<1>5. \A u \in Threads \ {t} : Holds(u)' = Holds(u)
  BY <1>2 DEF Holds
<1>6. \A u \in Threads : (lock = u <=> Holds(u))'
  BY <1>5, XLinkAssumption DEF IInv
<1>7. \A u \in using' : AtProbe(u)'
  BY <1>1, <1>2 DEF IInv, AtProbe, Running, Top
<1> QED BY <1>3, <1>4, <1>6, <1>7 DEF IInv

\* What a running thread has on its stack.
LEMMA TopType ==
  ASSUME IInv, NEW t \in Threads, Running(t)
  PROVE  /\ stack[t] \in Seq(FrameType) /\ stack[t] # << >>
         /\ Top(t) = stack[t][1] /\ Top(t) \in FrameType
         /\ Len(stack[t]) \in 1..2
         /\ Top(t).holds => Len(stack[t]) = 1 /\ lock = t
<1>1. stack[t] \in Seq(FrameType) /\ stack[t] # << >>
  BY DEF IInv, TypeOK, Running
<1>2. Top(t) = stack[t][1] /\ Top(t) \in FrameType
  BY <1>1, DropHead DEF Top
<1>3. Len(stack[t]) \in 1..2
  <2>1. Shape(t)
    BY DEF IInv
  <2> DEFINE n == Len(stack[t])
  <2>2. n \in Nat /\ n >= 1
    BY <1>1, DropHead
  <2>3. n <= 2
    BY <2>1 DEF Shape
  <2> HIDE DEF n
  <2>4. n \in 1..2
    BY <2>2, <2>3
  <2> QED BY <2>4 DEF n
<1>4. Top(t).holds => Len(stack[t]) = 1 /\ lock = t
  BY <1>2, <1>3 DEF IInv, Shape, Holds
<1> QED BY <1>1, <1>2, <1>3, <1>4

\* What is left of a body is a body.
LEMMA AdvanceType ==
  ASSUME IInv, NEW t \in Threads, Running(t), Top(t).body # << >>
  PROVE  Advance(t) \in FrameType /\ Advance(t).holds = Top(t).holds
<1>1. Top(t) \in [holds : BOOLEAN, body : Seq(Steps)]
  BY TopType DEF FrameType, Steps
<1>2. Tail(Top(t).body) \in Seq(Steps)
  BY <1>1
<1> QED BY <1>1, <1>2 DEF Advance, FrameType, Steps

\* A frame that is pushed waits for the lock.
LEMMA FrameOfBody ==
  ASSUME NEW method \in AllMethods, NEW body \in Bodies(method)
  PROVE  Frame(body) \in FrameType /\ ~Frame(body).holds
<1>1. body \in Seq(Steps)
  BY BodiesType
<1> QED BY <1>1 DEF Frame, FrameType, Steps

\* Every step keeps the inductive invariant.
LEMMA NextIInv == IInv /\ [Next]_vars => IInv'
<1> SUFFICES ASSUME IInv, [Next]_vars PROVE IInv'
  OBVIOUS
<1>1. ASSUME NEW t \in Threads, NEW method \in Calls[t], Call(t, method)
      PROVE  IInv'
  <2>1. PICK body \in Bodies(method) : stack' = [stack EXCEPT ![t] = <<Frame(body)>>]
    BY <1>1 DEF Call
  <2>2. method \in AllMethods
    BY XLinkAssumption
  <2>3. Frame(body) \in FrameType /\ ~Frame(body).holds
    BY <2>1, <2>2, FrameOfBody
  <2>4. stack'[t] = <<Frame(body)>> /\ <<Frame(body)>> \in Seq(FrameType)
    BY <2>1, <2>3 DEF IInv, TypeOK
  <2>5. lock' = lock /\ using' = using /\ stack[t] = << >>
    BY <1>1 DEF Call, Running
  <2>6. Shape(t)' /\ ~Holds(t)' /\ ~Holds(t) /\ t \notin using
    BY <2>3, <2>4, <2>5 DEF Shape, Holds, IInv, AtProbe, Running
  <2> QED BY <2>1, <2>4, <2>5, <2>6, OwnStep DEF IInv, TypeOK
<1>2. ASSUME NEW t \in Threads, CallNested(t)
      PROVE  IInv'
  <2> DEFINE method == Head(Top(t).body)
  <2>1. Running(t) /\ Top(t).holds /\ Top(t).body # << >> /\ method # Probe
    BY <1>2 DEF CallNested
  <2>2. PICK body \in Bodies(method) :
          stack' = [stack EXCEPT ![t] = <<Frame(body), Advance(t)>> \o Tail(stack[t])]
    BY <1>2 DEF CallNested, IInv, TypeOK
  <2>3. method \in AllMethods
    <3>1. Top(t) \in [holds : BOOLEAN, body : Seq(Steps)]
      BY <2>1, TopType DEF FrameType, Steps
    <3>2. method \in Steps
      BY <2>1, <3>1
    <3> QED BY <2>1, <3>2 DEF Steps
  <2> HIDE DEF method
  <2>4. Frame(body) \in FrameType /\ ~Frame(body).holds
    BY <2>2, <2>3, FrameOfBody
  <2>5. Advance(t) \in FrameType /\ Advance(t).holds
    BY <2>1, AdvanceType
  <2>6. stack[t] \in Seq(FrameType) /\ Len(stack[t]) = 1 /\ lock = t
    BY <2>1, TopType
  <2>7. <<Frame(body), Advance(t)>> \o Tail(stack[t]) = <<Frame(body), Advance(t)>>
    BY <2>4, <2>5, <2>6, ReplaceOneByTwo
  <2>8. stack' = [stack EXCEPT ![t] = <<Frame(body), Advance(t)>>]
    BY <2>2, <2>7
  <2>9. stack'[t] = <<Frame(body), Advance(t)>> /\ <<Frame(body), Advance(t)>> \in Seq(FrameType)
    BY <2>4, <2>5, <2>8 DEF IInv, TypeOK
  <2>10. lock' = lock /\ using' = using /\ t \notin using
    BY <1>2, <2>1 DEF CallNested, IInv, AtProbe, method
  <2>11. Shape(t)' /\ Holds(t)'
    BY <2>4, <2>5, <2>9 DEF Shape, Holds
  <2> QED BY <2>6, <2>8, <2>9, <2>10, <2>11, OwnStep DEF IInv, TypeOK
<1>3. ASSUME NEW t \in Threads, Acquire(t)
      PROVE  IInv'
  <2> DEFINE top == [Top(t) EXCEPT !.holds = TRUE]
             new == <<top>> \o Tail(stack[t])
  <2>1. Running(t) /\ ~Top(t).holds /\ lock = NoThread /\ lock' = t /\ using' = using
    BY <1>3 DEF Acquire
  <2>2. stack' = [stack EXCEPT ![t] = new]
    BY <1>3 DEF Acquire, IInv, TypeOK
  <2>3. top \in FrameType /\ top.holds
    BY <2>1, TopType DEF FrameType
  <2> HIDE DEF top
  <2>4. /\ stack[t] \in Seq(FrameType) /\ stack[t] # << >>
        /\ Len(stack[t]) \in 1..2 /\ Top(t) = stack[t][1]
    BY <2>1, TopType
  <2>5. new \in Seq(FrameType) /\ Len(new) = Len(stack[t]) /\ new[1] = top
    BY <2>3, <2>4, ReplaceHead
  <2>6. Len(stack[t]) = 1
    \* With two methods on the stack the lock would not be free.
    BY <2>1, <2>4, XLinkAssumption DEF IInv, Shape, Holds
  <2>7. stack'[t] = new
    BY <2>2, <2>5 DEF IInv, TypeOK
  <2> HIDE DEF new
  <2>8. Shape(t)' /\ Holds(t)'
    <3>1. Len(stack'[t]) = 1 /\ stack'[t][1].holds
      BY <2>3, <2>5, <2>6, <2>7
    <3> QED BY <3>1 DEF Shape, Holds
  <2>9. t \notin using
    BY <2>1 DEF IInv, AtProbe
  <2> QED BY <2>1, <2>2, <2>5, <2>8, <2>9, OwnStep
<1>4. ASSUME NEW t \in Threads, BeginProbe(t)
      PROVE  IInv'
  <2>1. stack' = stack /\ lock' = lock /\ using' = using \cup {t} /\ AtProbe(t)
    BY <1>4 DEF BeginProbe, AtProbe
  <2>2. TypeOK'
    BY <2>1 DEF IInv, TypeOK
  <2>3. \A u \in Threads : Shape(u)' /\ (lock = u <=> Holds(u))'
    BY <2>1 DEF IInv, Shape, Holds
  <2>4. \A u \in using' : AtProbe(u)'
    BY <2>1 DEF IInv, AtProbe, Running, Top
  <2> QED BY <2>2, <2>3, <2>4 DEF IInv
<1>5. ASSUME NEW t \in Threads, EndProbe(t)
      PROVE  IInv'
  <2> DEFINE new == <<Advance(t)>> \o Tail(stack[t])
  <2>1. t \in using /\ lock' = lock /\ using' = using \ {t}
    BY <1>5 DEF EndProbe
  <2>2. stack' = [stack EXCEPT ![t] = new]
    BY <1>5 DEF EndProbe, IInv, TypeOK
  <2>3. Running(t) /\ Top(t).holds /\ Top(t).body # << >>
    BY <2>1 DEF IInv, AtProbe
  <2>4. /\ stack[t] \in Seq(FrameType) /\ stack[t] # << >>
        /\ Len(stack[t]) = 1 /\ lock = t
    BY <2>3, TopType
  <2>5. Advance(t) \in FrameType /\ Advance(t).holds
    BY <2>3, AdvanceType
  <2>6. new \in Seq(FrameType) /\ Len(new) = 1 /\ new[1] = Advance(t)
    BY <2>4, <2>5, ReplaceHead
  <2>7. stack'[t] = new
    BY <2>2, <2>6 DEF IInv, TypeOK
  <2> HIDE DEF new
  <2>8. Shape(t)' /\ Holds(t)'
    <3>1. Len(stack'[t]) = 1 /\ stack'[t][1].holds
      BY <2>5, <2>6, <2>7
    <3> QED BY <3>1 DEF Shape, Holds
  <2> QED BY <2>1, <2>2, <2>4, <2>6, <2>8, OwnStep
<1>6. ASSUME NEW t \in Threads, ProbeRaises(t)
      PROVE  IInv'
  <2>1. t \in using /\ lock' = NoThread /\ using' = using \ {t}
        /\ stack' = [stack EXCEPT ![t] = << >>]
    BY <1>6 DEF ProbeRaises
  <2>2. lock = t
    BY <2>1, TopType DEF IInv, TypeOK, AtProbe
  <2>3. stack'[t] = << >> /\ << >> \in Seq(FrameType)
    BY <2>1 DEF IInv, TypeOK
  <2>4. Shape(t)' /\ ~Holds(t)'
    BY <2>3 DEF Shape, Holds
  <2> QED BY <2>1, <2>2, <2>3, <2>4, OwnStep, XLinkAssumption
<1>7. ASSUME NEW t \in Threads, Return(t)
      PROVE  IInv'
  <2>1. Running(t) /\ Top(t).holds /\ Top(t).body = << >> /\ lock' = NoThread /\ using' = using
        /\ stack' = [stack EXCEPT ![t] = Tail(stack[t])]
    BY <1>7 DEF Return, IInv, TypeOK
  <2>2. stack[t] \in Seq(FrameType) /\ Len(stack[t]) = 1 /\ lock = t
    BY <2>1, TopType
  <2>3. Tail(stack[t]) = << >>
    BY <2>2, TailOfOne
  <2>4. stack'[t] = << >> /\ << >> \in Seq(FrameType)
    BY <2>1, <2>3 DEF IInv, TypeOK
  <2>5. Shape(t)' /\ ~Holds(t)'
    BY <2>4 DEF Shape, Holds
  <2>6. t \notin using
    BY <2>1 DEF IInv, AtProbe
  <2> QED BY <2>1, <2>2, <2>3, <2>4, <2>5, <2>6, OwnStep, XLinkAssumption
<1>8. CASE UNCHANGED vars
  BY <1>8 DEF vars, IInv, TypeOK, Shape, Holds, AtProbe, Running, Top
<1> QED BY <1>1, <1>2, <1>3, <1>4, <1>5, <1>6, <1>7, <1>8 DEF Next, Step

\* The type invariant of the facade, for any set of threads.
THEOREM TypeCorrect == Spec => []TypeOK
<1>1. IInv => TypeOK
  BY DEF IInv
<1> QED BY <1>1, InitIInv, NextIInv, PTL DEF Spec

\* Only one thread at a time talks to the probe, and only while it holds the
\* lock (the purpose of the decorator locked of xlink.py).
THEOREM ProbeIsExclusive == Spec => []ProbeExclusive
<1>1. IInv => ProbeExclusive
  BY TopType DEF IInv, TypeOK, AtProbe, ProbeExclusive
<1> QED BY <1>1, InitIInv, NextIInv, PTL DEF Spec

\* The lock is held exactly by a thread that is in the body of a method: no
\* way out of a method, exceptions included, leaves it locked.
THEOREM LockIsMatched == Spec => []LockMatchesStack
<1>1. IInv => LockMatchesStack
  <2> SUFFICES ASSUME IInv, NEW t \in Threads
               PROVE  lock = t <=> \E i \in DOMAIN stack[t] : stack[t][i].holds
    BY DEF LockMatchesStack
  <2>1. DOMAIN stack[t] = 1..Len(stack[t])
    BY DEF IInv, TypeOK
  <2> QED BY <2>1 DEF IInv, Holds
<1> QED BY <1>1, InitIInv, NextIInv, PTL DEF Spec
=============================================================================
