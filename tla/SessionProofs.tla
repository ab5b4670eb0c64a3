--------------------------- MODULE SessionProofs ---------------------------
(***************************************************************************)
(* Proofs about the two links a user of RTTView chooses between: the       *)
(* methods of a CMSIS-DAP probe (ProbeLink), the sessions on OpenOCD       *)
(* (Session), and the program that uses either (MCSession).                *)
(***************************************************************************)
EXTENDS MCSession, SequenceLemmas, FiniteSetTheorems

-----------------------------------------------------------------------------
(***************************************************************************)
(* Proofs about the methods of a CMSIS-DAP probe, for every number of      *)
(* buffers in the probe, methods called and faults: the types, that no     *)
(* command takes the answer of another, and that nothing raises an         *)
(* exception without a cause.                                              *)
(*                                                                         *)
(* The argument counts.  As long as no answer was given up or passed over, *)
(* what is on its way (commands in the probe, answers in the endpoint, in  *)
(* the thread's list) is what the host still has to read: the packets it   *)
(* is owed, or the command it waits for, or what it is to drop.  And as    *)
(* long as nothing happened that excuses an exception, the thread has a    *)
(* permit for each command, so that none of its reads is in vain.          *)
(***************************************************************************)

-----------------------------------------------------------------------------
(* The inductive invariant.                                                *)

Codes == Exchanged \cup {"packet"}

Alone == {"interface", "buffers", "flush", "stop_swo", "stop", "join", "thread", "swo_data",
          "packet", "discard"}
StepNames == Exchanged \cup {"off", "unroute"} \cup Alone

\* The steps that follow each other in a method.
Follows(step, next) ==
  \/ step = "interface" /\ next = "info"
  \/ step = "info"      /\ next \in {"info", "buffers"}
  \/ step = "buffers"   /\ next = "info"
  \/ step = "flush"     /\ next \in {"stop_swo", "disconnect", "clock", "pins"}
  \/ step = "stop_swo"  /\ next = "stop"
  \/ step = "stop"      /\ next = "join"
  \/ step = "connect"   /\ next = "clock"
  \/ step = "clock"     /\ next = "configure"
  \/ step \in {"swd", "sequence", "jtag"} /\ next = "sequence"
  \/ step = "pins"      /\ next = "pins"
  \/ step = "transport" /\ next = "mode"
  \/ step = "mode"      /\ next = "baudrate"
  \/ step = "baudrate"  /\ next = "control"
  \/ step = "off"       /\ next = "unroute"
  \/ step = "unroute"   /\ next = "control"
  \/ step = "control"   /\ next = "thread"
  \/ step = "discard"   /\ next = "discard"

Types ==
  /\ backend \in {"pyusb", "pywinusb"}
  /\ closed \in BOOLEAN /\ stop \in BOOLEAN
  /\ rx \in {"none", "loop", "acquire", "reading", "ended"}
  /\ permits \in Nat
  /\ received \in Seq(ItemType) /\ endpoint \in Seq(AnswerType) /\ executing \in Seq(Codes)
  /\ todo \in Seq(StepNames) /\ waiting \in BOOLEAN
  /\ owed \in Seq({"packet"}) /\ Len(owed) <= PacketCount /\ buffers \in BOOLEAN
  /\ swo \in {"none", "reading", "ended"} /\ orphans \in Nat
  /\ swoEvent \in {"none", "clear", "set"} /\ swoOver \in BOOLEAN
  /\ outOfStep \in BOOLEAN /\ misread \in BOOLEAN /\ raised \in BOOLEAN /\ excused \in BOOLEAN
  /\ opened \in Nat /\ methods \in 0..MaxMethods /\ faults \in 0..MaxFaults

\* The methods go through their steps in order, and close and swo_stop to the
\* end.
TodoInOrder ==
  /\ \A i \in 1..Len(todo) - 1 : Follows(todo[i], todo[i + 1])
  /\ ~Idle => todo[Len(todo)] \notin {"stop_swo", "stop", "off"}
  /\ At("interface") => Len(todo) = 7
  /\ waiting => ~Idle /\ Direct(Head(todo))

\* How many permits the method in progress may still release, from its next
\* step and the number of its steps that remain.
WeightOf(step, n) ==
  CASE step \in {"interface", "transport"}    -> 6
    [] step = "mode"                          -> 5
    [] step = "baudrate"                      -> 4
    [] step = "off"                           -> 3
    [] step = "unroute"                       -> 2
    [] step = "control"                       -> 1
    [] step \in {"thread", "discard"}         -> 0
    [] OTHER                                  -> n

Weight == IF Idle THEN 0 ELSE WeightOf(Head(todo), Len(todo))

PermitsBounded == permits + Weight <= 6 * methods + (IF waiting THEN 1 ELSE 0)

\* What a closed interface, and one that was never open, look like.
Closed ==
  /\ backend = "pywinusb" =>
       rx = "none" /\ endpoint = << >> /\ swo = "none" /\ orphans = 0 /\ ~swoOver
  /\ backend = "pyusb" /\ closed /\ ~At("join") => rx = "none" /\ received = << >>
  /\ closed => owed = << >> /\ ~waiting /\ ~At("discard") /\ ~At("thread") /\ swo = "none"
  /\ At("stop_swo") \/ At("stop") \/ At("join") \/ At("discard") => owed = << >>
  /\ At("stop") => swo = "none"
  /\ At("join") => closed
  /\ stop => closed
  /\ opened > 0 /\ closed => stop

Unopened ==
  opened = 0 =>
    /\ closed /\ ~stop /\ rx = "none" /\ permits = 0
    /\ received = << >> /\ executing = << >> /\ endpoint = << >>
    /\ Idle \/ At("interface")
    /\ orphans = 0 /\ swoEvent = "none" /\ ~swoOver

\* What is on its way, and what the host has still to read.
Answers(items) == Cardinality({i \in 1..Len(items) : IsAnswer(items[i])})
OnItsWay == Len(executing) + Len(endpoint) + Answers(received)
ToRead ==
  Len(owed) + (IF waiting THEN 1 ELSE 0) + (IF At("discard") THEN Len(todo) ELSE 0)

AnswersCounted ==
  ~outOfStep => OnItsWay = ToRead /\ (waiting \/ At("buffers") => owed = << >>)

\* While nothing excuses an exception, the methods are called in their place ...
CalledInPlace ==
  /\ ~outOfStep /\ ~raised /\ ~At("discard")
  /\ At("interface") => opened = 0
  /\ At("flush") \/ At("packet") => buffers
  /\ ~Idle /\ ~At("interface") /\ ~At("join") => ~closed

\* ... there is a permit for each command, until the interface is closed ...
Permitted ==
  backend = "pyusb" =>
    /\ ~stop => permits + (IF rx = "reading" THEN 1 ELSE 0) = Len(executing) + Len(endpoint)
    /\ stop => rx # "reading"

\* ... everything on its way is the answer of the command in progress or of a
\* packet ...
Expected == IF waiting THEN Code(Head(todo)) ELSE "packet"
Good(answer) == IsAnswer(answer) /\ answer.ok /\ answer.code = Expected

AllExpected ==
  /\ \A i \in 1..Len(executing) : executing[i] = Expected
  /\ \A i \in 1..Len(endpoint) : Good(endpoint[i])
  /\ ~closed => \A i \in 1..Len(received) : Good(received[i])

\* ... and there is one SWO thread at most, which ends only to be joined.
HasThread == \E i \in 1..Len(todo) : todo[i] = "thread"

OneSwoThread ==
  /\ orphans = 0
  /\ HasThread => swo # "reading"
  /\ swo = "none" => swoEvent = "none"
  /\ swo = "reading" => swoEvent = "clear" \/ (swoEvent = "set" /\ At("stop_swo"))
  /\ swo = "ended" => At("stop_swo")
  /\ swoOver => At("stop_swo") \/ At("stop") \/ At("join")

Unexcused ==
  ~excused => CalledInPlace /\ Permitted /\ AllExpected /\ OneSwoThread

IInv ==
  Types /\ TodoInOrder /\ PermitsBounded /\ Closed /\ Unopened /\ AnswersCounted /\ Unexcused
    /\ OwnAnswers

-----------------------------------------------------------------------------
(* What was received, counted.                                             *)

Places(items, from) == {i \in from..Len(items) : IsAnswer(items[i])}

\* Where the answers are.
LEMMA PlacesFinite ==
  ASSUME NEW s \in Seq(ItemType), NEW from \in Nat
  PROVE  IsFiniteSet(Places(s, from)) /\ Cardinality(Places(s, from)) \in Nat
<1>1. IsFiniteSet(from..Len(s))
  BY FS_Interval
<1>2. Places(s, from) \in SUBSET (from..Len(s))
  BY DEF Places
<1> QED BY <1>1, <1>2, FS_Subset, FS_CardinalityType

LEMMA AnswersAre ==
  ASSUME NEW s \in Seq(ItemType)
  PROVE  Answers(s) = Cardinality(Places(s, 1)) /\ Answers(s) \in Nat
<1>1. Answers(s) = Cardinality(Places(s, 1))
  BY DEF Answers, Places
<1> QED BY <1>1, PlacesFinite

LEMMA NoAnswers == Answers(<< >>) = 0
<1>1. {i \in 1..Len(<< >>) : IsAnswer(<< >>[i])} = {}
  OBVIOUS
<1> QED BY <1>1, FS_EmptySet DEF Answers

\* One more item is one more answer, if it is one.
LEMMA AnswersAppend ==
  ASSUME NEW s \in Seq(ItemType), NEW x \in ItemType
  PROVE  Answers(Append(s, x)) = Answers(s) + (IF IsAnswer(x) THEN 1 ELSE 0)
<1> DEFINE t == Append(s, x)
           n == Len(s)
<1>1. /\ t \in Seq(ItemType) /\ Len(t) = n + 1 /\ n \in Nat /\ t[n + 1] = x
      /\ \A i \in 1..n : t[i] = s[i]
  BY AppendProperties
<1> HIDE DEF t
<1>2. /\ Places(s, 1) \in SUBSET (1..n) /\ n + 1 \notin Places(s, 1)
      /\ IsFiniteSet(Places(s, 1)) /\ Cardinality(Places(s, 1)) \in Nat
  BY <1>1, PlacesFinite DEF Places
<1>3. Answers(t) = Cardinality(Places(t, 1)) /\ Answers(s) = Cardinality(Places(s, 1))
  BY <1>1, AnswersAre
<1>4. CASE IsAnswer(x)
  <2>1. Places(t, 1) = Places(s, 1) \cup {n + 1}
    BY <1>1, <1>4 DEF Places
  <2>2. Cardinality(Places(t, 1)) = Cardinality(Places(s, 1)) + 1
    BY <2>1, <1>2, FS_AddElement
  <2> QED BY <2>2, <1>4, <1>3 DEF t
<1>5. CASE ~IsAnswer(x)
  <2>1. Places(t, 1) = Places(s, 1)
    BY <1>1, <1>5 DEF Places
  <2> QED BY <2>1, <1>2, <1>5, <1>3 DEF t
<1> QED BY <1>4, <1>5

\* The first item is one of the answers, if it is one, and the others are
\* those behind it.
LEMMA AnswersTail ==
  ASSUME NEW s \in Seq(ItemType), s # << >>
  PROVE  /\ Answers(Tail(s)) \in Nat
         /\ Answers(s) = Answers(Tail(s)) + (IF IsAnswer(Head(s)) THEN 1 ELSE 0)
         /\ Cardinality({i \in 2..Len(s) : IsAnswer(s[i])}) = Answers(Tail(s))
<1> DEFINE t == Tail(s)
           n == Len(s)
           f == [i \in Places(s, 2) |-> i - 1]
<1>1. /\ t \in Seq(ItemType) /\ Len(t) = n - 1 /\ n \in Nat \ {0} /\ Head(s) = s[1]
      /\ \A i \in 1..n - 1 : t[i] = s[i + 1]
  BY DropHead
<1> HIDE DEF t
<1>2. ExistsBijection(Places(s, 2), Places(t, 1))
  <2>1. /\ Places(s, 2) \subseteq 2..n
        /\ \A i \in Places(s, 2) : i - 1 \in Places(t, 1)
    BY <1>1 DEF Places
  <2>2. f \in [Places(s, 2) -> Places(t, 1)]
    BY <2>1
  <2>3. \A i, j \in Places(s, 2) : f[i] = f[j] => i = j
    BY <2>1
  <2>4. ASSUME NEW j \in Places(t, 1) PROVE \E i \in Places(s, 2) : f[i] = j
    <3>1. j \in 1..n - 1 /\ IsAnswer(t[j]) /\ t[j] = s[j + 1]
      BY <1>1 DEF Places
    <3>2. j + 1 \in Places(s, 2) /\ (j + 1) - 1 = j
      BY <3>1, <1>1 DEF Places
    <3> QED BY <3>2
  <2>5. f \in Bijection(Places(s, 2), Places(t, 1))
    BY <2>2, <2>3, <2>4 DEF Bijection, Injection, Surjection, IsInjective
  <2> QED BY <2>5 DEF ExistsBijection
<1>3. IsFiniteSet(Places(s, 2)) /\ Cardinality(Places(s, 2)) \in Nat
  BY PlacesFinite
<1>4. Cardinality(Places(t, 1)) = Cardinality(Places(s, 2))
  BY <1>2, <1>3, FS_Bijection
<1>5. 1 \notin Places(s, 2)
  BY DEF Places
<1>6. Cardinality(Places(s, 1)) = Cardinality(Places(s, 2)) + (IF IsAnswer(s[1]) THEN 1 ELSE 0)
  <2>1. CASE IsAnswer(s[1])
    <3>1. Places(s, 1) = Places(s, 2) \cup {1}
      BY <1>1, <2>1 DEF Places
    <3> QED BY <3>1, <2>1, <1>3, <1>5, FS_AddElement
  <2>2. CASE ~IsAnswer(s[1])
    <3>1. Places(s, 1) = Places(s, 2)
      BY <1>1, <2>2 DEF Places
    <3> QED BY <3>1, <2>2, <1>3
  <2> QED BY <2>1, <2>2
<1>7. Answers(t) = Cardinality(Places(t, 1)) /\ Answers(s) = Cardinality(Places(s, 1))
  BY <1>1, AnswersAre
<1> QED BY <1>1, <1>3, <1>4, <1>6, <1>7 DEF t, Places

\* Where no answer is counted, there is none.
LEMMA NoneOfThem ==
  ASSUME NEW s \in Seq(ItemType), Answers(s) = 0
  PROVE  \A i \in 1..Len(s) : ~IsAnswer(s[i])
<1>1. IsFiniteSet(Places(s, 1)) /\ Cardinality(Places(s, 1)) = 0
  BY PlacesFinite, AnswersAre
<1>2. Places(s, 1) = {}
  BY <1>1, FS_EmptySet
<1> QED BY <1>2 DEF Places

-----------------------------------------------------------------------------
(* Steps of methods.                                                       *)

\* An answer is an item, and an exception is no answer.
LEMMA ItemFacts ==
  /\ \A x \in AnswerType : x \in ItemType /\ IsAnswer(x) /\ x.code \in Codes /\ x.ok \in BOOLEAN
  /\ \A x \in ItemType : IsAnswer(x) => x \in AnswerType
  /\ Exception("error") \in ItemType /\ ~IsAnswer(Exception("error"))
  /\ Exception("end") \in ItemType /\ ~IsAnswer(Exception("end"))
BY DEF AnswerType, ItemType, IsAnswer, Exception, Codes, Exchanged, Confirmed, Queries, Reports,
   PortCommands, TransferCommands, SwdCommands, JtagCommands, SwoCommands

\* A step that is exchanged with the probe is no step of the host alone.
LEMMA CodeType ==
  \A step \in StepNames : Direct(step) => Code(step) \in Codes /\ step \notin Alone
BY DEF StepNames, Direct, Code, Codes, Alone, Exchanged, Confirmed, Queries, Reports,
   PortCommands, TransferCommands, SwdCommands, JtagCommands, SwoCommands

\* What Head and Tail of the steps are.
LEMMA TodoFacts ==
  ASSUME todo \in Seq(StepNames), ~Idle
  PROVE  /\ todo # << >>
         /\ Len(todo) \in Nat \ {0} /\ Head(todo) = todo[1] /\ Head(todo) \in StepNames
         /\ Tail(todo) \in Seq(StepNames) /\ Len(Tail(todo)) = Len(todo) - 1
         /\ \A i \in 1..Len(todo) - 1 : Tail(todo)[i] = todo[i + 1]
<1>1. todo # << >>
  BY DEF Idle
<1> QED BY <1>1, DropHead

\* When nothing remains, the order is kept.
LEMMA NothingLeft ==
  ASSUME todo' = << >>, waiting' = FALSE
  PROVE  /\ Idle' /\ TodoInOrder' /\ Weight' = 0 /\ todo' \in Seq(StepNames)
         /\ Len(todo') = 0
<1>1. Idle' /\ Weight' = 0 /\ ~At("interface")'
  BY DEF Idle, Weight, At
<1>2. Len(todo') = 0 /\ todo' \in Seq(StepNames)
  OBVIOUS
<1> QED BY <1>1, <1>2 DEF TodoInOrder

\* A step is done, and the next one follows it.
LEMMA DoneFacts ==
  ASSUME Types, TodoInOrder, ~Idle, Done
  PROVE  /\ TodoInOrder' /\ todo' \in Seq(StepNames) /\ waiting' = FALSE
         /\ ~Idle' => Follows(Head(todo), Head(todo')) /\ Head(todo') = todo[2] /\ Len(todo) > 1
         /\ Idle' => Len(todo) = 1 /\ Head(todo) \notin {"stop_swo", "stop", "off"}
         /\ Len(todo') = Len(todo) - 1
         /\ \A i \in 1..Len(todo') : todo'[i] = todo[i + 1]
<1> DEFINE n == Len(todo)
<1>1. todo \in Seq(StepNames) /\ todo' = Tail(todo) /\ waiting' = FALSE
  BY DEF Types, Done
<1>2. /\ n \in Nat \ {0} /\ Head(todo) = todo[1]
      /\ todo' \in Seq(StepNames) /\ Len(todo') = n - 1
      /\ \A i \in 1..n - 1 : todo'[i] = todo[i + 1]
  BY <1>1, TodoFacts
<1>3. /\ \A i \in 1..n - 1 : Follows(todo[i], todo[i + 1])
      /\ todo[n] \notin {"stop_swo", "stop", "off"}
  BY DEF TodoInOrder
<1>4. CASE n = 1
  <2>1. Len(todo') = 0
    BY <1>2, <1>4
  <2>2. todo' = << >>
    BY <1>2, <2>1, LenZero
  <2>3. Idle' /\ TodoInOrder'
    BY <1>1, <2>2, NothingLeft
  <2>4. Head(todo) \notin {"stop_swo", "stop", "off"}
    BY <1>2, <1>3, <1>4
  <2> QED BY <1>1, <1>2, <1>4, <2>3, <2>4
<1>5. CASE n > 1
  <2>1. todo' # << >> /\ 1 \in 1..n - 1
    BY <1>2, <1>5
  <2>2. ~Idle' /\ Head(todo') = todo'[1]
    BY <1>2, <2>1 DEF Idle
  <2>3. Head(todo') = todo[2] /\ Follows(Head(todo), todo[2])
    BY <1>2, <1>3, <2>1, <2>2
  <2>4. ~At("interface")'
    BY <2>3 DEF At, Follows
  <2>5. ASSUME NEW i \in 1..Len(todo') - 1 PROVE Follows(todo'[i], todo'[i + 1])
    <3>1. i \in 1..n - 1 /\ i + 1 \in 1..n - 1
      BY <1>2, <1>5
    <3>2. todo'[i] = todo[i + 1] /\ todo'[i + 1] = todo[(i + 1) + 1]
      BY <3>1, <1>2
    <3>3. Follows(todo[i + 1], todo[(i + 1) + 1])
      BY <3>1, <1>3
    <3> QED BY <3>2, <3>3
  <2>6. todo'[Len(todo')] = todo[n]
    <3>1. n - 1 \in 1..n - 1 /\ (n - 1) + 1 = n
      BY <1>2, <1>5
    <3> QED BY <3>1, <1>2
  <2>7. TodoInOrder'
    BY <1>1, <1>3, <2>4, <2>5, <2>6 DEF TodoInOrder
  <2> QED BY <1>1, <1>2, <1>5, <2>2, <2>3, <2>7
<1>6. n = 1 \/ n > 1
  BY <1>2
<1> QED BY <1>4, <1>5, <1>6

\* Each step that releases a permit uses up some of the weight.
LEMMA WeightFacts ==
  ASSUME Types, TodoInOrder
  PROVE  /\ Weight \in Nat /\ Len(todo) \in Nat
         /\ ~Idle /\ Head(todo) \notin {"thread", "discard"} => Weight > 0
BY TodoFacts DEF Types, Weight, WeightOf

\* The weight of one step and of the step that follows it.
LEMMA WeightStep ==
  ASSUME NEW n \in Nat, n > 1, NEW h, h = "interface" => n = 7,
         NEW k, Follows(h, k)
  PROVE  /\ WeightOf(h, n) \in Nat /\ WeightOf(k, n - 1) \in Nat
         /\ WeightOf(k, n - 1) <= WeightOf(h, n)
         /\ h \notin {"interface", "thread", "discard"}
              => WeightOf(k, n - 1) <= WeightOf(h, n) - 1
BY DEF WeightOf, Follows

\* A step that is done takes its weight with it.
LEMMA DoneWeight ==
  ASSUME Types, TodoInOrder, ~Idle, Done
  PROVE  /\ Weight \in Nat /\ Weight' \in Nat /\ Weight' <= Weight
         /\ Head(todo) \notin {"interface", "thread", "discard"} => Weight' <= Weight - 1
<1> DEFINE n == Len(todo)
           h == Head(todo)
           k == Head(todo')
<1>1. n \in Nat \ {0} /\ Weight = WeightOf(h, n) /\ (h = "interface" => n = 7)
  BY TodoFacts DEF Types, TodoInOrder, Weight, At
<1>2. CASE Idle'
  BY <1>2, WeightFacts DEF Weight
<1>3. CASE ~Idle'
  <2>1. Follows(h, k) /\ n > 1 /\ Weight' = WeightOf(k, n - 1)
    BY <1>3, DoneFacts DEF Weight
  <2> QED BY <1>1, <2>1, WeightStep
<1> QED BY <1>2, <1>3

\* Nothing remains of a method that raises.
LEMMA RaiseFacts ==
  ASSUME Raise
  PROVE  /\ TodoInOrder' /\ todo' \in Seq(StepNames) /\ Idle' /\ Len(todo') = 0
         /\ waiting' = FALSE /\ raised' = TRUE /\ Weight' = 0
<1>1. todo' = << >> /\ waiting' = FALSE /\ raised' = TRUE
  BY DEF Raise
<1> QED BY <1>1, NothingLeft

\* A list of steps that a method may begin with.
Begins(s) ==
  /\ s \in Seq(StepNames) /\ Len(s) \in 1..7
  /\ \A i \in 1..Len(s) - 1 : Follows(s[i], s[i + 1])
  /\ s[Len(s)] \notin {"stop_swo", "stop", "off"}
  /\ Head(s) \notin {"stop_swo", "stop", "join", "thread", "discard", "buffers"}
  /\ Head(s) = "interface" => Len(s) = 7
  /\ WeightOf(Head(s), Len(s)) \in 0..6

\* To start SWO, spelled out.
LEMMA SwoSteps ==
  SwoConfigure \o SwoControl = <<"transport", "mode", "baudrate", "control", "thread">>
<1> DEFINE S == {"transport", "mode", "baudrate", "control", "thread"}
           a == <<"transport", "mode", "baudrate">>
           b == <<"control", "thread">>
           c == <<"transport", "mode", "baudrate", "control", "thread">>
<1>1. /\ a \in Seq(S) /\ b \in Seq(S) /\ c \in Seq(S)
      /\ Len(a) = 3 /\ Len(b) = 2 /\ Len(c) = 5
  OBVIOUS
<1>2. a \o b \in Seq(S) /\ Len(a \o b) = 5 /\ \A i \in 1..5 : (a \o b)[i] = c[i]
  BY <1>1
<1>3. a \o b = c
  BY <1>1, <1>2, SeqEqual
<1> QED BY <1>3 DEF SwoConfigure, SwoControl

Start == <<"transport", "mode", "baudrate", "control", "thread">>

\* The methods, spelled out.
LEMMA StepsAre ==
  ASSUME NEW method \in Methods
  PROVE  LET s == Steps(method) IN
         \/ method = "open" /\ s = Opening
         \/ method = "swo_start" /\ s = Start
         \/ /\ method \notin {"open", "swo_start"}
            /\ \/ s = Closing \/ s = Connecting \/ s = SwdSequence \/ s = JtagSequence
               \/ s = SwoDisable \/ s = <<"flush", "pins", "pins">>
               \/ s = <<"flush", "disconnect">> \/ s = <<"flush", "clock">>
               \/ \E only \in {"packet", "flush", "vendor", "swo_data", "data", "status"} :
                    s = <<only>>
BY SwoSteps, Zenon DEF Methods, Steps, SwoRead, Start

\* The lists of the methods begin as they may; the thread is only started by
\* swo_start.
OfOther(s) == Begins(s) /\ Head(s) # "interface" /\ \A i \in 1..Len(s) : s[i] # "thread"

LEMMA ListsBegin ==
  /\ Begins(Opening) /\ Head(Opening) = "interface"
  /\ \A i \in 1..Len(Opening) : Opening[i] # "thread"
  /\ Begins(Start) /\ Head(Start) # "interface"
  /\ OfOther(Closing) /\ OfOther(Connecting) /\ OfOther(SwdSequence) /\ OfOther(JtagSequence)
  /\ OfOther(SwoDisable) /\ OfOther(<<"flush", "pins", "pins">>)
  /\ OfOther(<<"flush", "disconnect">>) /\ OfOther(<<"flush", "clock">>)
  /\ \A only \in {"packet", "flush", "vendor", "swo_data", "data", "status"} : OfOther(<<only>>)
<1>1. /\ {"interface", "info", "buffers", "flush", "stop_swo", "stop", "join", "connect"}
            \subseteq StepNames
      /\ {"clock", "configure", "swd", "sequence", "jtag", "off", "unroute", "transport"}
            \subseteq StepNames
      /\ {"mode", "baudrate", "control", "thread", "pins", "disconnect", "packet", "vendor"}
            \subseteq StepNames
      /\ {"swo_data", "data", "status"} \subseteq StepNames
  BY DEF StepNames, Alone, Exchanged, Confirmed, Queries, Reports, PortCommands,
     TransferCommands, SwdCommands, JtagCommands, SwoCommands
<1>2. /\ Begins(Opening) /\ Head(Opening) = "interface"
      /\ \A i \in 1..Len(Opening) : Opening[i] # "thread"
  <2>1. PICK s : s = <<"interface", "info", "info", "info", "info", "buffers", "info">>
    OBVIOUS
  <2>2. /\ s \in Seq(StepNames) /\ Len(s) = 7 /\ Head(s) = s[1]
        /\ s[1] = "interface" /\ s[2] = "info" /\ s[3] = "info" /\ s[4] = "info"
        /\ s[5] = "info" /\ s[6] = "buffers" /\ s[7] = "info"
    BY <1>1, <2>1
  <2>3. \A i \in 1..Len(s) : i \in {1, 2, 3, 4, 5, 6, 7}
    BY <2>2
  <2>4. Begins(s)
    BY <2>2, <2>3 DEF Begins, Follows, WeightOf
  <2>5. Head(s) = "interface" /\ \A i \in 1..Len(s) : s[i] # "thread"
    BY <2>2, <2>3
  <2> QED BY <2>1, <2>4, <2>5, Zenon DEF Opening
<1>3. Begins(Start) /\ Head(Start) # "interface"
  <2>1. PICK s : s = <<"transport", "mode", "baudrate", "control", "thread">>
    OBVIOUS
  <2>2. /\ s \in Seq(StepNames) /\ Len(s) = 5 /\ Head(s) = s[1]
        /\ s[1] = "transport" /\ s[2] = "mode" /\ s[3] = "baudrate" /\ s[4] = "control"
        /\ s[5] = "thread"
    BY <1>1, <2>1
  <2>3. \A i \in 1..Len(s) : i \in {1, 2, 3, 4, 5}
    BY <2>2
  <2>4. Begins(s)
    BY <2>2, <2>3 DEF Begins, Follows, WeightOf
  <2>5. Head(s) # "interface"
    BY <2>2, <2>3
  <2> QED BY <2>1, <2>4, <2>5, Zenon DEF Start
<1>4. OfOther(Closing)
  <2>1. PICK s : s = <<"flush", "stop_swo", "stop", "join">>
    OBVIOUS
  <2>2. /\ s \in Seq(StepNames) /\ Len(s) = 4 /\ Head(s) = s[1]
        /\ s[1] = "flush" /\ s[2] = "stop_swo" /\ s[3] = "stop" /\ s[4] = "join"
    BY <1>1, <2>1
  <2>3. \A i \in 1..Len(s) : i \in {1, 2, 3, 4}
    BY <2>2
  <2>4. Begins(s)
    BY <2>2, <2>3 DEF Begins, Follows, WeightOf
  <2>5. Head(s) # "interface" /\ \A i \in 1..Len(s) : s[i] # "thread"
    BY <2>2, <2>3
  <2> QED BY <2>1, <2>4, <2>5, Zenon DEF OfOther, Closing
<1>5. OfOther(Connecting)
  <2>1. PICK s : s = <<"connect", "clock", "configure">>
    OBVIOUS
  <2>2. /\ s \in Seq(StepNames) /\ Len(s) = 3 /\ Head(s) = s[1]
        /\ s[1] = "connect" /\ s[2] = "clock" /\ s[3] = "configure"
    BY <1>1, <2>1
  <2>3. \A i \in 1..Len(s) : i \in {1, 2, 3}
    BY <2>2
  <2>4. Begins(s)
    BY <2>2, <2>3 DEF Begins, Follows, WeightOf
  <2>5. Head(s) # "interface" /\ \A i \in 1..Len(s) : s[i] # "thread"
    BY <2>2, <2>3
  <2> QED BY <2>1, <2>4, <2>5, Zenon DEF OfOther, Connecting
<1>6. OfOther(SwdSequence)
  <2>1. PICK s : s = <<"swd", "sequence", "sequence", "sequence", "sequence">>
    OBVIOUS
  <2>2. /\ s \in Seq(StepNames) /\ Len(s) = 5 /\ Head(s) = s[1]
        /\ s[1] = "swd" /\ s[2] = "sequence" /\ s[3] = "sequence" /\ s[4] = "sequence"
        /\ s[5] = "sequence"
    BY <1>1, <2>1
  <2>3. \A i \in 1..Len(s) : i \in {1, 2, 3, 4, 5}
    BY <2>2
  <2>4. Begins(s)
    BY <2>2, <2>3 DEF Begins, Follows, WeightOf
  <2>5. Head(s) # "interface" /\ \A i \in 1..Len(s) : s[i] # "thread"
    BY <2>2, <2>3
  <2> QED BY <2>1, <2>4, <2>5, Zenon DEF OfOther, SwdSequence
<1>7. OfOther(JtagSequence)
  <2>1. PICK s : s = <<"jtag", "sequence">>
    OBVIOUS
  <2>2. /\ s \in Seq(StepNames) /\ Len(s) = 2 /\ Head(s) = s[1]
        /\ s[1] = "jtag" /\ s[2] = "sequence"
    BY <1>1, <2>1
  <2>3. \A i \in 1..Len(s) : i \in {1, 2}
    BY <2>2
  <2>4. Begins(s)
    BY <2>2, <2>3 DEF Begins, Follows, WeightOf
  <2>5. Head(s) # "interface" /\ \A i \in 1..Len(s) : s[i] # "thread"
    BY <2>2, <2>3
  <2> QED BY <2>1, <2>4, <2>5, Zenon DEF OfOther, JtagSequence
<1>8. OfOther(SwoDisable)
  <2>1. PICK s : s = <<"off", "unroute">>
    OBVIOUS
  <2>2. /\ s \in Seq(StepNames) /\ Len(s) = 2 /\ Head(s) = s[1]
        /\ s[1] = "off" /\ s[2] = "unroute"
    BY <1>1, <2>1
  <2>3. \A i \in 1..Len(s) : i \in {1, 2}
    BY <2>2
  <2>4. Begins(s)
    BY <2>2, <2>3 DEF Begins, Follows, WeightOf
  <2>5. Head(s) # "interface" /\ \A i \in 1..Len(s) : s[i] # "thread"
    BY <2>2, <2>3
  <2> QED BY <2>1, <2>4, <2>5, Zenon DEF OfOther, SwoDisable
<1>9. OfOther(<<"flush", "pins", "pins">>)
  <2>1. PICK s : s = <<"flush", "pins", "pins">>
    OBVIOUS
  <2>2. /\ s \in Seq(StepNames) /\ Len(s) = 3 /\ Head(s) = s[1]
        /\ s[1] = "flush" /\ s[2] = "pins" /\ s[3] = "pins"
    BY <1>1, <2>1
  <2>3. \A i \in 1..Len(s) : i \in {1, 2, 3}
    BY <2>2
  <2>4. Begins(s)
    BY <2>2, <2>3 DEF Begins, Follows, WeightOf
  <2>5. Head(s) # "interface" /\ \A i \in 1..Len(s) : s[i] # "thread"
    BY <2>2, <2>3
  <2> QED BY <2>1, <2>4, <2>5, Zenon DEF OfOther
<1>10. OfOther(<<"flush", "disconnect">>)
  <2>1. PICK s : s = <<"flush", "disconnect">>
    OBVIOUS
  <2>2. /\ s \in Seq(StepNames) /\ Len(s) = 2 /\ Head(s) = s[1]
        /\ s[1] = "flush" /\ s[2] = "disconnect"
    BY <1>1, <2>1
  <2>3. \A i \in 1..Len(s) : i \in {1, 2}
    BY <2>2
  <2>4. Begins(s)
    BY <2>2, <2>3 DEF Begins, Follows, WeightOf
  <2>5. Head(s) # "interface" /\ \A i \in 1..Len(s) : s[i] # "thread"
    BY <2>2, <2>3
  <2> QED BY <2>1, <2>4, <2>5, Zenon DEF OfOther
<1>11. OfOther(<<"flush", "clock">>)
  <2>1. PICK s : s = <<"flush", "clock">>
    OBVIOUS
  <2>2. /\ s \in Seq(StepNames) /\ Len(s) = 2 /\ Head(s) = s[1]
        /\ s[1] = "flush" /\ s[2] = "clock"
    BY <1>1, <2>1
  <2>3. \A i \in 1..Len(s) : i \in {1, 2}
    BY <2>2
  <2>4. Begins(s)
    BY <2>2, <2>3 DEF Begins, Follows, WeightOf
  <2>5. Head(s) # "interface" /\ \A i \in 1..Len(s) : s[i] # "thread"
    BY <2>2, <2>3
  <2> QED BY <2>1, <2>4, <2>5, Zenon DEF OfOther
<1>12. ASSUME NEW only \in {"packet", "flush", "vendor", "swo_data", "data", "status"}
       PROVE  OfOther(<<only>>)
  <2>1. PICK s : s = <<only>>
    OBVIOUS
  <2>2. s \in Seq(StepNames) /\ Len(s) = 1 /\ Head(s) = s[1] /\ s[1] = only
    BY <1>1, <2>1
  <2>3. \A i \in 1..Len(s) : i = 1
    BY <2>2
  <2>4. Begins(s)
    BY <2>2, <2>3 DEF Begins, WeightOf
  <2>5. Head(s) # "interface" /\ \A i \in 1..Len(s) : s[i] # "thread"
    BY <2>2, <2>3
  <2> QED BY <2>1, <2>4, <2>5, Zenon DEF OfOther
<1> QED BY <1>2, <1>3, <1>4, <1>5, <1>6, <1>7, <1>8, <1>9, <1>10, <1>11, <1>12, Zenon

\* Every method begins as it may.
LEMMA StepsBegin ==
  ASSUME NEW method \in Methods
  PROVE  /\ Begins(Steps(method))
         /\ Head(Steps(method)) = "interface" <=> method = "open"
         /\ method # "swo_start" =>
              \A i \in 1..Len(Steps(method)) : Steps(method)[i] # "thread"
<1>1. PICK s : s = Steps(method)
  OBVIOUS
<1>2. CASE method = "open" /\ s = Opening
  BY <1>1, <1>2, ListsBegin, Zenon
<1>3. CASE method = "swo_start" /\ s = Start
  BY <1>1, <1>3, ListsBegin, Zenon
<1>4. CASE method \notin {"open", "swo_start"} /\ OfOther(s)
  BY <1>1, <1>4, Zenon DEF OfOther
<1> QED BY <1>1, <1>2, <1>3, <1>4, StepsAre, ListsBegin, Zenon

\* Which step a method has come to, when one is done.
LEMMA NextStep ==
  ASSUME Types, TodoInOrder, ~Idle, Done
  PROVE  /\ ~At("interface")' /\ ~At("flush")' /\ ~At("packet")' /\ ~At("swo_data")'
         /\ At("stop_swo")' => At("flush")
         /\ At("stop")' <=> At("stop_swo")
         /\ At("join")' <=> At("stop")
         /\ At("thread")' => At("control")
         /\ At("buffers")' => At("info")
         /\ At("discard")' <=> At("discard") /\ ~Idle'
         /\ HasThread' => HasThread /\ ~At("thread")
<1>1. ~Idle' => Follows(Head(todo), Head(todo'))
  BY DoneFacts
<1>2. /\ ~At("interface")' /\ ~At("flush")' /\ ~At("packet")' /\ ~At("swo_data")'
      /\ At("stop_swo")' => At("flush")
      /\ At("stop")' => At("stop_swo")
      /\ At("join")' => At("stop")
      /\ At("thread")' => At("control")
      /\ At("buffers")' => At("info")
      /\ At("discard")' => At("discard") /\ ~Idle'
  BY <1>1 DEF At, Follows
<1>3. /\ At("stop_swo") => At("stop")'
      /\ At("stop") => At("join")'
      /\ At("discard") /\ ~Idle' => At("discard")'
      /\ At("thread") => Idle'
  BY <1>1, DoneFacts DEF At, Follows
<1>4. HasThread' => HasThread /\ ~Idle'
  <2> SUFFICES ASSUME NEW i \in 1..Len(todo'), todo'[i] = "thread" PROVE HasThread /\ ~Idle'
    BY DEF HasThread
  <2>1. Len(todo') = Len(todo) - 1 /\ todo'[i] = todo[i + 1]
    BY DoneFacts
  <2>2. Len(todo) \in Nat
    BY DEF Types
  <2>3. i + 1 \in 1..Len(todo) /\ Len(todo') > 0
    BY <2>1, <2>2
  <2>4. todo' # << >>
    BY <2>3
  <2> QED BY <2>1, <2>3, <2>4 DEF HasThread, Idle
<1>5. At("stop")' <=> At("stop_swo")
  BY <1>2, <1>3
<1>6. At("join")' <=> At("stop")
  BY <1>2, <1>3
<1>7. At("discard")' <=> At("discard") /\ ~Idle'
  BY <1>2, <1>3
<1>8. HasThread' => HasThread /\ ~At("thread")
  BY <1>3, <1>4
<1> QED BY <1>2, <1>5, <1>6, <1>7, <1>8

\* A permit that is released was still to be released.
LEMMA PermitsSpent ==
  ASSUME Types, TodoInOrder, PermitsBounded,
         methods' = methods, waiting' = FALSE, Weight' \in Nat,
         \/ /\ Weight' <= Weight - 1
            /\ permits' = permits \/ (permits' = permits + 1 /\ ~waiting)
         \/ Weight' <= Weight /\ permits' = permits /\ ~waiting
  PROVE  PermitsBounded'
<1>1. permits \in Nat /\ Weight \in Nat /\ methods \in Nat
  BY WeightFacts, ProbeLinkAssumption DEF Types, ProbeLinkAssumption
<1>2. /\ waiting => permits + Weight <= 6 * methods + 1
      /\ ~waiting => permits + Weight <= 6 * methods + 0
  BY DEF PermitsBounded
<1>3. \A w \in Nat, q \in Nat :
        \/ w <= Weight - 1 /\ (q = permits \/ (q = permits + 1 /\ ~waiting))
        \/ w <= Weight /\ q = permits /\ ~waiting
        => q + w <= 6 * methods + 0
  BY <1>1, <1>2
<1>4. permits' \in Nat
  BY <1>1
<1>5. permits' + Weight' <= 6 * methods + 0
  BY <1>3, <1>4
<1>6. (IF waiting' THEN 1 ELSE 0) = 0
  OBVIOUS
<1> QED BY <1>5, <1>6 DEF PermitsBounded

\* A method that raises has come to no step.
LEMMA NoStep ==
  ASSUME Raise
  PROVE  (\A step : ~At(step)') /\ ~HasThread'
BY RaiseFacts DEF At, HasThread

\* A command is no step of the host alone.
LEMMA CommandStep ==
  ASSUME Types, TodoInOrder, ~Idle, Direct(Head(todo))
  PROVE  Code(Head(todo)) \in Codes /\ \A step \in Alone : ~At(step)
BY TodoFacts, CodeType DEF Types, At

\* No answer is awaited in a step of the host alone.
LEMMA NotWaiting ==
  ASSUME Types, TodoInOrder, NEW step \in Alone, At(step)
  PROVE  ~waiting /\ ~Idle
BY CommandStep DEF TodoInOrder, At

-----------------------------------------------------------------------------
(* The initial states, and the steps one by one.                           *)

LEMMA InitInv == ProbeInit => IInv
<1> SUFFICES ASSUME ProbeInit PROVE IInv
  OBVIOUS
<1>1. Types
  <2>1. /\ received = << >> /\ endpoint = << >> /\ executing = << >> /\ todo = << >>
        /\ owed = << >> /\ Len(owed) <= PacketCount
    BY ProbeLinkAssumption DEF ProbeInit, ProbeLinkAssumption
  <2>2. /\ received \in Seq(ItemType) /\ endpoint \in Seq(AnswerType)
        /\ executing \in Seq(Codes) /\ todo \in Seq(StepNames) /\ owed \in Seq({"packet"})
    BY <2>1
  <2>3. methods \in 0..MaxMethods /\ faults \in 0..MaxFaults
    BY ProbeLinkAssumption DEF ProbeInit, ProbeLinkAssumption
  <2> QED BY <2>1, <2>2, <2>3 DEF ProbeInit, Types
<1>2. Idle /\ Weight = 0 /\ ~waiting /\ \A step : ~At(step)
  BY DEF ProbeInit, Idle, At, Weight
<1>3. TodoInOrder
  BY <1>2 DEF ProbeInit, TodoInOrder
<1>4. PermitsBounded /\ Closed /\ Unopened
  BY <1>2 DEF ProbeInit, PermitsBounded, Closed, Unopened
<1>5. AnswersCounted
  BY <1>2, NoAnswers DEF ProbeInit, AnswersCounted, OnItsWay, ToRead
<1>6. CalledInPlace /\ Permitted /\ OneSwoThread
  BY <1>2 DEF ProbeInit, CalledInPlace, Permitted, OneSwoThread, HasThread, Idle
<1>7. AllExpected
  BY DEF ProbeInit, AllExpected
<1> QED BY <1>1, <1>3, <1>4, <1>5, <1>6, <1>7 DEF ProbeInit, IInv, Unexcused, OwnAnswers

\* A method is called; out of its place, it is excused.
LEMMA CallMethodStep ==
  ASSUME IInv, NEW method \in Methods, CallMethod(method)
  PROVE  IInv'
<1> USE DEF IInv
<1> DEFINE s == Steps(method)
<1>1. /\ Idle /\ todo' = s /\ methods' = methods + 1 /\ methods < MaxMethods
      /\ method # "open" => opened > 0
      /\ UNCHANGED <<backend, closed, rx, stop, permits, received, executing, endpoint>>
      /\ UNCHANGED <<waiting, owed, buffers, swo, orphans, swoEvent, swoOver>>
      /\ UNCHANGED <<outOfStep, misread, raised, opened, faults>>
  BY DEF CallMethod, interface, probe, trace
<1>2. closed \in BOOLEAN /\ excused \in BOOLEAN /\ opened \in Nat /\ methods \in Nat
  BY ProbeLinkAssumption DEF Types, ProbeLinkAssumption
<1>3. /\ excused' \in BOOLEAN
      /\ ~excused' => /\ ~excused /\ (closed <=> method = "open")
                      /\ (method = "open" => ~(opened > 0)) /\ (method # "open" => buffers)
                      /\ (method = "swo_start" => swo # "reading")
  BY <1>2 DEF CallMethod
<1>4. /\ s \in Seq(StepNames) /\ Len(s) \in 1..7 /\ s # << >>
      /\ \A i \in 1..Len(s) - 1 : Follows(s[i], s[i + 1])
      /\ s[Len(s)] \notin {"stop_swo", "stop", "off"}
      /\ Head(s) \notin {"stop_swo", "stop", "join", "thread", "discard", "buffers"}
      /\ Head(s) = "interface" => Len(s) = 7
      /\ WeightOf(Head(s), Len(s)) \in 0..6
      /\ Head(s) = "interface" <=> method = "open"
      /\ method # "swo_start" => \A i \in 1..Len(s) : s[i] # "thread"
  BY StepsBegin DEF Begins
<1>5. ~waiting
  BY <1>1 DEF TodoInOrder
<1> HIDE DEF s
<1>6. ~Idle' /\ Head(todo') = Head(s) /\ Weight = 0 /\ Weight' \in 0..6
  BY <1>1, <1>4 DEF Idle, Weight
<1>7. /\ ~At("stop_swo")' /\ ~At("stop")' /\ ~At("join")' /\ ~At("thread")' /\ ~At("discard")'
      /\ ~At("buffers")'
      /\ At("interface")' <=> method = "open"
      /\ At("flush")' \/ At("packet")' => method # "open"
      /\ ~At("stop_swo") /\ ~At("stop") /\ ~At("join") /\ ~At("thread") /\ ~At("discard")
      /\ ~At("interface")
  BY <1>1, <1>4, <1>6 DEF At
<1>8. Types'
  BY <1>1, <1>4, <1>3, ProbeLinkAssumption DEF Types, ProbeLinkAssumption
<1>9. TodoInOrder'
  BY <1>1, <1>4, <1>5, <1>6 DEF TodoInOrder, At
<1>10. PermitsBounded'
  <2>1. permits <= 6 * methods /\ permits \in Nat
    BY <1>5, <1>6 DEF PermitsBounded, Types
  <2>2. permits' = permits /\ ~waiting' /\ methods' = methods + 1 /\ Weight' \in Nat /\ Weight' <= 6
    BY <1>1, <1>5, <1>6
  <2>3. permits + Weight' <= 6 * (methods + 1)
    <3>1. \A p, w, m \in Nat : p <= 6 * m /\ w <= 6 => p + w <= 6 * (m + 1)
      OBVIOUS
    <3> QED BY <1>2, <2>1, <2>2, <3>1
  <2> QED BY <1>2, <2>2, <2>3 DEF PermitsBounded
<1>11. Closed'
  BY <1>1, <1>5, <1>7 DEF Closed
<1>12. Unopened'
  BY <1>1, <1>7 DEF Unopened
<1>13. AnswersCounted'
  BY <1>1, <1>5, <1>7 DEF AnswersCounted, OnItsWay, ToRead, Answers
<1>14. Unexcused'
  <2> SUFFICES ASSUME ~excused' PROVE CalledInPlace' /\ Permitted' /\ AllExpected' /\ OneSwoThread'
    BY DEF Unexcused
  <2>1. CalledInPlace /\ Permitted /\ AllExpected /\ OneSwoThread
    BY <1>3 DEF Unexcused
  <2>2. CalledInPlace'
    BY <1>1, <1>7, <1>2, <1>3, <2>1 DEF CalledInPlace
  <2>3. Permitted'
    BY <1>1, <2>1 DEF Permitted
  <2>4. AllExpected'
    BY <1>1, <1>5, <2>1 DEF AllExpected, Good, Expected
  <2>5. OneSwoThread'
    BY <1>1, <1>4, <1>7, <1>3, <2>1 DEF OneSwoThread, HasThread
  <2> QED BY <2>2, <2>3, <2>4, <2>5
<1>15. OwnAnswers'
  BY <1>1 DEF OwnAnswers
<1> QED BY <1>8, <1>9, <1>10, <1>11, <1>12, <1>13, <1>14, <1>15

\* The steps of the method in progress stay what they are.
LEMMA TodoFrame ==
  ASSUME UNCHANGED <<todo, waiting>>, TodoInOrder
  PROVE  /\ TodoInOrder' /\ Weight' = Weight /\ Expected' = Expected
         /\ (Idle' <=> Idle) /\ \A step : (At(step)' <=> At(step))
BY DEF TodoInOrder, Weight, Expected, Idle, At

\* The thread looks at the event, and says when it ends.
LEMMA RxLoopStep ==
  ASSUME IInv, RxLoop
  PROVE  IInv'
<1> USE DEF IInv
<1>1. /\ rx = "loop" /\ rx' \in {"acquire", "ended"}
      /\ IF stop THEN received' = Append(received, Exception("end")) ELSE received' = received
      /\ UNCHANGED <<backend, closed, stop, executing, todo, waiting, owed, buffers>>
      /\ UNCHANGED <<swo, orphans, swoEvent, swoOver, outOfStep, misread, raised, opened, methods>>
      /\ UNCHANGED <<permits, endpoint, excused, faults>>
  BY DEF RxLoop, RxOnly, host, trace
<1>2. /\ received \in Seq(ItemType) /\ Exception("end") \in ItemType
      /\ ~IsAnswer(Exception("end"))
  BY ItemFacts DEF Types
<1>3. received' \in Seq(ItemType) /\ Answers(received') = Answers(received)
  <2>1. Append(received, Exception("end")) \in Seq(ItemType)
    BY <1>2, AppendProperties
  <2>2. Answers(Append(received, Exception("end"))) = Answers(received)
    BY <1>2, AnswersAppend, AnswersAre
  <2> QED BY <1>1, <1>2, <2>1, <2>2
<1>4. Types'
  BY <1>1, <1>3 DEF Types
<1>5. TodoInOrder' /\ PermitsBounded' /\ \A step : (At(step)' <=> At(step))
  BY <1>1, TodoFrame DEF PermitsBounded
<1>6. Closed'
  BY <1>1, <1>5 DEF Closed
<1>7. Unopened' /\ OwnAnswers'
  BY <1>1 DEF Unopened, Closed, OwnAnswers
<1>8. AnswersCounted'
  BY <1>1, <1>3, <1>5 DEF AnswersCounted, OnItsWay, ToRead
<1>9. Unexcused'
  <2> SUFFICES ASSUME ~excused' PROVE CalledInPlace' /\ Permitted' /\ AllExpected' /\ OneSwoThread'
    BY DEF Unexcused
  <2>1. CalledInPlace /\ Permitted /\ AllExpected /\ OneSwoThread
    BY <1>1 DEF Unexcused
  <2>2. CalledInPlace'
    BY <1>1, <1>5, <2>1, TodoFrame DEF CalledInPlace
  <2>3. Permitted'
    BY <1>1, <2>1 DEF Permitted
  <2>4. AllExpected'
    BY <1>1, <2>1, TodoFrame DEF AllExpected, Good, Closed
  <2>5. OneSwoThread'
    BY <1>1, <1>5, <2>1 DEF OneSwoThread, HasThread
  <2> QED BY <2>2, <2>3, <2>4, <2>5
<1> QED BY <1>4, <1>5, <1>6, <1>7, <1>8, <1>9

\* The thread takes a permit, and reads unless it was woken to end.
LEMMA RxAcquireStep ==
  ASSUME IInv, RxAcquire
  PROVE  IInv'
<1> USE DEF IInv
<1>1. /\ rx = "acquire" /\ permits > 0 /\ permits' = permits - 1
      /\ rx' = IF stop THEN "loop" ELSE "reading"
      /\ UNCHANGED <<backend, closed, stop, executing, todo, waiting, owed, buffers>>
      /\ UNCHANGED <<swo, orphans, swoEvent, swoOver, outOfStep, misread, raised, opened, methods>>
      /\ UNCHANGED <<received, endpoint, excused, faults>>
  BY DEF RxAcquire, RxOnly, host, trace
<1>2. permits \in Nat /\ permits' \in Nat /\ Weight \in Nat /\ methods \in Nat
  BY <1>1, WeightFacts, ProbeLinkAssumption DEF Types, ProbeLinkAssumption
<1>3. Types'
  BY <1>1, <1>2 DEF Types
<1>4. TodoInOrder' /\ Weight' = Weight /\ \A step : (At(step)' <=> At(step))
  BY <1>1, TodoFrame
<1>5. PermitsBounded'
  BY <1>1, <1>2, <1>4 DEF PermitsBounded
<1>6. Closed'
  BY <1>1, <1>4 DEF Closed
<1>7. Unopened' /\ OwnAnswers'
  BY <1>1 DEF Unopened, OwnAnswers
<1>8. AnswersCounted'
  BY <1>1, <1>4 DEF AnswersCounted, OnItsWay, ToRead, Answers
<1>9. Unexcused'
  <2> SUFFICES ASSUME ~excused' PROVE CalledInPlace' /\ Permitted' /\ AllExpected' /\ OneSwoThread'
    BY DEF Unexcused
  <2>1. CalledInPlace /\ Permitted /\ AllExpected /\ OneSwoThread
    BY <1>1 DEF Unexcused
  <2>2. CalledInPlace'
    BY <1>1, <1>4, <2>1, TodoFrame DEF CalledInPlace
  <2>3. Permitted'
    BY <1>1, <1>2, <2>1 DEF Permitted
  <2>4. AllExpected'
    BY <1>1, <2>1, TodoFrame DEF AllExpected, Good
  <2>5. OneSwoThread'
    BY <1>1, <1>4, <2>1 DEF OneSwoThread, HasThread
  <2> QED BY <2>2, <2>3, <2>4, <2>5
<1> QED BY <1>3, <1>4, <1>5, <1>6, <1>7, <1>8, <1>9

\* The thread moves an answer from the endpoint to what was received.
LEMMA RxReadsStep ==
  ASSUME IInv, RxReads
  PROVE  IInv'
<1> USE DEF IInv
<1> DEFINE a == Head(endpoint)
<1>1. /\ rx = "reading" /\ rx' = "loop" /\ endpoint # << >>
      /\ received' = Append(received, a) /\ endpoint' = Tail(endpoint)
      /\ UNCHANGED <<backend, closed, stop, executing, todo, waiting, owed, buffers>>
      /\ UNCHANGED <<swo, orphans, swoEvent, swoOver, outOfStep, misread, raised, opened, methods>>
      /\ UNCHANGED <<permits, excused, faults>>
  BY DEF RxReads, RxOnly, host, trace
<1>2. /\ endpoint \in Seq(AnswerType) /\ received \in Seq(ItemType) /\ permits \in Nat
      /\ executing \in Seq(Codes)
  BY DEF Types
<1>3. /\ a = endpoint[1] /\ a \in AnswerType
      /\ endpoint' \in Seq(AnswerType) /\ Len(endpoint') = Len(endpoint) - 1
      /\ Len(endpoint) \in Nat \ {0} /\ Len(executing) \in Nat
      /\ \A i \in 1..Len(endpoint) - 1 : endpoint'[i] = endpoint[i + 1]
  BY <1>1, <1>2, DropHead
<1>4. a \in ItemType /\ IsAnswer(a)
  BY <1>3, ItemFacts
<1> HIDE DEF a
<1>5. /\ received' \in Seq(ItemType) /\ Len(received') = Len(received) + 1
      /\ Len(received) \in Nat /\ received'[Len(received) + 1] = a
      /\ \A i \in 1..Len(received) : received'[i] = received[i]
  BY <1>1, <1>2, <1>4, AppendProperties
<1>6. Answers(received') = Answers(received) + 1 /\ Answers(received) \in Nat
  BY <1>1, <1>2, <1>4, AnswersAppend, AnswersAre
<1>7. Types'
  BY <1>1, <1>3, <1>5 DEF Types
<1>8. TodoInOrder' /\ PermitsBounded' /\ \A step : (At(step)' <=> At(step))
  BY <1>1, TodoFrame DEF PermitsBounded
<1>9. Closed'
  BY <1>1, <1>8 DEF Closed
<1>10. Unopened' /\ OwnAnswers'
  BY <1>1 DEF Unopened, OwnAnswers
<1>11. AnswersCounted'
  <2>1. OnItsWay' = OnItsWay
    BY <1>1, <1>3, <1>6 DEF OnItsWay
  <2>2. ToRead' = ToRead
    BY <1>1, <1>8 DEF ToRead
  <2> QED BY <1>1, <1>8, <2>1, <2>2 DEF AnswersCounted
<1>12. Unexcused'
  <2> SUFFICES ASSUME ~excused' PROVE CalledInPlace' /\ Permitted' /\ AllExpected' /\ OneSwoThread'
    BY DEF Unexcused
  <2>1. CalledInPlace /\ Permitted /\ AllExpected /\ OneSwoThread
    BY <1>1 DEF Unexcused
  <2>2. CalledInPlace'
    BY <1>1, <1>8, <2>1, TodoFrame DEF CalledInPlace
  <2>3. Permitted'
    BY <1>1, <1>2, <1>3, <2>1 DEF Permitted
  <2>4. AllExpected'
    <3>1. \A x : Good(x)' <=> Good(x)
      BY <1>1, TodoFrame DEF Good
    <3>2. \A i \in 1..Len(endpoint') : Good(endpoint'[i])
      BY <1>3, <2>1 DEF AllExpected
    <3>3. ~closed => \A i \in 1..Len(received') : Good(received'[i])
      BY <1>3, <1>5, <2>1 DEF AllExpected
    <3> QED BY <1>1, <2>1, <3>1, <3>2, <3>3, TodoFrame DEF AllExpected, Good
  <2>5. OneSwoThread'
    BY <1>1, <1>8, <2>1 DEF OneSwoThread, HasThread
  <2> QED BY <2>2, <2>3, <2>4, <2>5
<1> QED BY <1>7, <1>8, <1>9, <1>10, <1>11, <1>12

\* A read that times out is excused: there is a permit for each command.
LEMMA RxTimesOutStep ==
  ASSUME IInv, RxTimesOut
  PROVE  IInv'
<1> USE DEF IInv
<1>1. /\ rx = "reading" /\ rx' = "loop" /\ endpoint = << >>
      /\ received' = Append(received, Exception("error"))
      /\ UNCHANGED <<backend, closed, stop, executing, todo, waiting, owed, buffers>>
      /\ UNCHANGED <<swo, orphans, swoEvent, swoOver, outOfStep, misread, raised, opened, methods>>
      /\ UNCHANGED <<permits, endpoint>>
      /\ faults' \in 0..MaxFaults
  BY ProbeLinkAssumption
     DEF RxTimesOut, RxOnly, host, trace, Fault, NoFault, Types, ProbeLinkAssumption
<1>2. received' \in Seq(ItemType) /\ Answers(received') = Answers(received)
  <2>1. received \in Seq(ItemType)
    BY DEF Types
  <2>2. Append(received, Exception("error")) \in Seq(ItemType)
    BY <2>1, ItemFacts, AppendProperties
  <2>3. Answers(Append(received, Exception("error"))) = Answers(received)
    BY <2>1, ItemFacts, AnswersAppend, AnswersAre
  <2> QED BY <1>1, <2>2, <2>3
<1>3. excused'
  <2>1. CASE executing # << >>
    BY <2>1 DEF RxTimesOut
  <2>2. CASE executing = << >>
    <3>1. excused' = excused /\ Len(executing) = 0 /\ Len(endpoint) = 0
      BY <2>2, <1>1 DEF RxTimesOut
    <3>2. permits \in Nat /\ backend = "pyusb"
      BY <1>1 DEF Types, Closed
    <3>3. ~Permitted
      BY <1>1, <3>1, <3>2 DEF Permitted
    <3> QED BY <3>1, <3>3 DEF Unexcused
  <2> QED BY <2>1, <2>2
<1>4. excused' \in BOOLEAN
  BY DEF RxTimesOut, NoFault, Types
<1>5. Types'
  BY <1>1, <1>2, <1>4 DEF Types
<1>6. TodoInOrder' /\ PermitsBounded' /\ \A step : (At(step)' <=> At(step))
  BY <1>1, TodoFrame DEF PermitsBounded
<1>7. Closed'
  BY <1>1, <1>6 DEF Closed
<1>8. Unopened' /\ OwnAnswers' /\ Unexcused'
  BY <1>1, <1>3 DEF Unopened, OwnAnswers, Unexcused
<1>9. AnswersCounted'
  BY <1>1, <1>2, <1>6 DEF AnswersCounted, OnItsWay, ToRead
<1> QED BY <1>5, <1>6, <1>7, <1>8, <1>9

\* A thread that ends says so; of the threads nobody will join there is none
\* until something excuses it.
LEMMA SwoThreadStep ==
  ASSUME IInv, SwoThread
  PROVE  IInv'
<1> USE DEF IInv
<1>1. /\ swoEvent # "clear" /\ swoOver' = TRUE
      /\ UNCHANGED <<backend, closed, rx, stop, permits, received, executing, endpoint, swoEvent>>
      /\ UNCHANGED <<todo, waiting, owed, buffers, outOfStep, misread, raised, excused>>
      /\ UNCHANGED <<opened, methods, faults>>
      /\ \/ swo = "reading" /\ swoEvent = "set" /\ swo' = "ended" /\ orphans' = orphans
         \/ orphans > 0 /\ orphans' = orphans - 1 /\ swo' = swo
  BY DEF SwoThread, interface, probe, host, history
<1>2. Types'
  BY <1>1 DEF Types
<1>3. TodoInOrder' /\ PermitsBounded' /\ \A step : (At(step)' <=> At(step))
  BY <1>1, TodoFrame DEF PermitsBounded
<1>4. Closed'
  BY <1>1, <1>3 DEF Closed
<1>5. Unopened'
  <2>1. CASE opened = 0
    BY <1>1, <2>1 DEF Unopened, Closed
  <2> QED BY <1>1, <2>1 DEF Unopened
<1>6. AnswersCounted' /\ OwnAnswers'
  BY <1>1, <1>3 DEF AnswersCounted, OnItsWay, ToRead, Answers, OwnAnswers
<1>7. Unexcused'
  <2> SUFFICES ASSUME ~excused' PROVE CalledInPlace' /\ Permitted' /\ AllExpected' /\ OneSwoThread'
    BY DEF Unexcused
  <2>1. CalledInPlace /\ Permitted /\ AllExpected /\ OneSwoThread
    BY <1>1 DEF Unexcused
  <2>2. CalledInPlace'
    BY <1>1, <1>3, <2>1, TodoFrame DEF CalledInPlace
  <2>3. Permitted'
    BY <1>1, <2>1 DEF Permitted
  <2>4. AllExpected'
    BY <1>1, <2>1, TodoFrame DEF AllExpected, Good
  <2>5. OneSwoThread'
    BY <1>1, <1>3, <2>1 DEF OneSwoThread, HasThread
  <2> QED BY <2>2, <2>3, <2>4, <2>5
<1> QED BY <1>2, <1>3, <1>4, <1>5, <1>6, <1>7

\* The probe turns a command into its answer; of a closed interface it has
\* none to answer, unless one was given up.
LEMMA ProbeStep ==
  ASSUME IInv, NEW ok \in BOOLEAN, Probe(ok)
  PROVE  IInv'
<1> USE DEF IInv
<1> DEFINE a == [code |-> Head(executing), ok |-> ok]
<1>1. /\ executing # << >> /\ executing' = Tail(executing)
      /\ UNCHANGED <<backend, closed, rx, stop, permits, todo, waiting, owed, buffers>>
      /\ UNCHANGED <<swo, orphans, swoEvent, swoOver, outOfStep, misread, raised, opened, methods>>
      /\ faults' \in 0..MaxFaults
  BY ProbeLinkAssumption DEF Probe, host, trace, Fault, NoFault, Types, ProbeLinkAssumption
<1>2. excused' \in BOOLEAN /\ (~excused' => ~excused /\ ok)
  BY DEF Probe, Types
<1>3. /\ backend = "pyusb" => endpoint' = Append(endpoint, a) /\ received' = received
      /\ backend # "pyusb" => endpoint' = endpoint
      /\ backend # "pyusb" /\ closed => received' = received
      /\ backend # "pyusb" /\ ~closed => received' = Append(received, a)
  BY DEF Probe
<1>4. /\ endpoint \in Seq(AnswerType) /\ received \in Seq(ItemType)
      /\ executing \in Seq(Codes)
  BY DEF Types
<1>5. /\ executing' \in Seq(Codes) /\ Head(executing) = executing[1] /\ executing[1] \in Codes
      /\ Len(executing') = Len(executing) - 1
      /\ Len(executing) \in Nat \ {0} /\ Len(endpoint) \in Nat /\ Len(received) \in Nat
      /\ \A i \in 1..Len(executing) - 1 : executing'[i] = executing[i + 1]
  BY <1>1, <1>4, DropHead
<1>6. a \in AnswerType /\ a.code = executing[1] /\ a.ok = ok
  BY <1>5 DEF AnswerType, Codes
<1> HIDE DEF a
<1>7. a \in ItemType /\ IsAnswer(a)
  BY <1>6, ItemFacts
<1>8. /\ Append(endpoint, a) \in Seq(AnswerType)
      /\ Len(Append(endpoint, a)) = Len(endpoint) + 1
      /\ Append(endpoint, a)[Len(endpoint) + 1] = a
      /\ \A i \in 1..Len(endpoint) : Append(endpoint, a)[i] = endpoint[i]
  BY <1>4, <1>6, AppendProperties
<1>9. /\ Append(received, a) \in Seq(ItemType)
      /\ Len(Append(received, a)) = Len(received) + 1
      /\ Append(received, a)[Len(received) + 1] = a
      /\ \A i \in 1..Len(received) : Append(received, a)[i] = received[i]
  BY <1>4, <1>7, AppendProperties
<1>10. Answers(Append(received, a)) = Answers(received) + 1 /\ Answers(received) \in Nat
  BY <1>4, <1>7, AnswersAppend, AnswersAre
<1>11. /\ Len(executing) \in Nat /\ Len(executing') = Len(executing) - 1
       /\ Len(endpoint) \in Nat
       /\ backend = "pyusb" => Len(endpoint') = Len(endpoint) + 1 /\ received' = received
  BY <1>3, <1>5, <1>8
<1>12. Types'
  <2>1. endpoint' \in Seq(AnswerType) /\ received' \in Seq(ItemType)
    BY <1>3, <1>4, <1>8, <1>9
  <2> QED BY <1>1, <1>2, <1>5, <2>1 DEF Types
<1>13. TodoInOrder' /\ PermitsBounded' /\ \A step : (At(step)' <=> At(step))
  BY <1>1, TodoFrame DEF PermitsBounded
<1>14. Closed'
  <2>1. backend \in {"pyusb", "pywinusb"}
    BY DEF Types
  <2> QED BY <1>1, <1>3, <1>13, <2>1 DEF Closed
<1>15. Unopened' /\ OwnAnswers'
  BY <1>1 DEF Unopened, OwnAnswers
<1>16. ~outOfStep => ~closed
  <2> SUFFICES ASSUME ~outOfStep, closed PROVE FALSE
    OBVIOUS
  <2>1. owed = << >> /\ ~waiting /\ ~At("discard")
    BY DEF Closed
  <2>2. ToRead = 0
    BY <2>1 DEF ToRead
  <2> QED BY <2>2, <1>5, <1>10 DEF AnswersCounted, OnItsWay
<1>17. ~outOfStep => OnItsWay' = OnItsWay
  <2>1. CASE backend = "pyusb"
    <3>1. Answers(received') = Answers(received) /\ Len(endpoint') = Len(endpoint) + 1
      BY <1>11, <2>1
    <3> QED BY <1>11, <1>10, <3>1 DEF OnItsWay
  <2>2. CASE backend # "pyusb"
    <3>1. ~outOfStep => Answers(received') = Answers(received) + 1 /\ Len(endpoint') = Len(endpoint)
      BY <1>3, <1>10, <1>16, <2>2
    <3> QED BY <1>11, <1>10, <3>1 DEF OnItsWay
  <2> QED BY <2>1, <2>2
<1>18. ToRead' = ToRead
  BY <1>1, <1>13 DEF ToRead
<1>19. AnswersCounted'
  BY <1>1, <1>13, <1>17, <1>18 DEF AnswersCounted
<1>20. Unexcused'
  <2> SUFFICES ASSUME ~excused' PROVE CalledInPlace' /\ Permitted' /\ AllExpected' /\ OneSwoThread'
    BY DEF Unexcused
  <2>1. CalledInPlace /\ Permitted /\ AllExpected /\ OneSwoThread
    BY <1>2 DEF Unexcused
  <2>2. CalledInPlace'
    BY <1>1, <1>13, <2>1, TodoFrame DEF CalledInPlace
  <2>3. Permitted'
    <3>1. backend = "pyusb" =>
            Len(executing') + Len(endpoint') = Len(executing) + Len(endpoint)
      BY <1>11
    <3> QED BY <1>1, <2>1, <3>1 DEF Permitted
  <2>4. AllExpected'
    <3>1. \A x : Good(x)' <=> Good(x)
      BY <1>1, TodoFrame DEF Good
    <3>2. Expected' = Expected
      BY <1>1, TodoFrame
    <3>3. executing[1] = Expected /\ Good(a)
      BY <1>2, <1>5, <1>6, <1>7, <2>1 DEF AllExpected, Good
    <3>4. \A i \in 1..Len(executing') : executing'[i] = Expected
      BY <1>5, <2>1 DEF AllExpected
    <3>5. \A i \in 1..Len(endpoint') : Good(endpoint'[i])
      <4>1. \A i \in 1..Len(endpoint) : Good(endpoint[i])
        BY <2>1 DEF AllExpected
      <4>2. \A i \in 1..Len(endpoint) + 1 : Good(Append(endpoint, a)[i])
        BY <1>5, <1>8, <3>3, <4>1
      <4> QED BY <1>3, <1>8, <4>1, <4>2
    <3>6. ~closed => \A i \in 1..Len(received') : Good(received'[i])
      <4>1. ~closed => \A i \in 1..Len(received) : Good(received[i])
        BY <2>1 DEF AllExpected
      <4>2. ~closed => \A i \in 1..Len(received) + 1 : Good(Append(received, a)[i])
        BY <1>5, <1>9, <3>3, <4>1
      <4> QED BY <1>3, <1>9, <4>1, <4>2
    <3> QED BY <1>1, <3>1, <3>2, <3>4, <3>5, <3>6 DEF AllExpected
  <2>5. OneSwoThread'
    BY <1>1, <1>13, <2>1 DEF OneSwoThread, HasThread
  <2> QED BY <2>2, <2>3, <2>4, <2>5
<1> QED BY <1>12, <1>13, <1>14, <1>15, <1>19, <1>20

\* A command is written when nothing is on its way, or what is on its way is
\* passed over.
LEMMA WriteCommandStep ==
  ASSUME IInv, WriteCommand
  PROVE  IInv'
<1> USE DEF IInv
<1> DEFINE c == Code(Head(todo))
<1>1. /\ ~Idle /\ Direct(Head(todo)) /\ ~waiting /\ ~closed
      /\ permits' = (IF backend = "pyusb" THEN permits + 1 ELSE permits)
      /\ executing' = Append(executing, c)
      /\ waiting' = TRUE /\ UNCHANGED <<todo, owed, buffers, faults>>
      /\ UNCHANGED <<backend, closed, rx, stop, received, endpoint>>
      /\ UNCHANGED <<swo, orphans, swoEvent, swoOver, misread, raised, opened, methods>>
  BY DEF WriteCommand, Written, Release, NoFault, trace
<1>2. /\ outOfStep' \in BOOLEAN /\ excused' \in BOOLEAN
      /\ ~outOfStep' => ~outOfStep /\ owed = << >>
      /\ ~excused' => ~excused /\ owed = << >>
  BY DEF WriteCommand, Types
<1>3. c \in Codes /\ \A step \in Alone : ~At(step)
  BY <1>1, CommandStep
<1>4. /\ ~At("discard") /\ ~At("thread") /\ ~At("stop_swo") /\ ~At("stop") /\ ~At("join")
      /\ ~At("interface") /\ ~At("flush") /\ ~At("packet")
  BY <1>3 DEF Alone
<1>5. (Idle' <=> Idle) /\ Weight' = Weight /\ \A step : (At(step)' <=> At(step))
  BY <1>1 DEF Idle, At, Weight
<1> HIDE DEF c
<1>6. executing \in Seq(Codes) /\ permits \in Nat /\ Weight \in Nat /\ methods \in Nat
  BY WeightFacts, ProbeLinkAssumption DEF Types, ProbeLinkAssumption
<1>7. /\ executing' \in Seq(Codes) /\ Len(executing') = Len(executing) + 1
      /\ Len(executing) \in Nat /\ executing'[Len(executing) + 1] = c
  BY <1>1, <1>3, <1>6, AppendProperties
<1>8. /\ Len(endpoint) \in Nat /\ Answers(received) \in Nat
      /\ Answers(received') = Answers(received) /\ Len(endpoint') = Len(endpoint)
  BY <1>1, AnswersAre DEF Types
<1>9. Types'
  BY <1>1, <1>2, <1>6, <1>7 DEF Types
<1>10. TodoInOrder'
  BY <1>1, <1>5 DEF TodoInOrder
<1>11. PermitsBounded'
  BY <1>1, <1>5, <1>6 DEF PermitsBounded
<1>12. Closed' /\ OwnAnswers'
  BY <1>1, <1>2, <1>4, <1>5 DEF Closed, OwnAnswers
<1>13. Unopened'
  BY <1>1 DEF Unopened
<1>14. ~outOfStep' => OnItsWay = 0 /\ OnItsWay' = 1 /\ ToRead' = 1
  <2>1. ~outOfStep' => ToRead = 0 /\ ToRead' = 1
    BY <1>1, <1>2, <1>4, <1>5 DEF ToRead
  <2>2. ~outOfStep' => OnItsWay = 0
    BY <1>2, <2>1 DEF AnswersCounted
  <2>3. OnItsWay' = OnItsWay + 1
    BY <1>7, <1>8 DEF OnItsWay
  <2> QED BY <2>1, <2>2, <2>3
<1>15. AnswersCounted'
  BY <1>1, <1>2, <1>14 DEF AnswersCounted
<1>16. Unexcused'
  <2> SUFFICES ASSUME ~excused' PROVE CalledInPlace' /\ Permitted' /\ AllExpected' /\ OneSwoThread'
    BY DEF Unexcused
  <2>1. CalledInPlace /\ Permitted /\ AllExpected /\ OneSwoThread
    BY <1>2 DEF Unexcused
  <2>2. ~stop /\ ~outOfStep'
    BY <1>1, <1>2, <2>1 DEF Closed, CalledInPlace, WriteCommand
  <2>3. CalledInPlace'
    BY <1>1, <1>4, <1>5, <2>1, <2>2 DEF CalledInPlace
  <2>4. Permitted'
    BY <1>1, <1>6, <1>7, <1>8, <2>1, <2>2 DEF Permitted
  <2>5. AllExpected'
    <3>1. OnItsWay = 0 /\ received \in Seq(ItemType)
      BY <1>14, <2>2 DEF Types
    <3>2. Len(executing) = 0 /\ Len(endpoint) = 0 /\ Answers(received) = 0
      BY <1>7, <1>8, <3>1 DEF OnItsWay
    <3>3. \A i \in 1..Len(received) : ~IsAnswer(received[i])
      BY <3>1, <3>2, NoneOfThem
    <3>4. Len(received) \in Nat /\ \A i \in 1..Len(received) : FALSE
      BY <1>1, <3>1, <3>3, <2>1 DEF AllExpected, Good
    <3>5. Expected' = c
      BY <1>1 DEF Expected, c
    <3> QED BY <1>1, <1>7, <1>8, <3>2, <3>4, <3>5 DEF AllExpected
  <2>6. OneSwoThread'
    BY <1>1, <1>5, <2>1 DEF OneSwoThread, HasThread
  <2> QED BY <2>3, <2>4, <2>5, <2>6
<1> QED BY <1>9, <1>10, <1>11, <1>12, <1>13, <1>15, <1>16

\* A packet is written behind the others.
LEMMA WritePacketStep ==
  ASSUME IInv, WritePacket
  PROVE  IInv'
<1> USE DEF IInv
<1>1. /\ At("packet") /\ Len(owed) < PacketCount /\ ~closed /\ Done
      /\ permits' = (IF backend = "pyusb" THEN permits + 1 ELSE permits)
      /\ executing' = Append(executing, "packet") /\ owed' = Append(owed, "packet")
      /\ UNCHANGED <<buffers, outOfStep, excused, faults>>
      /\ UNCHANGED <<backend, closed, rx, stop, received, endpoint>>
      /\ UNCHANGED <<swo, orphans, swoEvent, swoOver, misread, raised, opened, methods>>
  BY DEF WritePacket, Written, Release, NoFault, trace
<1>2. /\ ~Idle /\ Head(todo) = "packet"
      /\ ~At("discard") /\ ~At("thread") /\ ~At("stop_swo") /\ ~At("stop") /\ ~At("join")
      /\ ~At("interface") /\ ~At("flush")
  BY <1>1 DEF At
<1>3. ~waiting
  BY <1>1, NotWaiting DEF Alone
<1>4. /\ TodoInOrder' /\ todo' \in Seq(StepNames) /\ waiting' = FALSE /\ Idle'
      /\ \A step : ~At(step)'
  <2>1. Idle'
    BY <1>1, <1>2, DoneFacts DEF Follows
  <2> QED BY <1>1, <1>2, <2>1, DoneFacts DEF At
<1>5. ~HasThread'
  BY <1>4 DEF HasThread, Idle
<1>6. /\ executing \in Seq(Codes) /\ owed \in Seq({"packet"}) /\ PacketCount \in Nat
      /\ permits \in Nat /\ methods \in Nat /\ "packet" \in Codes
  BY ProbeLinkAssumption DEF Types, ProbeLinkAssumption, Codes
<1>7. /\ executing' \in Seq(Codes) /\ Len(executing') = Len(executing) + 1
      /\ Len(executing) \in Nat /\ executing'[Len(executing) + 1] = "packet"
      /\ \A i \in 1..Len(executing) : executing'[i] = executing[i]
  BY <1>1, <1>6, AppendProperties
<1>8. owed' \in Seq({"packet"}) /\ Len(owed') = Len(owed) + 1 /\ Len(owed) \in Nat
  BY <1>1, <1>6, AppendProperties
<1>9. /\ Len(endpoint) \in Nat /\ Answers(received) \in Nat
      /\ Answers(received') = Answers(received) /\ Len(endpoint') = Len(endpoint)
  BY <1>1, AnswersAre DEF Types
<1>10. Types'
  <2>1. permits' \in Nat
    BY <1>1, <1>6
  <2>2. Len(owed') <= PacketCount
    BY <1>1, <1>6, <1>8
  <2>3. /\ UNCHANGED <<backend, closed, rx, stop, received, endpoint, buffers, outOfStep>>
        /\ UNCHANGED <<swo, orphans, swoEvent, swoOver, misread, raised, excused, opened>>
        /\ UNCHANGED <<methods, faults>>
    BY <1>1
  <2>4. todo' \in Seq(StepNames) /\ waiting' \in BOOLEAN
    BY <1>4
  <2>5. executing' \in Seq(Codes) /\ owed' \in Seq({"packet"})
    BY <1>7, <1>8
  <2> QED BY <2>1, <2>2, <2>3, <2>4, <2>5 DEF Types
<1>11. PermitsBounded'
  <2>1. Weight \in Nat /\ Weight' \in Nat /\ Weight' <= Weight - 1
    BY <1>1, <1>2, DoneWeight
  <2>2. permits' = permits \/ permits' = permits + 1
    BY <1>1
  <2> QED BY <1>1, <1>3, <1>4, <2>1, <2>2, PermitsSpent
<1>12. Closed' /\ OwnAnswers' /\ Unopened'
  <2>1. /\ UNCHANGED <<backend, closed, rx, stop, received, endpoint, buffers, outOfStep>>
        /\ UNCHANGED <<swo, orphans, swoOver, misread, opened>> /\ ~closed
    BY <1>1
  <2>2. Closed'
    BY <1>4, <2>1 DEF Closed
  <2> QED BY <2>1, <2>2 DEF OwnAnswers, Unopened
<1>13. AnswersCounted'
  <2>1. OnItsWay' = OnItsWay + 1
    BY <1>7, <1>9 DEF OnItsWay
  <2>2. ToRead = Len(owed) /\ ToRead' = Len(owed')
    <3>1. ~At("discard") /\ ~At("discard")' /\ ~waiting /\ ~waiting'
      BY <1>2, <1>3, <1>4
    <3> QED BY <1>8, <3>1 DEF ToRead
  <2>3. OnItsWay \in Nat /\ ToRead \in Nat
    BY <1>7, <1>8, <1>9, <2>2 DEF OnItsWay
  <2> QED BY <1>1, <1>4, <1>8, <2>1, <2>2, <2>3 DEF AnswersCounted
<1>14. Unexcused'
  <2> SUFFICES ASSUME ~excused' PROVE CalledInPlace' /\ Permitted' /\ AllExpected' /\ OneSwoThread'
    BY DEF Unexcused
  <2>1. CalledInPlace /\ Permitted /\ AllExpected /\ OneSwoThread /\ ~stop
    BY <1>1 DEF Unexcused, Closed
  <2>2. CalledInPlace'
    BY <1>1, <1>4, <2>1 DEF CalledInPlace
  <2>3. Permitted'
    BY <1>1, <1>6, <1>7, <1>9, <2>1 DEF Permitted
  <2>4. AllExpected'
    <3>1. Expected' = "packet" /\ Expected = "packet"
      BY <1>3, <1>4 DEF Expected
    <3> QED BY <1>1, <1>7, <2>1, <3>1 DEF AllExpected, Good
  <2>5. OneSwoThread'
    BY <1>1, <1>2, <1>4, <1>5, <2>1 DEF OneSwoThread
  <2> QED BY <2>2, <2>3, <2>4, <2>5
<1> QED BY <1>4, <1>10, <1>11, <1>12, <1>13, <1>14

\* What any exception leaves: no method, and nothing else of the host.
LEMMA RaiseKeeps ==
  ASSUME Types, TodoInOrder, PermitsBounded, Closed, Unopened,
         Raise, ~Idle, ~At("join"),
         UNCHANGED <<backend, closed, rx, stop, executing, endpoint, buffers>>,
         UNCHANGED <<swo, orphans, swoEvent, swoOver, opened, methods>>,
         received' \in Seq(ItemType), received = << >> => received' = << >>,
         owed' = owed \/ owed' = << >>,
         outOfStep' \in BOOLEAN, misread' \in BOOLEAN, excused' \in BOOLEAN,
         faults' \in 0..MaxFaults,
         permits' = permits \/ (permits' = permits + 1 /\ ~waiting /\ Weight > 0 /\ opened > 0)
  PROVE  Types' /\ TodoInOrder' /\ PermitsBounded' /\ Closed' /\ Unopened'
<1>1. /\ TodoInOrder' /\ todo' \in Seq(StepNames) /\ Idle' /\ waiting' = FALSE
      /\ raised' = TRUE /\ Weight' = 0 /\ \A step : ~At(step)'
  BY RaiseFacts, NoStep
<1>2. permits' \in Nat /\ owed' \in Seq({"packet"}) /\ Len(owed') <= PacketCount
  <2>1. permits \in Nat /\ owed \in Seq({"packet"}) /\ Len(owed) <= PacketCount
    BY DEF Types
  <2>2. << >> \in Seq({"packet"}) /\ Len(<< >>) <= PacketCount
    BY ProbeLinkAssumption DEF ProbeLinkAssumption
  <2>3. permits' \in Nat
    BY <2>1
  <2> QED BY <2>1, <2>2, <2>3
<1>3. Types'
  <2>1. /\ backend' \in {"pyusb", "pywinusb"} /\ closed' \in BOOLEAN /\ stop' \in BOOLEAN
        /\ rx' \in {"none", "loop", "acquire", "reading", "ended"}
        /\ endpoint' \in Seq(AnswerType) /\ executing' \in Seq(Codes) /\ buffers' \in BOOLEAN
        /\ swo' \in {"none", "reading", "ended"} /\ orphans' \in Nat
        /\ swoEvent' \in {"none", "clear", "set"} /\ swoOver' \in BOOLEAN
        /\ opened' \in Nat /\ methods' \in 0..MaxMethods
    BY Zenon DEF Types
  <2>2. raised' \in BOOLEAN /\ waiting' \in BOOLEAN
    BY <1>1
  <2> QED BY <1>1, <1>2, <2>1, <2>2, Zenon DEF Types
<1>4. PermitsBounded'
  <2>1. waiting => Weight > 0
    <3>1. waiting => Head(todo) \notin Alone
      BY CommandStep DEF TodoInOrder, At
    <3> QED BY <3>1, WeightFacts DEF Alone
  <2>2. Weight \in Nat
    BY WeightFacts
  <2>3. Weight' \in Nat /\ Weight' <= Weight /\ (Weight > 0 => Weight' <= Weight - 1)
    BY <1>1, <2>2
  <2> QED BY <1>1, <2>1, <2>3, PermitsSpent
<1>5. Closed'
  BY <1>1 DEF Closed
<1>6. Unopened'
  BY <1>1 DEF Unopened
<1> QED BY <1>1, <1>3, <1>4, <1>5, <1>6

\* USB fails when a command or a packet is to be written.
LEMMA WriteFailsStep ==
  ASSUME IInv, WriteFails
  PROVE  IInv'
<1> USE DEF IInv
<1>1. /\ ~Idle /\ Raise /\ excused' = TRUE
      /\ permits' = (IF backend = "pyusb" THEN permits + 1 ELSE permits)
      /\ UNCHANGED <<backend, closed, rx, stop, executing, endpoint, buffers>>
      /\ UNCHANGED <<swo, orphans, swoEvent, swoOver, opened, methods>>
      /\ UNCHANGED <<received, misread>>
      /\ faults' \in 0..MaxFaults
  BY ProbeLinkAssumption
     DEF WriteFails, Release, probe, trace, Fault, NoFault, At, Types, ProbeLinkAssumption
<1>2. \/ Direct(Head(todo)) /\ ~waiting /\ owed' = owed /\ outOfStep' = outOfStep
      \/ At("packet") /\ owed' = << >> /\ outOfStep' = (outOfStep \/ owed # << >>)
  BY DEF WriteFails
<1>3. /\ ~waiting /\ ~At("join") /\ ~At("thread") /\ ~At("discard") /\ ~At("interface")
  <2>1. CASE At("packet")
    BY <2>1, NotWaiting DEF Alone, At
  <2>2. CASE Direct(Head(todo)) /\ ~waiting
    BY <1>1, <2>2, CommandStep DEF Alone
  <2> QED BY <1>2, <2>1, <2>2
<1>4. Weight > 0 /\ (opened > 0)
  BY <1>1, <1>3, WeightFacts DEF At, Unopened, Types
<1>5. Types' /\ TodoInOrder' /\ PermitsBounded' /\ Closed' /\ Unopened'
  <2>1. received' \in Seq(ItemType) /\ outOfStep' \in BOOLEAN /\ misread' \in BOOLEAN
    BY <1>1, <1>2 DEF Types
  <2>2. permits' = permits \/ permits' = permits + 1
    BY <1>1
  <2> QED BY <1>1, <1>2, <1>3, <1>4, <2>1, <2>2, RaiseKeeps
<1>6. AnswersCounted'
  <2>1. OnItsWay' = OnItsWay
    BY <1>1 DEF OnItsWay, Answers
  <2>2. ~outOfStep' => ToRead' = ToRead /\ ~waiting'
    <3>1. ~At("discard")' /\ ~waiting'
      BY <1>1, NoStep, RaiseFacts
    <3>2. ~outOfStep' => owed' = owed
      BY <1>2
    <3> QED BY <1>3, <3>1, <3>2 DEF ToRead
  <2>3. ~outOfStep' => ~outOfStep
    BY <1>2 DEF Types
  <2> QED BY <1>1, NoStep, <2>1, <2>2, <2>3 DEF AnswersCounted
<1>7. Unexcused' /\ OwnAnswers'
  BY <1>1, <1>2 DEF Unexcused, OwnAnswers, Types
<1> QED BY <1>5, <1>6, <1>7

\* PyWinUSB waits in vain.
LEMMA ReadTimesOutStep ==
  ASSUME IInv, ReadTimesOut
  PROVE  IInv'
<1> USE DEF IInv
<1>1. /\ Reads /\ Raise /\ outOfStep' = TRUE /\ excused' = TRUE
      /\ owed' = owed \/ owed' = << >>
      /\ UNCHANGED <<backend, closed, rx, stop, executing, endpoint, buffers>>
      /\ UNCHANGED <<swo, orphans, swoEvent, swoOver, opened, methods>>
      /\ UNCHANGED <<received, misread, permits>>
      /\ faults' \in 0..MaxFaults
  BY ProbeLinkAssumption
     DEF ReadTimesOut, interface, probe, trace, Fault, NoFault, Types, ProbeLinkAssumption
<1>2. ~Idle /\ ~At("join")
  <2>1. CASE waiting
    BY <2>1, CommandStep DEF TodoInOrder, Alone
  <2>2. CASE ~waiting
    BY <2>2, <1>1 DEF Reads, ReadsPacket, At
  <2> QED BY <2>1, <2>2
<1>3. Types' /\ TodoInOrder' /\ PermitsBounded' /\ Closed' /\ Unopened'
  <2>1. received' \in Seq(ItemType) /\ misread' \in BOOLEAN
    BY <1>1 DEF Types
  <2> QED BY <1>1, <1>2, <2>1, RaiseKeeps
<1>4. AnswersCounted' /\ Unexcused' /\ OwnAnswers'
  BY <1>1 DEF AnswersCounted, Unexcused, OwnAnswers
<1> QED BY <1>3, <1>4

\* The interface cannot be opened.
LEMMA OpenFailsStep ==
  ASSUME IInv, OpenFails
  PROVE  IInv'
<1> USE DEF IInv
<1>1. /\ At("interface") /\ Raise /\ excused' = TRUE
      /\ UNCHANGED <<backend, closed, rx, stop, executing, endpoint, buffers, owed>>
      /\ UNCHANGED <<swo, orphans, swoEvent, swoOver, opened, methods>>
      /\ UNCHANGED <<received, misread, permits, outOfStep>>
      /\ faults' \in 0..MaxFaults
  BY ProbeLinkAssumption
     DEF OpenFails, interface, probe, trace, Fault, NoFault, Types, ProbeLinkAssumption
<1>2. ~Idle /\ ~At("join") /\ ~At("discard") /\ ~waiting
  BY <1>1, NotWaiting DEF At, Alone
<1>3. Types' /\ TodoInOrder' /\ PermitsBounded' /\ Closed' /\ Unopened'
  <2>1. received' \in Seq(ItemType) /\ misread' \in BOOLEAN /\ outOfStep' \in BOOLEAN
    BY <1>1 DEF Types
  <2> QED BY <1>1, <1>2, <2>1, RaiseKeeps
<1>4. AnswersCounted'
  <2>1. OnItsWay' = OnItsWay
    BY <1>1 DEF OnItsWay, Answers
  <2>2. ~At("discard")' /\ ~waiting'
    BY <1>1, NoStep, RaiseFacts
  <2>3. ToRead' = ToRead
    BY <1>1, <1>2, <2>2 DEF ToRead
  <2> QED BY <1>1, NoStep, <2>1, <2>2, <2>3 DEF AnswersCounted
<1>5. Unexcused' /\ OwnAnswers'
  BY <1>1 DEF Unexcused, OwnAnswers
<1> QED BY <1>3, <1>4, <1>5

\* A step of the host alone that is done, and what it leaves of the method.
LEMMA HostAlone ==
  ASSUME Types, TodoInOrder, PermitsBounded, NEW step \in Alone, At(step), Done,
         methods' = methods,
         \/ permits' = permits
         \/ permits' = permits + 1 /\ step \notin {"interface", "thread", "discard"}
  PROVE  /\ ~Idle /\ ~waiting /\ waiting' = FALSE
         /\ \A other : At(other) <=> other = step
         /\ todo' \in Seq(StepNames) /\ TodoInOrder' /\ PermitsBounded'
         /\ permits' \in Nat /\ ~At("buffers")'
<1>1. /\ ~Idle /\ ~waiting /\ Head(todo) = step
      /\ \A other : At(other) <=> other = step
  BY NotWaiting DEF At
<1>2. TodoInOrder' /\ todo' \in Seq(StepNames) /\ waiting' = FALSE
  BY <1>1, DoneFacts
<1>3. ~At("buffers")'
  BY <1>1, NextStep DEF Alone
<1>4. permits' \in Nat
  BY DEF Types
<1>5. PermitsBounded'
  <2>1. /\ Weight' \in Nat /\ Weight' <= Weight
        /\ step \notin {"interface", "thread", "discard"} => Weight' <= Weight - 1
    BY <1>1, DoneWeight
  <2> QED BY <1>1, <1>2, <2>1, PermitsSpent
<1> QED BY <1>1, <1>2, <1>3, <1>4, <1>5

\* To open the interface again with nothing on its way is the cure.
LEMMA OpenInterfaceStep ==
  ASSUME IInv, OpenInterface
  PROVE  IInv'
<1> USE DEF IInv
<1>1. /\ At("interface") /\ Done /\ closed /\ closed' = FALSE /\ stop' = FALSE
      /\ rx' = IF backend = "pyusb" THEN "loop" ELSE rx
      /\ endpoint' = IF backend = "pyusb" THEN << >> ELSE endpoint
      /\ misread' = FALSE /\ opened' = opened + 1
      /\ UNCHANGED <<backend, permits, received, executing, owed, buffers, raised, excused>>
      /\ UNCHANGED <<swo, orphans, swoEvent, swoOver, methods, faults>>
  BY DEF OpenInterface, Drained, trace
<1>2. /\ outOfStep' \in BOOLEAN
      /\ ~outOfStep' => \/ ~outOfStep
                        \/ executing = << >> /\ (backend = "pywinusb" => received = << >>)
  BY DEF OpenInterface, Types
<1>3. /\ ~Idle /\ ~waiting /\ waiting' = FALSE
      /\ \A other : At(other) <=> other = "interface"
      /\ todo' \in Seq(StepNames) /\ TodoInOrder' /\ PermitsBounded' /\ ~At("buffers")'
  BY <1>1, HostAlone DEF Alone
<1>4. /\ ~At("flush")' /\ ~At("packet")' /\ ~At("interface")' /\ ~At("discard")'
      /\ ~At("stop_swo")' /\ ~At("stop")' /\ ~At("join")' /\ ~At("thread")'
      /\ HasThread' => HasThread
  BY <1>1, <1>3, NextStep
<1>5. /\ backend \in {"pyusb", "pywinusb"} /\ opened \in Nat /\ owed = << >>
      /\ executing \in Seq(Codes) /\ endpoint \in Seq(AnswerType) /\ received \in Seq(ItemType)
      /\ backend = "pyusb" => received = << >>
      /\ backend = "pywinusb" => endpoint = << >>
      /\ ~At("discard") /\ ~At("join")
  BY <1>1, <1>3 DEF Types, Closed
<1>6. Types'
  <2>1. << >> \in Seq(AnswerType)
    OBVIOUS
  <2>2. endpoint' \in Seq(AnswerType) /\ rx' \in {"none", "loop", "acquire", "reading", "ended"}
    BY <1>1, <1>5, <2>1 DEF Types
  <2>3. opened' \in Nat
    BY <1>1, <1>5
  <2> QED BY <1>1, <1>2, <1>3, <2>2, <2>3 DEF Types
<1>7. Closed' /\ Unopened' /\ OwnAnswers'
  <2>1. Closed'
    BY <1>1, <1>3, <1>4, <1>5 DEF Closed
  <2>2. opened' # 0
    BY <1>1, <1>5
  <2> QED BY <1>1, <2>1, <2>2 DEF Unopened, OwnAnswers
<1>8. endpoint' = << >>
  BY <1>1, <1>5
<1>9. ~outOfStep' => Len(executing) = 0 /\ Answers(received) = 0
  <2>1. CASE ~outOfStep
    <3>1. ToRead = 0
      BY <1>3, <1>5 DEF ToRead
    <3>2. OnItsWay = 0
      BY <2>1, <3>1 DEF AnswersCounted
    <3>3. Len(executing) \in Nat /\ Len(endpoint) \in Nat /\ Answers(received) \in Nat
      BY <1>5, AnswersAre
    <3> QED BY <3>2, <3>3 DEF OnItsWay
  <2>2. CASE executing = << >> /\ (backend = "pywinusb" => received = << >>)
    BY <1>5, <2>2, NoAnswers
  <2> QED BY <1>2, <2>1, <2>2
<1>10. AnswersCounted'
  <2>1. ~outOfStep' => OnItsWay' = 0
    <3>1. ~outOfStep' => Len(executing') = 0 /\ Len(endpoint') = 0 /\ Answers(received') = 0
      BY <1>1, <1>8, <1>9
    <3> QED BY <3>1 DEF OnItsWay
  <2>2. ToRead' = 0
    BY <1>1, <1>3, <1>4, <1>5 DEF ToRead
  <2> QED BY <1>1, <1>3, <1>5, <2>1, <2>2 DEF AnswersCounted
<1>11. Unexcused'
  <2> SUFFICES ASSUME ~excused' PROVE CalledInPlace' /\ Permitted' /\ AllExpected' /\ OneSwoThread'
    BY DEF Unexcused
  <2>1. CalledInPlace /\ Permitted /\ AllExpected /\ OneSwoThread
    BY <1>1 DEF Unexcused
  <2>2. /\ permits = 0 /\ received = << >> /\ executing = << >> /\ endpoint = << >>
        /\ orphans = 0 /\ swoEvent = "none" /\ ~swoOver /\ swo = "none"
    BY <1>1, <2>1 DEF Unopened, CalledInPlace, Closed
  <2>3. ~outOfStep'
    BY <1>1, <2>1 DEF OpenInterface, CalledInPlace
  <2>4. CalledInPlace'
    BY <1>1, <1>4, <2>1, <2>3 DEF CalledInPlace
  <2>5. Permitted'
    <3>1. permits' = 0 /\ Len(executing') = 0 /\ Len(endpoint') = 0
      BY <1>1, <1>8, <2>2
    <3> QED BY <1>1, <3>1 DEF Permitted
  <2>6. AllExpected'
    BY <1>1, <1>8, <2>2 DEF AllExpected
  <2>7. OneSwoThread'
    BY <1>1, <2>2 DEF OneSwoThread
  <2> QED BY <2>4, <2>5, <2>6, <2>7
<1> QED BY <1>3, <1>6, <1>7, <1>10, <1>11

\* The buffers are made anew, with no packet owed.
LEMMA InitBuffersStep ==
  ASSUME IInv, InitBuffers
  PROVE  IInv'
<1> USE DEF IInv
<1>1. /\ At("buffers") /\ Done /\ buffers' = TRUE /\ owed' = << >>
      /\ UNCHANGED <<backend, closed, rx, stop, permits, received, executing, endpoint>>
      /\ UNCHANGED <<swo, orphans, swoEvent, swoOver, misread, raised, excused>>
      /\ UNCHANGED <<opened, methods, faults>>
  BY DEF InitBuffers, interface, probe, trace
<1>2. outOfStep' \in BOOLEAN /\ (~outOfStep' => ~outOfStep /\ owed = << >>)
  BY DEF InitBuffers, Types
<1>3. /\ ~Idle /\ ~waiting /\ waiting' = FALSE
      /\ \A other : At(other) <=> other = "buffers"
      /\ todo' \in Seq(StepNames) /\ TodoInOrder' /\ PermitsBounded' /\ ~At("buffers")'
  BY <1>1, HostAlone DEF Alone
<1>4. /\ ~At("flush")' /\ ~At("packet")' /\ ~At("interface")' /\ ~At("discard")'
      /\ ~At("stop_swo")' /\ ~At("stop")' /\ ~At("join")' /\ ~At("thread")'
      /\ ~At("discard") /\ ~At("join") /\ ~At("interface")
      /\ ~At("stop") /\ ~At("stop_swo") /\ (HasThread' => HasThread)
  BY <1>1, <1>3, NextStep
<1>5. Types'
  <2>1. owed' \in Seq({"packet"}) /\ Len(owed') <= PacketCount
    BY <1>1, ProbeLinkAssumption DEF ProbeLinkAssumption
  <2>2. /\ UNCHANGED <<backend, closed, rx, stop, permits, received, executing, endpoint>>
        /\ UNCHANGED <<swo, orphans, swoEvent, swoOver, misread, raised, excused>>
        /\ UNCHANGED <<opened, methods, faults>> /\ buffers' \in BOOLEAN
    BY <1>1
  <2>3. outOfStep' \in BOOLEAN /\ waiting' \in BOOLEAN /\ todo' \in Seq(StepNames)
    BY <1>2, <1>3
  <2> QED BY <2>1, <2>2, <2>3 DEF Types
<1>6. Closed' /\ Unopened' /\ OwnAnswers'
  <2>1. Closed'
    BY <1>1, <1>3, <1>4 DEF Closed
  <2>2. opened # 0
    BY <1>3, <1>4 DEF Unopened
  <2>3. ~outOfStep' => ~outOfStep
    BY <1>2
  <2> QED BY <1>1, <2>1, <2>2, <2>3 DEF Unopened, OwnAnswers
<1>7. AnswersCounted'
  <2>1. OnItsWay' = OnItsWay
    BY <1>1 DEF OnItsWay, Answers
  <2>2. ~outOfStep' => owed' = owed
    BY <1>1, <1>2
  <2>3. ~outOfStep' => ToRead' = ToRead
    BY <1>3, <1>4, <2>2 DEF ToRead
  <2> QED BY <1>1, <1>2, <1>3, <2>1, <2>3 DEF AnswersCounted
<1>8. Unexcused'
  <2> SUFFICES ASSUME ~excused' PROVE CalledInPlace' /\ Permitted' /\ AllExpected' /\ OneSwoThread'
    BY DEF Unexcused
  <2>1. CalledInPlace /\ Permitted /\ AllExpected /\ OneSwoThread
    BY <1>1 DEF Unexcused
  <2>2. ~outOfStep'
    BY <1>1, <2>1 DEF InitBuffers, CalledInPlace, AnswersCounted
  <2>3. CalledInPlace'
    BY <1>1, <1>3, <1>4, <2>1, <2>2 DEF CalledInPlace
  <2>4. Permitted'
    BY <1>1, <2>1 DEF Permitted
  <2>5. AllExpected'
    BY <1>1, <1>3, <2>1 DEF AllExpected, Good, Expected
  <2>6. OneSwoThread'
    BY <1>1, <1>4, <2>1 DEF OneSwoThread
  <2> QED BY <2>3, <2>4, <2>5, <2>6
<1> QED BY <1>3, <1>5, <1>6, <1>7, <1>8

\* To flush is done when no packet is owed.
LEMMA FlushedStep ==
  ASSUME IInv, Flushed
  PROVE  IInv'
<1> USE DEF IInv
<1>1. /\ At("flush") /\ Done /\ owed = << >>
      /\ UNCHANGED <<backend, closed, rx, stop, permits, received, executing, endpoint>>
      /\ UNCHANGED <<owed, buffers, swo, orphans, swoEvent, swoOver>>
      /\ UNCHANGED <<outOfStep, misread, raised, excused, opened, methods, faults>>
  BY DEF Flushed, interface, probe, trace, history
<1>2. /\ ~Idle /\ ~waiting /\ waiting' = FALSE
      /\ \A other : At(other) <=> other = "flush"
      /\ todo' \in Seq(StepNames) /\ TodoInOrder' /\ PermitsBounded' /\ ~At("buffers")'
  BY <1>1, HostAlone DEF Alone
<1>3. /\ ~At("flush")' /\ ~At("packet")' /\ ~At("interface")' /\ ~At("discard")'
      /\ ~At("stop")' /\ ~At("join")' /\ ~At("thread")'
      /\ ~At("discard") /\ ~At("join") /\ ~At("interface")
      /\ ~At("stop") /\ ~At("stop_swo") /\ (HasThread' => HasThread)
  BY <1>1, <1>2, NextStep
<1>4. Types'
  <2>1. /\ UNCHANGED <<backend, closed, rx, stop, permits, received, executing, endpoint>>
        /\ UNCHANGED <<owed, buffers, swo, orphans, swoEvent, swoOver>>
        /\ UNCHANGED <<outOfStep, misread, raised, excused, opened, methods, faults>>
    BY <1>1
  <2>2. waiting' \in BOOLEAN /\ todo' \in Seq(StepNames)
    BY <1>2
  <2> QED BY <2>1, <2>2 DEF Types
<1>5. Closed' /\ Unopened' /\ OwnAnswers'
  <2>1. Closed'
    BY <1>1, <1>2, <1>3 DEF Closed
  <2>2. opened # 0
    BY <1>2, <1>3 DEF Unopened
  <2> QED BY <1>1, <2>1, <2>2 DEF Unopened, OwnAnswers
<1>6. AnswersCounted'
  <2>1. OnItsWay' = OnItsWay
    BY <1>1 DEF OnItsWay, Answers
  <2>2. ToRead' = ToRead
    BY <1>1, <1>2, <1>3 DEF ToRead
  <2> QED BY <1>1, <1>2, <2>1, <2>2 DEF AnswersCounted
<1>7. Unexcused'
  <2> SUFFICES ASSUME ~excused' PROVE CalledInPlace' /\ Permitted' /\ AllExpected' /\ OneSwoThread'
    BY DEF Unexcused
  <2>1. CalledInPlace /\ Permitted /\ AllExpected /\ OneSwoThread
    BY <1>1 DEF Unexcused
  <2>2. CalledInPlace'
    BY <1>1, <1>2, <1>3, <2>1 DEF CalledInPlace
  <2>3. Permitted'
    BY <1>1, <2>1 DEF Permitted
  <2>4. AllExpected'
    BY <1>1, <1>2, <2>1 DEF AllExpected, Good, Expected
  <2>5. OneSwoThread'
    BY <1>1, <1>3, <2>1 DEF OneSwoThread
  <2> QED BY <2>2, <2>3, <2>4, <2>5
<1> QED BY <1>2, <1>4, <1>5, <1>6, <1>7

\* Without buffers something excuses the exception.
LEMMA NoBuffersStep ==
  ASSUME IInv, NoBuffers
  PROVE  IInv'
<1> USE DEF IInv
<1>1. /\ At("flush") \/ At("packet")
      /\ ~buffers /\ Raise
      /\ UNCHANGED <<backend, closed, rx, stop, permits, received, executing, endpoint>>
      /\ UNCHANGED <<owed, buffers, swo, orphans, swoEvent, swoOver>>
      /\ UNCHANGED <<outOfStep, misread, excused, opened, methods, faults>>
  BY DEF NoBuffers, interface, probe, trace
<1>2. ~Idle /\ ~waiting /\ ~At("join") /\ ~At("discard")
  BY <1>1, NotWaiting DEF Alone, At
<1>3. /\ ~Idle => excused
      /\ \A step : ~At(step)'
      /\ waiting' = FALSE
  BY <1>1, NoStep, RaiseFacts DEF Unexcused, CalledInPlace
<1>4. Types' /\ TodoInOrder' /\ PermitsBounded' /\ Closed' /\ Unopened'
  <2>1. /\ received' \in Seq(ItemType) /\ misread' \in BOOLEAN /\ outOfStep' \in BOOLEAN
        /\ excused' \in BOOLEAN /\ faults' \in 0..MaxFaults
    BY <1>1 DEF Types
  <2> QED BY <1>1, <1>2, <2>1, RaiseKeeps
<1>5. AnswersCounted'
  <2>1. OnItsWay' = OnItsWay
    BY <1>1 DEF OnItsWay, Answers
  <2>2. ToRead' = ToRead
    BY <1>1, <1>2, <1>3 DEF ToRead
  <2> QED BY <1>1, <1>3, <2>1, <2>2 DEF AnswersCounted
<1>6. Unexcused' /\ OwnAnswers'
  BY <1>1, <1>2, <1>3 DEF Unexcused, OwnAnswers
<1> QED BY <1>4, <1>5, <1>6

\* Closing wakes the thread; nothing is on its way then, and no read is in
\* progress, unless something excuses it.
LEMMA StopStep ==
  ASSUME IInv, Stop
  PROVE  IInv'
<1> USE DEF IInv
<1>1. /\ At("stop")
      /\ UNCHANGED <<backend, rx, received, executing, endpoint>>
      /\ UNCHANGED <<owed, buffers, swo, orphans, swoEvent, swoOver>>
      /\ UNCHANGED <<outOfStep, misread, excused, opened, methods, faults>>
  BY DEF Stop, probe, trace
<1>2. /\ ~Idle /\ ~waiting /\ opened # 0 /\ owed = << >> /\ swo = "none"
      /\ ~At("join") /\ ~At("discard") /\ ~At("interface") /\ ~At("stop_swo")
  BY <1>1, NotWaiting DEF Alone, At, Closed, Unopened
<1>3. OnItsWay' = OnItsWay
  BY <1>1 DEF OnItsWay, Answers
<1>4. CASE closed /\ backend = "pyusb"
  <2>1. Raise /\ UNCHANGED <<closed, stop, permits>>
    BY <1>4 DEF Stop
  <2>2. excused /\ (\A step : ~At(step)') /\ waiting' = FALSE
    BY <1>2, <1>4, <2>1, NoStep, RaiseFacts DEF Unexcused, CalledInPlace
  <2>3. Types' /\ TodoInOrder' /\ PermitsBounded' /\ Closed' /\ Unopened'
    <3>1. /\ received' \in Seq(ItemType) /\ misread' \in BOOLEAN /\ outOfStep' \in BOOLEAN
          /\ excused' \in BOOLEAN /\ faults' \in 0..MaxFaults
      BY <1>1 DEF Types
    <3> QED BY <1>1, <1>2, <2>1, <3>1, RaiseKeeps
  <2>4. ToRead' = ToRead
    BY <1>1, <1>2, <2>2 DEF ToRead
  <2>5. AnswersCounted'
    BY <1>1, <1>3, <2>2, <2>4 DEF AnswersCounted
  <2> QED BY <1>1, <2>2, <2>3, <2>5 DEF Unexcused, OwnAnswers
<1>5. CASE ~(closed /\ backend = "pyusb")
  <2>1. /\ closed' = TRUE /\ stop' = TRUE /\ Done /\ raised' = raised
        /\ permits' = permits \/ permits' = permits + 1
    BY <1>5 DEF Stop, Release
  <2>2. /\ waiting' = FALSE /\ permits' \in Nat
        /\ todo' \in Seq(StepNames) /\ TodoInOrder' /\ PermitsBounded' /\ ~At("buffers")'
    BY <1>1, <2>1, HostAlone DEF Alone
  <2>3. /\ ~At("flush")' /\ ~At("packet")' /\ ~At("interface")' /\ ~At("discard")'
        /\ ~At("stop")' /\ ~At("stop_swo")' /\ At("join")' /\ ~At("thread")'
        /\ HasThread' => HasThread
    <3>1. At("stop") /\ ~At("stop_swo") /\ ~At("flush") /\ ~At("control") /\ ~At("discard")
      BY <1>1 DEF At
    <3> QED BY <1>2, <2>1, <3>1, NextStep
  <2>4. Types'
    <3>1. permits' \in Nat /\ todo' \in Seq(StepNames) /\ waiting' \in BOOLEAN
      BY <2>2
    <3>2. closed' \in BOOLEAN /\ stop' \in BOOLEAN /\ raised' = raised
      BY <2>1
    <3> QED BY <1>1, <3>1, <3>2 DEF Types
  <2>5. Closed' /\ Unopened' /\ OwnAnswers'
    <3>1. Closed'
      BY <1>1, <1>2, <2>1, <2>2, <2>3 DEF Closed
    <3> QED BY <1>1, <1>2, <2>1, <3>1 DEF Unopened, OwnAnswers
  <2>6. ToRead = 0 /\ ToRead' = 0
    BY <1>1, <1>2, <2>2, <2>3 DEF ToRead
  <2>7. AnswersCounted'
    BY <1>1, <1>3, <2>2, <2>6 DEF AnswersCounted
  <2>8. Unexcused'
    <3> SUFFICES ASSUME ~excused'
                 PROVE  CalledInPlace' /\ Permitted' /\ AllExpected' /\ OneSwoThread'
      BY DEF Unexcused
    <3>1. CalledInPlace /\ Permitted /\ AllExpected /\ OneSwoThread
      BY <1>1 DEF Unexcused
    <3>2. CalledInPlace'
      BY <1>1, <2>1, <2>3, <3>1 DEF CalledInPlace
    <3>3. Permitted'
      <4>1. ~stop /\ OnItsWay = 0
        BY <1>2, <2>6, <3>1 DEF CalledInPlace, Closed, AnswersCounted
      <4>2. /\ Len(executing) \in Nat /\ Len(endpoint) \in Nat /\ Answers(received) \in Nat
            /\ permits \in Nat
        BY AnswersAre DEF Types
      <4>3. Len(executing) + Len(endpoint) = 0
        BY <4>1, <4>2 DEF OnItsWay
      <4>4. backend = "pyusb" => rx # "reading"
        BY <4>1, <4>2, <4>3, <3>1 DEF Permitted
      <4> QED BY <1>1, <2>1, <4>4 DEF Permitted
    <3>4. AllExpected'
      <4>1. Expected' = Expected
        BY <1>2, <2>2 DEF Expected
      <4> QED BY <1>1, <2>1, <3>1, <4>1 DEF AllExpected, Good
    <3>5. OneSwoThread'
      BY <1>1, <1>2, <2>3, <3>1 DEF OneSwoThread
    <3> QED BY <3>2, <3>3, <3>4, <3>5
  <2> QED BY <2>2, <2>4, <2>5, <2>7, <2>8
<1> QED BY <1>4, <1>5

\* The thread has ended: what was received is dropped, and is no answer.
LEMMA JoinStep ==
  ASSUME IInv, Join
  PROVE  IInv'
<1> USE DEF IInv
<1>1. /\ At("join") /\ Done
      /\ UNCHANGED <<backend, closed, stop, permits, executing, endpoint, owed, buffers>>
      /\ UNCHANGED <<swo, orphans, swoEvent, outOfStep, misread, raised, excused>>
      /\ UNCHANGED <<opened, methods, faults>>
  BY DEF Join, probe, history
<1>2. /\ backend = "pyusb" => rx = "ended" /\ rx' = "none" /\ received' = << >> /\ ~swoOver'
      /\ backend # "pyusb" => UNCHANGED <<rx, received, swoOver>>
  BY DEF Join
<1>3. /\ ~Idle /\ ~waiting /\ waiting' = FALSE
      /\ \A other : At(other) <=> other = "join"
      /\ todo' \in Seq(StepNames) /\ TodoInOrder' /\ PermitsBounded'
  BY <1>1, HostAlone DEF Alone
<1>4. /\ Idle' /\ (\A step : ~At(step)') /\ ~HasThread'
  <2>1. Idle'
    BY <1>1, <1>3, DoneFacts DEF At, Follows
  <2> QED BY <2>1 DEF At, HasThread, Idle
<1>5. /\ closed /\ owed = << >> /\ swo = "none" /\ backend \in {"pyusb", "pywinusb"}
      /\ opened # 0 /\ ~At("discard") /\ ~At("interface")
  BY <1>1, <1>3 DEF Types, Closed, Unopened
<1>6. Types'
  <2>1. << >> \in Seq(ItemType)
    OBVIOUS
  <2>2. /\ received' \in Seq(ItemType) /\ swoOver' \in BOOLEAN
        /\ rx' \in {"none", "loop", "acquire", "reading", "ended"}
    BY <1>2, <1>5, <2>1 DEF Types, Join
  <2>3. Types
    BY Zenon
  <2> HIDE DEF IInv
  <2>4. /\ closed' \in BOOLEAN /\ stop' \in BOOLEAN /\ permits' \in Nat /\ backend' = backend
        /\ endpoint' \in Seq(AnswerType) /\ executing' \in Seq(Codes)
    BY <1>1, <2>3, Zenon DEF Types
  <2>5. /\ owed' \in Seq({"packet"}) /\ Len(owed') <= PacketCount /\ buffers' \in BOOLEAN
        /\ swo' \in {"none", "reading", "ended"} /\ orphans' \in Nat
        /\ swoEvent' \in {"none", "clear", "set"}
    BY <1>1, <2>3, Zenon DEF Types
  <2>6. /\ outOfStep' \in BOOLEAN /\ misread' \in BOOLEAN /\ raised' \in BOOLEAN
        /\ excused' \in BOOLEAN /\ opened' \in Nat
        /\ methods' \in 0..MaxMethods /\ faults' \in 0..MaxFaults
    BY <1>1, <2>3, Zenon DEF Types
  <2>7. waiting' \in BOOLEAN
    BY <1>3
  <2> QED BY <1>3, <1>5, <2>2, <2>4, <2>5, <2>6, <2>7, Zenon DEF Types
<1>7. Closed' /\ Unopened' /\ OwnAnswers'
  <2>1. Closed'
    BY <1>1, <1>2, <1>3, <1>4, <1>5 DEF Closed
  <2> QED BY <1>1, <1>5, <2>1 DEF Unopened, OwnAnswers
<1>8. ToRead = 0 /\ ToRead' = 0
  BY <1>1, <1>3, <1>4, <1>5 DEF ToRead
<1>9. AnswersCounted'
  <2>1. ~outOfStep => OnItsWay' = 0
    <3>1. ~outOfStep => OnItsWay = 0
      BY <1>8 DEF AnswersCounted
    <3>2. Len(executing) \in Nat /\ Len(endpoint) \in Nat /\ Answers(received) \in Nat
      BY AnswersAre DEF Types
    <3>3. ~outOfStep => Len(executing) = 0 /\ Len(endpoint) = 0 /\ Answers(received) = 0
      BY <3>1, <3>2 DEF OnItsWay
    <3>4. ~outOfStep => Answers(received') = 0
      BY <1>2, <3>3, NoAnswers
    <3> QED BY <1>1, <3>3, <3>4 DEF OnItsWay
  <2> QED BY <1>1, <1>3, <1>4, <1>8, <2>1 DEF AnswersCounted
<1>10. Unexcused'
  <2> SUFFICES ASSUME ~excused' PROVE CalledInPlace' /\ Permitted' /\ AllExpected' /\ OneSwoThread'
    BY DEF Unexcused
  <2>1. CalledInPlace /\ Permitted /\ AllExpected /\ OneSwoThread
    BY <1>1 DEF Unexcused
  <2>2. CalledInPlace'
    BY <1>1, <1>4, <2>1 DEF CalledInPlace
  <2>3. Permitted'
    BY <1>1, <1>2, <2>1 DEF Permitted
  <2>4. AllExpected'
    <3>1. Expected' = Expected
      BY <1>3 DEF Expected
    <3> QED BY <1>1, <1>5, <2>1, <3>1 DEF AllExpected, Good
  <2>5. OneSwoThread'
    <3>1. ~swoOver'
      BY <1>2, <1>5 DEF Closed
    <3> QED BY <1>1, <1>3, <1>4, <1>5, <2>1, <3>1 DEF OneSwoThread
  <2> QED BY <2>2, <2>3, <2>4, <2>5
<1> QED BY <1>3, <1>6, <1>7, <1>9, <1>10

\* SWO starts with no thread that still reads, unless something excuses it.
LEMMA StartSwoStep ==
  ASSUME IInv, StartSwo
  PROVE  IInv'
<1> USE DEF IInv
<1>1. /\ At("thread") /\ Done
      /\ UNCHANGED <<backend, closed, rx, stop, permits, received, executing, endpoint>>
      /\ UNCHANGED <<owed, buffers, swoOver, outOfStep, misread, raised, excused>>
      /\ UNCHANGED <<opened, methods, faults>>
  BY DEF StartSwo, interface, probe, history
<1>2. /\ backend = "pyusb" => /\ orphans' = IF swo = "reading" THEN orphans + 1 ELSE orphans
                              /\ swo' = "reading" /\ swoEvent' = "clear"
      /\ backend # "pyusb" => UNCHANGED <<swo, orphans, swoEvent>>
  BY DEF StartSwo
<1>3. /\ ~Idle /\ ~waiting /\ waiting' = FALSE
      /\ \A other : At(other) <=> other = "thread"
      /\ todo' \in Seq(StepNames) /\ TodoInOrder' /\ PermitsBounded'
  BY <1>1, HostAlone DEF Alone
<1>4. /\ Idle' /\ (\A step : ~At(step)') /\ ~HasThread'
  <2>1. Idle'
    BY <1>1, <1>3, DoneFacts DEF At, Follows
  <2> QED BY <2>1 DEF At, HasThread, Idle
<1>5. /\ ~closed /\ backend \in {"pyusb", "pywinusb"} /\ orphans \in Nat
      /\ opened # 0 /\ ~At("discard") /\ ~At("interface") /\ ~At("join")
      /\ ~At("stop") /\ ~At("stop_swo")
  BY <1>1, <1>3 DEF Types, Closed, Unopened
<1>6. Types'
  <2>1. orphans' \in Nat /\ swo' \in {"none", "reading", "ended"}
        /\ swoEvent' \in {"none", "clear", "set"}
    BY <1>2, <1>5 DEF Types
  <2>2. waiting' \in BOOLEAN /\ todo' \in Seq(StepNames)
    BY <1>3
  <2> QED BY <1>1, <2>1, <2>2 DEF Types
<1>7. Closed' /\ Unopened' /\ OwnAnswers'
  <2>1. Closed'
    BY <1>1, <1>2, <1>4, <1>5 DEF Closed
  <2> QED BY <1>1, <1>5, <2>1 DEF Unopened, OwnAnswers
<1>8. AnswersCounted'
  <2>1. OnItsWay' = OnItsWay
    BY <1>1 DEF OnItsWay, Answers
  <2>2. ToRead' = ToRead
    BY <1>1, <1>3, <1>4, <1>5 DEF ToRead
  <2> QED BY <1>1, <1>3, <1>4, <2>1, <2>2 DEF AnswersCounted
<1>9. Unexcused'
  <2> SUFFICES ASSUME ~excused' PROVE CalledInPlace' /\ Permitted' /\ AllExpected' /\ OneSwoThread'
    BY DEF Unexcused
  <2>1. CalledInPlace /\ Permitted /\ AllExpected /\ OneSwoThread
    BY <1>1 DEF Unexcused
  <2>2. CalledInPlace'
    BY <1>1, <1>4, <2>1 DEF CalledInPlace
  <2>3. Permitted'
    BY <1>1, <2>1 DEF Permitted
  <2>4. AllExpected'
    BY <1>1, <1>3, <2>1 DEF AllExpected, Good, Expected
  <2>5. OneSwoThread'
    <3>1. HasThread
      BY <1>1, TodoFacts DEF Types, At, HasThread
    <3>2. swo # "reading" /\ ~swoOver /\ orphans = 0 /\ swo # "ended"
      BY <1>5, <2>1, <3>1 DEF OneSwoThread
    <3> QED BY <1>1, <1>2, <1>4, <2>1, <3>2 DEF OneSwoThread
  <2> QED BY <2>2, <2>3, <2>4, <2>5
<1> QED BY <1>3, <1>6, <1>7, <1>8, <1>9

\* Only close stops SWO: it sets the event, and joins the thread.
LEMMA StopSwoStep ==
  ASSUME IInv, StopSwo
  PROVE  IInv'
<1> USE DEF IInv
<1>1. /\ At("stop_swo")
      /\ UNCHANGED <<backend, closed, rx, stop, permits, received, executing, endpoint>>
      /\ UNCHANGED <<owed, buffers, orphans, swoOver, outOfStep, misread, raised, excused>>
      /\ UNCHANGED <<opened, methods, faults>>
  BY DEF StopSwo, interface, probe, history
<1>2. /\ ~Idle /\ ~waiting /\ ~At("discard") /\ ~At("interface") /\ ~At("join")
      /\ ~At("thread") /\ ~At("stop") /\ opened # 0 /\ owed = << >>
      /\ ~At("buffers") /\ ~At("control") /\ ~At("flush") /\ ~At("packet")
  BY <1>1, NotWaiting DEF Alone, At, Closed, Unopened
<1>3. OnItsWay' = OnItsWay
  BY <1>1 DEF OnItsWay, Answers
<1>4. CASE UNCHANGED <<todo, waiting>> /\ swo # "none" /\ swoEvent' = "set" /\ swo' = swo
                /\ ~closed
  <2>1. TodoInOrder' /\ PermitsBounded' /\ \A step : (At(step)' <=> At(step))
    BY <1>1, <1>4, TodoFrame DEF PermitsBounded
  <2>2. Types'
    BY <1>1, <1>4 DEF Types
  <2>3. Closed' /\ Unopened' /\ OwnAnswers'
    BY <1>1, <1>2, <1>4, <2>1 DEF Closed, Unopened, OwnAnswers
  <2>4. ToRead' = ToRead
    BY <1>1, <1>4, <2>1 DEF ToRead
  <2>5. AnswersCounted'
    BY <1>1, <1>3, <1>4, <2>1, <2>4 DEF AnswersCounted
  <2>6. Unexcused'
    <3> SUFFICES ASSUME ~excused'
                 PROVE  CalledInPlace' /\ Permitted' /\ AllExpected' /\ OneSwoThread'
      BY DEF Unexcused
    <3>1. CalledInPlace /\ Permitted /\ AllExpected /\ OneSwoThread
      BY <1>1 DEF Unexcused
    <3>2. CalledInPlace'
      BY <1>1, <1>4, <2>1, <3>1, TodoFrame DEF CalledInPlace
    <3>3. Permitted'
      BY <1>1, <3>1 DEF Permitted
    <3>4. AllExpected'
      BY <1>1, <1>4, <3>1, TodoFrame DEF AllExpected, Good
    <3>5. OneSwoThread'
      BY <1>1, <1>4, <2>1, <3>1 DEF OneSwoThread, HasThread
    <3> QED BY <3>2, <3>3, <3>4, <3>5
  <2> QED BY <2>1, <2>2, <2>3, <2>5, <2>6
<1>5. CASE Done /\ swo' = "none" /\ swoEvent' \in {"none", "clear", "set"}
           /\ ((swo = "none" /\ swoEvent' = swoEvent) \/ swoEvent' = "none")
  <2>1. /\ waiting' = FALSE
        /\ todo' \in Seq(StepNames) /\ TodoInOrder' /\ PermitsBounded' /\ ~At("buffers")'
    BY <1>1, <1>5, HostAlone DEF Alone
  <2>2. /\ ~At("flush")' /\ ~At("packet")' /\ ~At("interface")' /\ ~At("discard")'
        /\ At("stop")' /\ ~At("stop_swo")' /\ ~At("join")' /\ ~At("thread")'
        /\ HasThread' => HasThread
    BY <1>1, <1>2, <1>5, NextStep
  <2>3. Types'
    <3>1. waiting' \in BOOLEAN /\ todo' \in Seq(StepNames)
      BY <2>1
    <3> QED BY <1>1, <1>5, <3>1 DEF Types
  <2>4. Closed' /\ Unopened' /\ OwnAnswers'
    <3>1. Closed'
      BY <1>1, <1>2, <1>5, <2>1, <2>2 DEF Closed
    <3> QED BY <1>1, <1>2, <3>1 DEF Unopened, OwnAnswers
  <2>5. ToRead' = ToRead
    BY <1>1, <1>2, <2>1, <2>2 DEF ToRead
  <2>6. AnswersCounted'
    BY <1>1, <1>3, <2>1, <2>5 DEF AnswersCounted
  <2>7. Unexcused'
    <3> SUFFICES ASSUME ~excused'
                 PROVE  CalledInPlace' /\ Permitted' /\ AllExpected' /\ OneSwoThread'
      BY DEF Unexcused
    <3>1. CalledInPlace /\ Permitted /\ AllExpected /\ OneSwoThread
      BY <1>1 DEF Unexcused
    <3>2. CalledInPlace'
      BY <1>1, <1>2, <2>2, <3>1 DEF CalledInPlace
    <3>3. Permitted'
      BY <1>1, <3>1 DEF Permitted
    <3>4. AllExpected'
      BY <1>1, <1>2, <2>1, <3>1 DEF AllExpected, Good, Expected
    <3>5. OneSwoThread'
      BY <1>1, <1>5, <2>2, <3>1 DEF OneSwoThread
    <3> QED BY <3>2, <3>3, <3>4, <3>5
  <2> QED BY <2>1, <2>3, <2>4, <2>6, <2>7
<1>6. \/ UNCHANGED <<todo, waiting>> /\ swo # "none" /\ swoEvent' = "set" /\ swo' = swo
                /\ ~closed
      \/ Done /\ swo' = "none" /\ swoEvent' \in {"none", "clear", "set"}
           /\ ((swo = "none" /\ swoEvent' = swoEvent) \/ swoEvent' = "none")
  BY DEF StopSwo, Closed, Types
<1> QED BY <1>4, <1>5, <1>6

\* The end of a thread is read only after it was stopped.
LEMMA ReadSwoStep ==
  ASSUME IInv, ReadSwo
  PROVE  IInv'
<1> USE DEF IInv
<1>1. /\ At("swo_data")
      /\ UNCHANGED <<backend, closed, rx, stop, permits, received, executing, endpoint>>
      /\ UNCHANGED <<owed, buffers, swo, orphans, swoEvent, swoOver>>
      /\ UNCHANGED <<outOfStep, misread, excused, opened, methods, faults>>
      /\ \/ swoOver /\ Raise
         \/ ~swoOver /\ Done /\ raised' = raised
  BY DEF ReadSwo, interface, probe, trace, Types
<1>2. /\ ~Idle /\ ~waiting /\ ~At("discard") /\ ~At("interface") /\ ~At("join")
      /\ ~At("thread") /\ ~At("stop") /\ ~At("stop_swo") /\ opened # 0
  BY <1>1, NotWaiting DEF Alone, At, Unopened
<1>3. OnItsWay' = OnItsWay
  BY <1>1 DEF OnItsWay, Answers
<1>4. Idle' /\ waiting' = FALSE /\ (\A step : ~At(step)') /\ ~HasThread'
  <2>1. Idle'
    BY <1>1, <1>2, DoneFacts, RaiseFacts DEF At, Follows
  <2>2. waiting' = FALSE
    BY <1>1 DEF Done, Raise
  <2>3. todo' = << >> /\ \A step : ~At(step)'
    BY <2>1 DEF At, Idle
  <2>4. ~HasThread'
    BY <2>3 DEF HasThread
  <2> QED BY <2>1, <2>2, <2>3, <2>4
<1>5. Types' /\ TodoInOrder' /\ PermitsBounded' /\ Closed' /\ Unopened'
  <2>1. CASE Raise
    <3>1. /\ received' \in Seq(ItemType) /\ misread' \in BOOLEAN /\ outOfStep' \in BOOLEAN
          /\ excused' \in BOOLEAN /\ faults' \in 0..MaxFaults
      BY <1>1 DEF Types
    <3> QED BY <1>1, <1>2, <2>1, <3>1, RaiseKeeps
  <2>2. CASE Done /\ raised' = raised
    <3>1. todo' \in Seq(StepNames) /\ TodoInOrder' /\ PermitsBounded'
      BY <1>1, <2>2, HostAlone DEF Alone
    <3>2. Types'
      <4>1. /\ UNCHANGED <<backend, closed, rx, stop, permits, received, executing, endpoint>>
            /\ UNCHANGED <<owed, buffers, swo, orphans, swoEvent, swoOver, raised>>
            /\ UNCHANGED <<outOfStep, misread, excused, opened, methods, faults>>
        BY <1>1, <2>2
      <4>2. todo' \in Seq(StepNames) /\ waiting' \in BOOLEAN
        BY <1>4, <3>1
      <4> QED BY <4>1, <4>2 DEF Types
    <3>3. Closed'
      BY <1>1, <1>2, <1>4 DEF Closed
    <3> QED BY <1>1, <1>2, <3>1, <3>2, <3>3 DEF Unopened
  <2> QED BY <1>1, <2>1, <2>2
<1>6. AnswersCounted' /\ OwnAnswers'
  <2>1. ToRead' = ToRead
    BY <1>1, <1>2, <1>4 DEF ToRead
  <2> QED BY <1>1, <1>3, <1>4, <2>1 DEF AnswersCounted, OwnAnswers
<1>7. Unexcused'
  <2> SUFFICES ASSUME ~excused' PROVE CalledInPlace' /\ Permitted' /\ AllExpected' /\ OneSwoThread'
    BY DEF Unexcused
  <2>1. CalledInPlace /\ Permitted /\ AllExpected /\ OneSwoThread
    BY <1>1 DEF Unexcused
  <2>2. raised' = raised
    BY <1>1, <1>2, <2>1 DEF OneSwoThread
  <2>3. CalledInPlace'
    BY <1>1, <1>4, <2>1, <2>2 DEF CalledInPlace
  <2>4. Permitted'
    BY <1>1, <2>1 DEF Permitted
  <2>5. AllExpected'
    BY <1>1, <1>2, <1>4, <2>1 DEF AllExpected, Good, Expected
  <2>6. OneSwoThread'
    BY <1>1, <1>2, <1>4, <2>1 DEF OneSwoThread
  <2> QED BY <2>3, <2>4, <2>5, <2>6
<1> QED BY <1>5, <1>6, <1>7

\* What is read: the first item that was received, with the rest behind it.
LEMMA ReadFacts ==
  ASSUME IInv, Read
  PROVE  /\ received' = Tail(received) /\ excused' = excused
         /\ UNCHANGED <<backend, closed, rx, stop, permits, executing, endpoint, buffers>>
         /\ UNCHANGED <<swo, orphans, swoEvent, swoOver, opened, methods, faults>>
         /\ received' \in Seq(ItemType) /\ received # << >> /\ Head(received) \in ItemType
         /\ ~Idle /\ ~closed /\ opened # 0 /\ ~At("interface") /\ ~At("stop_swo") /\ ~At("stop")
         /\ ~At("join") /\ ~At("thread") /\ ~At("buffers")
         /\ Behind \in Nat /\ OnItsWay' = Behind
         /\ OnItsWay = Behind + (IF IsAnswer(Head(received)) THEN 1 ELSE 0)
<1> USE DEF IInv
<1>1. /\ Reads /\ received' = Tail(received) /\ excused' = excused /\ received # << >>
      /\ UNCHANGED <<backend, closed, rx, stop, permits, executing, endpoint, buffers>>
      /\ UNCHANGED <<swo, orphans, swoEvent, swoOver, opened, methods, faults>>
  BY DEF Read, probe, trace
<1>2. ~Idle /\ ~closed /\ ~At("interface") /\ ~At("stop_swo") /\ ~At("stop")
         /\ ~At("join") /\ ~At("thread") /\ ~At("buffers")
  <2>1. CASE waiting
    BY <2>1, CommandStep DEF TodoInOrder, Alone, Closed
  <2>2. CASE At("flush") /\ owed # << >>
    BY <2>2 DEF At, Closed
  <2>3. CASE At("packet") /\ Len(owed) >= PacketCount
    <3>1. owed # << >>
      BY <2>3, ProbeLinkAssumption DEF ProbeLinkAssumption
    <3> QED BY <2>3, <3>1 DEF At, Closed
  <2>4. CASE At("discard")
    BY <2>4 DEF At, Closed
  <2> QED BY <1>1, <2>1, <2>2, <2>3, <2>4 DEF Reads, ReadsPacket
<1>3. opened # 0
  BY <1>2 DEF Unopened
<1>4. /\ Len(executing) \in Nat /\ Len(endpoint) \in Nat /\ received \in Seq(ItemType)
  BY DEF Types
<1>5. received' \in Seq(ItemType) /\ Head(received) \in ItemType
  BY <1>1, <1>4, DropHead
<1>6. /\ Answers(received') \in Nat
      /\ Answers(received) = Answers(received') + (IF IsAnswer(Head(received)) THEN 1 ELSE 0)
      /\ Cardinality({i \in 2..Len(received) : IsAnswer(received[i])}) = Answers(received')
  BY <1>1, <1>4, AnswersTail
<1>7. Behind = Len(executing) + Len(endpoint) + Answers(received')
  BY <1>6 DEF Behind
<1>8. OnItsWay' = Behind
  BY <1>1, <1>7 DEF OnItsWay
<1>9. Behind \in Nat
  BY <1>4, <1>6, <1>7
<1>10. OnItsWay = Behind + (IF IsAnswer(Head(received)) THEN 1 ELSE 0)
  <2>1. \A x, y, n, m, k \in Nat : n = m + k => x + y + n = (x + y + m) + k
    OBVIOUS
  <2>2. (IF IsAnswer(Head(received)) THEN 1 ELSE 0) \in Nat /\ Answers(received) \in Nat
    BY <1>4, AnswersAre
  <2>3. Len(executing) + Len(endpoint) + Answers(received)
          = Len(executing) + Len(endpoint) + Answers(received')
              + (IF IsAnswer(Head(received)) THEN 1 ELSE 0)
    BY <1>4, <1>6, <2>1, <2>2
  <2> QED BY <1>7, <2>3 DEF OnItsWay
<1> QED BY <1>1, <1>2, <1>3, <1>5, <1>8, <1>9, <1>10

\* While nothing excuses an exception, it is the answer that is expected.
LEMMA ReadsExpected ==
  ASSUME IInv, Read, ~excused
  PROVE  /\ Good(Head(received)) /\ CalledInPlace /\ Permitted /\ OneSwoThread
         /\ \A i \in 1..Len(executing') : executing'[i] = Expected
         /\ \A i \in 1..Len(endpoint') : Good(endpoint'[i])
         /\ \A i \in 1..Len(received') : Good(received'[i])
<1> USE DEF IInv
<1>1. CalledInPlace /\ Permitted /\ AllExpected /\ OneSwoThread
  BY DEF Unexcused
<1>2. ~closed /\ received' = Tail(received) /\ received # << >> /\ received \in Seq(ItemType)
        /\ UNCHANGED <<executing, endpoint>>
  BY ReadFacts DEF Types
<1>3. /\ Head(received) = received[1] /\ Len(received) \in Nat \ {0}
      /\ Len(received') = Len(received) - 1
      /\ \A i \in 1..Len(received) - 1 : received'[i] = received[i + 1]
  BY <1>2, DropHead
<1>4. \A i \in 1..Len(received) : Good(received[i])
  BY <1>1, <1>2 DEF AllExpected
<1>5. Good(Head(received)) /\ \A i \in 1..Len(received') : Good(received'[i])
  BY <1>3, <1>4
<1> QED BY <1>1, <1>2, <1>5 DEF AllExpected

\* An error of USB is read.
LEMMA ReadErrorStep ==
  ASSUME IInv, Read, ~IsAnswer(Head(received))
  PROVE  IInv'
<1> USE DEF IInv
<1>1. Raise /\ outOfStep' = TRUE /\ (owed' = owed \/ owed' = << >>) /\ misread' = misread
  BY DEF Read
<1>2. excused
  BY ReadsExpected DEF Good
<1>3. Types' /\ TodoInOrder' /\ PermitsBounded' /\ Closed' /\ Unopened'
  <2>1. misread' \in BOOLEAN /\ outOfStep' \in BOOLEAN /\ excused' \in BOOLEAN
        /\ faults' \in 0..MaxFaults
    BY <1>1, ReadFacts DEF Types
  <2> QED BY <1>1, <2>1, ReadFacts, RaiseKeeps
<1>4. AnswersCounted' /\ Unexcused' /\ OwnAnswers'
  BY <1>1, <1>2, ReadFacts DEF AnswersCounted, Unexcused, OwnAnswers
<1> QED BY <1>3, <1>4

\* A refusal to configure SWO leaves these steps.
LEMMA RefusedSteps ==
  ASSUME todo' = SwoDisable \o SwoControl, waiting' = FALSE
  PROVE  /\ todo' \in Seq(StepNames) /\ TodoInOrder' /\ ~Idle' /\ Weight' = 3
         /\ \A step \in Alone : ~At(step)'
<1> DEFINE S == {"off", "unroute", "control", "thread"}
           a == <<"off", "unroute">>
           b == <<"control", "thread">>
           c == <<"off", "unroute", "control", "thread">>
<1>1. /\ a \in Seq(S) /\ b \in Seq(S) /\ c \in Seq(S)
      /\ Len(a) = 2 /\ Len(b) = 2 /\ Len(c) = 4
  OBVIOUS
<1>2. a \o b \in Seq(S) /\ Len(a \o b) = 4 /\ \A i \in 1..4 : (a \o b)[i] = c[i]
  BY <1>1
<1>3. a \o b = c
  BY <1>1, <1>2, SeqEqual
<1>4. todo' = c
  BY <1>3 DEF SwoDisable, SwoControl
<1>5. S \subseteq StepNames
  BY DEF StepNames, Alone, Exchanged, Confirmed, Queries, Reports, PortCommands,
     TransferCommands, SwdCommands, JtagCommands, SwoCommands
<1>6. c \in Seq(StepNames)
  BY <1>5
<1>7. Head(c) = "off" /\ c[4] = "thread" /\ c # << >>
  OBVIOUS
<1>8. \A i \in 1..3 : Follows(c[i], c[i + 1])
  BY DEF Follows
<1> HIDE DEF c
<1>9. ~Idle' /\ (\A step \in Alone : ~At(step)') /\ ~At("interface")'
  BY <1>4, <1>7 DEF Idle, At, Alone
<1>10. Weight' = 3
  BY <1>4, <1>7, <1>9 DEF Weight, WeightOf
<1>11. TodoInOrder'
  BY <1>1, <1>4, <1>7, <1>8, <1>9 DEF TodoInOrder, c
<1> QED BY <1>4, <1>6, <1>9, <1>10, <1>11

\* The two commands of _swo_disable are skipped when the first is refused.
LEMMA SkippedSteps ==
  ASSUME Types, TodoInOrder, At("off"), todo' = Tail(Tail(todo)), waiting' = FALSE
  PROVE  /\ todo' \in Seq(StepNames) /\ TodoInOrder' /\ Weight' \in 0..1
         /\ \A step \in Alone : ~At(step)'
<1> DEFINE n == Len(todo)
           u == Tail(todo)
<1>1. ~Idle /\ Head(todo) = "off"
  BY DEF At
<1>2. /\ todo \in Seq(StepNames) /\ n \in Nat \ {0} /\ todo[1] = "off"
      /\ u \in Seq(StepNames) /\ Len(u) = n - 1 /\ \A i \in 1..n - 1 : u[i] = todo[i + 1]
  BY <1>1, TodoFacts DEF Types
<1>3. /\ \A i \in 1..n - 1 : Follows(todo[i], todo[i + 1])
      /\ todo[n] \notin {"stop_swo", "stop", "off"}
  BY <1>1 DEF TodoInOrder
<1>4. n > 1 /\ u # << >> /\ todo[2] = "unroute"
  <2>1. n > 1
    BY <1>2, <1>3
  <2>2. Follows(todo[1], todo[2])
    BY <1>2, <1>3, <2>1
  <2> HIDE DEF u
  <2>3. u # << >>
    BY <1>2, <2>1
  <2> QED BY <1>2, <2>1, <2>2, <2>3 DEF Follows
<1>5. /\ todo' \in Seq(StepNames) /\ Len(todo') = n - 2
      /\ \A i \in 1..n - 2 : todo'[i] = todo[i + 2]
  <2>1. /\ Tail(u) \in Seq(StepNames) /\ Len(Tail(u)) = Len(u) - 1
        /\ \A i \in 1..Len(u) - 1 : Tail(u)[i] = u[i + 1]
    BY <1>2, <1>4, DropHead
  <2> HIDE DEF u
  <2>2. todo' = Tail(u) /\ Len(u) - 1 = n - 2
    BY <1>2 DEF u
  <2>3. ASSUME NEW i \in 1..n - 2 PROVE todo'[i] = todo[i + 2]
    <3>1. i \in 1..Len(u) - 1 /\ i + 1 \in 1..n - 1 /\ (i + 1) + 1 = i + 2
      BY <1>2, <2>2
    <3> QED BY <1>2, <2>1, <2>2, <3>1
  <2> QED BY <2>1, <2>2, <2>3
<1> HIDE DEF u
<1>6. CASE n = 2
  <2>1. Len(todo') = 0 /\ todo' \in Seq(StepNames)
    BY <1>5, <1>6
  <2>2. todo' = << >>
    BY <2>1, LenZero
  <2>3. Weight' = 0 /\ TodoInOrder' /\ Idle'
    BY <2>2, NothingLeft
  <2>4. \A step \in Alone : ~At(step)'
    BY <2>3 DEF At
  <2>5. Weight' \in 0..1
    BY <2>3
  <2> QED BY <2>1, <2>3, <2>4, <2>5
<1>7. CASE n > 2
  <2>1. todo' # << >> /\ 1 \in 1..n - 2
    <3>1. \A s \in Seq(StepNames) : Len(s) > 0 => s # << >>
      OBVIOUS
    <3>2. Len(todo') > 0 /\ 1 \in 1..n - 2
      BY <1>2, <1>5, <1>7
    <3> QED BY <1>5, <3>1, <3>2
  <2>2. ~Idle' /\ Head(todo') = todo[3]
    BY <1>5, <2>1 DEF Idle
  <2>3. Follows(todo[2], todo[3])
    BY <1>2, <1>3, <1>7
  <2>4. Head(todo') = "control"
    BY <1>4, <2>2, <2>3 DEF Follows
  <2>5. (\A step \in Alone : ~At(step)') /\ ~At("interface")'
    BY <2>4 DEF At, Alone
  <2>6. Weight' = 1
    BY <2>2, <2>4 DEF Weight, WeightOf
  <2>7. ASSUME NEW i \in 1..Len(todo') - 1 PROVE Follows(todo'[i], todo'[i + 1])
    <3>1. i \in 1..n - 2 /\ i + 1 \in 1..n - 2 /\ i + 2 \in 1..n - 1
      BY <1>2, <1>5, <1>7
    <3>2. todo'[i] = todo[i + 2] /\ todo'[i + 1] = todo[(i + 2) + 1]
      BY <3>1, <1>5
    <3> QED BY <3>1, <3>2, <1>3
  <2>8. todo'[Len(todo')] = todo[n]
    <3>1. n - 2 \in 1..n - 2 /\ (n - 2) + 2 = n
      BY <1>2, <1>7
    <3> QED BY <3>1, <1>5
  <2>9. TodoInOrder'
    BY <1>3, <2>5, <2>7, <2>8 DEF TodoInOrder
  <2> QED BY <1>5, <2>5, <2>6, <2>9
<1>8. n = 2 \/ n > 2
  BY <1>2, <1>4
<1> QED BY <1>6, <1>7, <1>8

\* The answer of a command: what the method does next.
LEMMA AnswerGoesOn ==
  ASSUME IInv, Read, ReadAnswer(Head(received)), waiting, ~Raise
  PROVE  /\ waiting' = FALSE /\ raised' = raised
         /\ todo' \in Seq(StepNames) /\ TodoInOrder' /\ Weight' \in Nat /\ Weight' <= Weight - 1
         /\ \A step \in Alone \ {"thread", "buffers"} : ~At(step)'
         /\ excused \/ Done
<1> USE DEF IInv
<1> DEFINE h == Head(todo)
           a == Head(received)
<1>1. /\ ~Idle /\ Direct(h) /\ (\A step \in Alone : ~At(step)) /\ Weight \in Nat
  BY CommandStep, WeightFacts DEF TodoInOrder
<1>2. \/ Done /\ raised' = raised
      \/ /\ ~a.ok /\ h \in {"transport", "mode", "baudrate"}
         /\ todo' = SwoDisable \o SwoControl /\ waiting' = FALSE /\ raised' = raised
      \/ /\ ~a.ok /\ h = "off"
         /\ todo' = Tail(Tail(todo)) /\ waiting' = FALSE /\ raised' = raised
  BY DEF ReadAnswer
<1>3. ~a.ok => excused
  BY ReadsExpected DEF Good
<1>4. CASE Done /\ raised' = raised
  <2>1. waiting' = FALSE /\ todo' \in Seq(StepNames) /\ TodoInOrder'
    BY <1>1, <1>4, DoneFacts
  <2>2. Head(todo) \notin {"interface", "thread", "discard"}
    BY <1>1 DEF At, Alone
  <2>3. Weight' \in Nat /\ Weight' <= Weight - 1
    BY <1>1, <1>4, <2>2, DoneWeight
  <2>4. \A step \in Alone \ {"thread", "buffers"} : ~At(step)'
    BY <1>1, <1>4, NextStep DEF Alone
  <2> QED BY <1>4, <2>1, <2>3, <2>4
<1>5. CASE /\ ~a.ok /\ h \in {"transport", "mode", "baudrate"}
           /\ todo' = SwoDisable \o SwoControl /\ waiting' = FALSE /\ raised' = raised
  <2>1. /\ todo' \in Seq(StepNames) /\ TodoInOrder' /\ Weight' = 3
        /\ \A step \in Alone : ~At(step)'
    BY <1>5, RefusedSteps
  <2>2. Weight >= 4
    BY <1>1, <1>5 DEF Weight, WeightOf
  <2>3. Weight' \in Nat /\ Weight' <= Weight - 1
    <3>1. \A w : w = 3 => w \in Nat /\ w <= Weight - 1
      BY <1>1, <2>2
    <3> QED BY <2>1, <3>1
  <2> QED BY <1>3, <1>5, <2>1, <2>3
<1>6. CASE /\ ~a.ok /\ h = "off"
           /\ todo' = Tail(Tail(todo)) /\ waiting' = FALSE /\ raised' = raised
  <2>1. /\ todo' \in Seq(StepNames) /\ TodoInOrder' /\ Weight' \in 0..1
        /\ \A step \in Alone : ~At(step)'
    BY <1>1, <1>6, SkippedSteps DEF At
  <2>2. Weight = 3
    BY <1>1, <1>6 DEF Weight, WeightOf
  <2>3. Weight' \in Nat /\ Weight' <= Weight - 1
    <3>1. \A w \in 0..1 : w \in Nat /\ w <= Weight - 1
      BY <1>1, <2>2
    <3> QED BY <2>1, <3>1
  <2> QED BY <1>3, <1>6, <2>1, <2>3
<1> QED BY <1>2, <1>4, <1>5, <1>6

\* The answer of a command is the last that was on its way.
LEMMA ReadAnswerStep ==
  ASSUME IInv, Read, IsAnswer(Head(received)), ReadAnswer(Head(received))
  PROVE  IInv'
<1> USE DEF IInv
<1> DEFINE a == Head(received)
<1>1. /\ waiting /\ misread' = (Behind # 0) /\ owed' = owed /\ outOfStep' = outOfStep
  BY DEF ReadAnswer
<1>2. /\ ~Idle /\ Direct(Head(todo)) /\ ~At("discard") /\ ~At("join") /\ ~At("flush")
      /\ ~At("packet")
  BY <1>1, CommandStep DEF TodoInOrder, Alone
<1>3. ~outOfStep => owed = << >> /\ OnItsWay = 1 /\ Behind = 0 /\ OnItsWay' = 0
  <2>1. ~outOfStep => owed = << >> /\ OnItsWay = ToRead
    BY <1>1 DEF AnswersCounted
  <2>2. ~outOfStep => ToRead = 1
    BY <1>1, <1>2, <2>1 DEF ToRead
  <2>3. Behind \in Nat /\ OnItsWay' = Behind /\ OnItsWay = Behind + 1
    BY ReadFacts
  <2> QED BY <2>1, <2>2, <2>3
<1>4. OwnAnswers'
  BY <1>1, <1>3 DEF OwnAnswers
<1>5. misread' \in BOOLEAN /\ outOfStep' \in BOOLEAN /\ excused' \in BOOLEAN
        /\ faults' \in 0..MaxFaults
  BY <1>1, ReadFacts DEF Types
<1>6. waiting' = FALSE /\ ~At("discard")' => AnswersCounted'
  <2> SUFFICES ASSUME waiting' = FALSE, ~At("discard")' PROVE AnswersCounted'
    OBVIOUS
  <2>1. ~outOfStep => ToRead' = 0
    BY <1>1, <1>3 DEF ToRead
  <2> QED BY <1>1, <1>3, <2>1 DEF AnswersCounted
<1>7. CASE Raise
  <2>1. /\ Types' /\ TodoInOrder' /\ PermitsBounded' /\ Closed' /\ Unopened'
    BY <1>1, <1>5, <1>7, ReadFacts, RaiseKeeps
  <2>2. excused
    <3> SUFFICES ASSUME ~excused PROVE FALSE
      OBVIOUS
    <3>1. Good(a) /\ CalledInPlace
      BY ReadsExpected
    <3>2. a.ok /\ ~OtherCommand(a, Head(todo))
      BY <1>1, <3>1 DEF Good, Expected, OtherCommand
    <3>3. raised' = raised
      BY <3>2 DEF ReadAnswer
    <3> QED BY <1>7, <3>1, <3>3 DEF Raise, CalledInPlace
  <2>3. waiting' = FALSE /\ ~At("discard")'
    BY <1>7, NoStep, RaiseFacts
  <2> QED BY <1>4, <1>6, <2>1, <2>2, <2>3, ReadFacts DEF Unexcused
<1>8. CASE ~Raise
  <2>1. /\ waiting' = FALSE /\ raised' = raised
        /\ todo' \in Seq(StepNames) /\ TodoInOrder' /\ Weight' \in Nat /\ Weight' <= Weight - 1
        /\ \A step \in Alone \ {"thread", "buffers"} : ~At(step)'
        /\ excused \/ Done
    BY <1>1, <1>8, AnswerGoesOn
  <2>2. /\ ~At("interface")' /\ ~At("flush")' /\ ~At("stop_swo")' /\ ~At("stop")' /\ ~At("join")'
        /\ ~At("packet")' /\ ~At("discard")'
    BY <2>1 DEF Alone
  <2>3. /\ UNCHANGED <<backend, closed, rx, stop, permits, executing, endpoint, buffers>>
        /\ UNCHANGED <<swo, orphans, swoEvent, swoOver, opened, methods, faults, excused>>
        /\ ~closed /\ opened # 0 /\ received' \in Seq(ItemType)
    BY ReadFacts
  <2>4. Types'
    <3>1. waiting' \in BOOLEAN /\ todo' \in Seq(StepNames)
      BY <2>1
    <3> QED BY <1>1, <1>5, <2>1, <2>3, <3>1 DEF Types
  <2>5. PermitsBounded'
    BY <2>1, <2>3, PermitsSpent
  <2>6. Closed' /\ Unopened'
    <3>1. backend = "pywinusb" => rx = "none" /\ endpoint = << >> /\ swo = "none"
                                    /\ orphans = 0 /\ ~swoOver
      BY DEF Closed
    <3>2. stop => closed
      BY DEF Closed
    <3> QED BY <1>1, <2>2, <2>3, <3>1, <3>2 DEF Closed, Unopened
  <2>7. Unexcused'
    <3> SUFFICES ASSUME ~excused'
                 PROVE  CalledInPlace' /\ Permitted' /\ AllExpected' /\ OneSwoThread'
      BY DEF Unexcused
    <3>1. /\ ~excused /\ Done /\ CalledInPlace /\ Permitted /\ OneSwoThread
          /\ \A i \in 1..Len(received') : Good(received'[i])
      BY <2>1, <2>3, ReadsExpected
    <3>2. HasThread' => HasThread
      BY <1>2, <3>1, NextStep
    <3>3. CalledInPlace'
      BY <1>1, <2>1, <2>2, <2>3, <3>1 DEF CalledInPlace
    <3>4. Permitted'
      BY <2>3, <3>1 DEF Permitted
    <3>5. AllExpected'
      <4>1. OnItsWay' = 0
        BY <1>3, <3>1 DEF CalledInPlace
      <4>2. /\ Len(executing') \in Nat /\ Len(endpoint') \in Nat /\ Answers(received') \in Nat
        BY <2>3, AnswersAre DEF Types
      <4>3. Len(executing') = 0 /\ Len(endpoint') = 0 /\ Answers(received') = 0
        BY <4>1, <4>2 DEF OnItsWay
      <4>4. \A i \in 1..Len(received') : FALSE
        BY <2>3, <3>1, <4>3, NoneOfThem DEF Good
      <4>5. (\A i \in 1..Len(executing') : FALSE) /\ (\A i \in 1..Len(endpoint') : FALSE)
        BY <4>3
      <4> QED BY <4>4, <4>5 DEF AllExpected
    <3>6. OneSwoThread'
      BY <1>2, <2>2, <2>3, <3>1, <3>2, ReadFacts DEF OneSwoThread
    <3> QED BY <3>3, <3>4, <3>5, <3>6
  <2> QED BY <1>4, <1>6, <2>1, <2>2, <2>4, <2>5, <2>6, <2>7
<1> QED BY <1>7, <1>8

\* The answers behind a packet that failed are dropped.
LEMMA DiscardStep ==
  ASSUME IInv, Read, IsAnswer(Head(received)), Discard
  PROVE  IInv'
<1> USE DEF IInv
<1>1. At("discard") /\ Done /\ UNCHANGED <<owed, raised, misread, outOfStep>>
  BY DEF Discard
<1>2. /\ UNCHANGED <<backend, closed, rx, stop, permits, executing, endpoint, buffers>>
      /\ UNCHANGED <<swo, orphans, swoEvent, swoOver, opened, methods, faults, excused>>
      /\ ~closed /\ opened # 0 /\ received' \in Seq(ItemType)
  BY ReadFacts
<1>3. /\ ~Idle /\ ~waiting /\ waiting' = FALSE
      /\ \A other : At(other) <=> other = "discard"
      /\ todo' \in Seq(StepNames) /\ TodoInOrder' /\ PermitsBounded' /\ ~At("buffers")'
  BY <1>1, <1>2, HostAlone DEF Alone
<1>4. /\ ~At("flush")' /\ ~At("packet")' /\ ~At("interface")' /\ ~At("thread")'
      /\ ~At("stop_swo")' /\ ~At("stop")' /\ ~At("join")'
      /\ At("discard")' <=> ~Idle'
  BY <1>1, <1>3, NextStep
<1>5. Types'
  <2>1. waiting' \in BOOLEAN /\ todo' \in Seq(StepNames)
    BY <1>3
  <2> QED BY <1>1, <1>2, <2>1 DEF Types
<1>6. excused /\ owed = << >>
  BY <1>1 DEF Unexcused, CalledInPlace, Closed
<1>7. Closed' /\ Unopened' /\ OwnAnswers'
  <2>1. Closed'
    <3>1. backend = "pywinusb" => rx = "none" /\ endpoint = << >> /\ swo = "none"
                                    /\ orphans = 0 /\ ~swoOver
      BY DEF Closed
    <3>2. stop => closed
      BY DEF Closed
    <3> QED BY <1>1, <1>2, <1>4, <1>6, <3>1, <3>2 DEF Closed
  <2> QED BY <1>1, <1>2, <2>1 DEF Unopened, OwnAnswers
<1>8. AnswersCounted'
  <2>1. ToRead = Len(todo) /\ Len(todo) \in Nat \ {0}
    BY <1>1, <1>3, <1>6, TodoFacts DEF ToRead, Types
  <2>2. ToRead' = Len(todo')
    <3>1. CASE Idle'
      BY <1>1, <1>3, <1>4, <1>6, <3>1 DEF ToRead, Idle
    <3>2. CASE ~Idle'
      <4>1. At("discard")' /\ Len(todo') \in Nat /\ owed' = << >> /\ ~waiting'
        BY <1>1, <1>3, <1>4, <1>6, <3>2
      <4> QED BY <4>1 DEF ToRead
    <3> QED BY <3>1, <3>2
  <2>3. Len(todo') = Len(todo) - 1
    BY <1>1, <1>3, DoneFacts
  <2>4. Behind \in Nat /\ OnItsWay' = Behind /\ OnItsWay = Behind + 1
    BY ReadFacts
  <2>5. ~outOfStep => OnItsWay' = ToRead'
    BY <2>1, <2>2, <2>3, <2>4 DEF AnswersCounted
  <2> QED BY <1>1, <1>3, <2>5 DEF AnswersCounted
<1> QED BY <1>2, <1>3, <1>5, <1>6, <1>7, <1>8 DEF Unexcused

\* What is left to drop behind a packet that failed.
LEMMA DiscardsAre ==
  ASSUME NEW n \in Nat, todo' = [i \in 1..n |-> "discard"], waiting' = FALSE
  PROVE  /\ todo' \in Seq(StepNames) /\ Len(todo') = n /\ TodoInOrder' /\ Weight' = 0
         /\ At("discard")' <=> n > 0
         /\ \A step \in Alone \ {"discard"} : ~At(step)'
<1> DEFINE d == [i \in 1..n |-> "discard"]
<1>1. "discard" \in StepNames
  BY DEF StepNames, Alone
<1>2. d \in Seq(StepNames) /\ Len(d) = n /\ \A i \in 1..n : d[i] = "discard"
  BY <1>1
<1> HIDE DEF d
<1>3. todo' = d
  BY DEF d
<1>4. CASE n = 0
  <2>1. todo' = << >>
    BY <1>2, <1>3, <1>4, LenZero
  <2>2. Idle' /\ TodoInOrder' /\ Weight' = 0 /\ \A step : ~At(step)'
    BY <2>1, NothingLeft DEF At
  <2> QED BY <1>2, <1>3, <1>4, <2>2
<1>5. CASE n > 0
  <2>1. d # << >> /\ Head(d) = "discard" /\ d[n] = "discard"
    BY <1>2, <1>5
  <2>2. ~Idle' /\ At("discard")' /\ \A step : At(step)' => step = "discard"
    BY <1>3, <2>1 DEF Idle, At
  <2>3. Weight' = 0
    BY <1>3, <2>1, <2>2 DEF Weight, WeightOf
  <2>4. \A i \in 1..n - 1 : Follows(d[i], d[i + 1])
    BY <1>2 DEF Follows
  <2>5. TodoInOrder'
    BY <1>2, <1>3, <2>1, <2>2, <2>4 DEF TodoInOrder
  <2> QED BY <1>2, <1>3, <1>5, <2>2, <2>3, <2>5
<1> QED BY <1>4, <1>5

\* The answer of a packet is the first that is owed.
LEMMA ReadPacketStep ==
  ASSUME IInv, Read, IsAnswer(Head(received)), ReadPacket(Head(received))
  PROVE  IInv'
<1> USE DEF IInv
<1> DEFINE a == Head(received)
<1>1. /\ misread' = (Behind # Len(owed) - 1)
      /\ \/ At("flush") /\ owed # << >>
         \/ At("packet") /\ Len(owed) >= PacketCount
      /\ outOfStep' = (outOfStep \/ (a.code # "packet" /\ Len(owed) > 1))
  BY DEF ReadPacket, ReadsPacket
<1>2. /\ ~Idle /\ ~waiting /\ ~At("discard") /\ ~At("join") /\ ~At("stop") /\ ~At("stop_swo")
      /\ ~At("thread") /\ ~At("interface") /\ ~At("buffers")
  BY <1>1, NotWaiting DEF Alone, At
<1>3. owed \in Seq({"packet"}) /\ owed # << >> /\ Len(owed) <= PacketCount
  BY <1>1, ProbeLinkAssumption DEF Types, ProbeLinkAssumption
<1>4. /\ Tail(owed) \in Seq({"packet"}) /\ Len(Tail(owed)) = Len(owed) - 1
      /\ Len(owed) \in Nat \ {0} /\ Len(owed) - 1 \in Nat
  BY <1>3, DropHead
<1>5. /\ UNCHANGED <<backend, closed, rx, stop, permits, executing, endpoint, buffers>>
      /\ UNCHANGED <<swo, orphans, swoEvent, swoOver, opened, methods, faults, excused>>
      /\ ~closed /\ opened # 0 /\ received' \in Seq(ItemType)
  BY ReadFacts
<1>6. Behind \in Nat /\ OnItsWay' = Behind /\ OnItsWay = Behind + 1
  BY ReadFacts
<1>7. ~outOfStep => Behind = Len(owed) - 1
  <2>1. ToRead = Len(owed)
    BY <1>2, <1>4 DEF ToRead
  <2> QED BY <1>4, <1>6, <2>1 DEF AnswersCounted
<1>8. OwnAnswers'
  BY <1>1, <1>7 DEF OwnAnswers
<1>9. misread' \in BOOLEAN /\ outOfStep' \in BOOLEAN /\ excused' \in BOOLEAN
        /\ faults' \in 0..MaxFaults
  BY <1>1, <1>5 DEF Types
<1>10. ~excused => a.code = "packet" /\ a.ok
  BY <1>2, ReadsExpected DEF Good, Expected
<1>11. Weight \in Nat
  BY WeightFacts
<1>12. CASE a.code # "packet"
  <2>1. owed' = << >> /\ Raise
    BY <1>12 DEF ReadPacket
  <2>2. /\ Types' /\ TodoInOrder' /\ PermitsBounded' /\ Closed' /\ Unopened'
    BY <1>2, <1>5, <1>9, <2>1, ReadFacts, RaiseKeeps
  <2>3. waiting' = FALSE /\ ~At("discard")' /\ ~At("buffers")'
    BY <2>1, NoStep, RaiseFacts
  <2>4. AnswersCounted'
    <3>1. ToRead' = 0
      BY <2>1, <2>3 DEF ToRead
    <3>2. ~outOfStep' => ~outOfStep /\ ~(Len(owed) > 1)
      BY <1>1, <1>12
    <3>3. ~outOfStep' => Behind = 0
      BY <1>4, <1>7, <3>2
    <3>4. ~outOfStep' => OnItsWay' = 0
      BY <1>6, <3>3
    <3> QED BY <2>3, <3>1, <3>4 DEF AnswersCounted
  <2> QED BY <1>5, <1>8, <1>10, <1>12, <2>2, <2>4 DEF Unexcused
<1>13. CASE a.code = "packet" /\ ~a.ok
  <2> DEFINE n == Len(owed) - 1
  <2>1. /\ todo' = [i \in 1..n |-> "discard"] /\ owed' = << >>
        /\ waiting' = FALSE /\ raised' = TRUE /\ outOfStep' = outOfStep
    BY <1>1, <1>13 DEF ReadPacket, Types
  <2>2. n \in Nat
    BY <1>4
  <2> HIDE DEF n
  <2>3. /\ todo' \in Seq(StepNames) /\ Len(todo') = n /\ TodoInOrder' /\ Weight' = 0
        /\ At("discard")' <=> n > 0
        /\ \A step \in Alone \ {"discard"} : ~At(step)'
    BY <2>1, <2>2, DiscardsAre
  <2>4. /\ ~At("interface")' /\ ~At("flush")' /\ ~At("stop_swo")' /\ ~At("stop")' /\ ~At("join")'
        /\ ~At("thread")' /\ ~At("buffers")'
    BY <2>3 DEF Alone
  <2>5. Types'
    <3>1. owed' \in Seq({"packet"}) /\ Len(owed') <= PacketCount
      BY <2>1, ProbeLinkAssumption DEF ProbeLinkAssumption
    <3>2. waiting' \in BOOLEAN /\ raised' \in BOOLEAN /\ todo' \in Seq(StepNames)
      BY <2>1, <2>3
    <3> QED BY <1>5, <1>9, <3>1, <3>2 DEF Types
  <2>6. PermitsBounded'
    <3>1. Weight' \in Nat /\ Weight' <= Weight
      BY <1>11, <2>3
    <3> QED BY <1>2, <1>5, <2>1, <3>1, PermitsSpent
  <2>7. Closed' /\ Unopened'
    <3>1. backend = "pywinusb" => rx = "none" /\ endpoint = << >> /\ swo = "none"
                                    /\ orphans = 0 /\ ~swoOver
      BY DEF Closed
    <3>2. stop => closed
      BY DEF Closed
    <3> QED BY <1>5, <2>1, <2>4, <3>1, <3>2 DEF Closed, Unopened
  <2>8. AnswersCounted'
    <3>1. ToRead' = n
      <4>1. /\ Len(owed') = 0 /\ ~waiting' /\ Len(todo') = n
            /\ (IF At("discard")' THEN Len(todo') ELSE 0) = n
        BY <2>1, <2>2, <2>3
      <4> QED BY <2>2, <4>1 DEF ToRead
    <3>2. ~outOfStep => OnItsWay' = n
      BY <1>6, <1>7 DEF n
    <3> QED BY <2>1, <2>4, <3>1, <3>2 DEF AnswersCounted
  <2> QED BY <1>5, <1>8, <1>10, <1>13, <2>3, <2>5, <2>6, <2>7, <2>8 DEF Unexcused
<1>14. CASE a.code = "packet" /\ a.ok
  <2>1. owed' = Tail(owed) /\ UNCHANGED <<todo, waiting, raised>> /\ outOfStep' = outOfStep
    BY <1>1, <1>14 DEF ReadPacket, Types
  <2>2. /\ TodoInOrder' /\ Weight' = Weight /\ Expected' = Expected
        /\ (Idle' <=> Idle) /\ \A step : (At(step)' <=> At(step))
    BY <2>1, TodoFrame
  <2>3. owed' \in Seq({"packet"}) /\ Len(owed') <= PacketCount /\ Len(owed') \in Nat
    BY <1>3, <1>4, <2>1, ProbeLinkAssumption DEF ProbeLinkAssumption
  <2>4. Types'
    <3>1. UNCHANGED <<todo, waiting, raised>>
      BY <2>1
    <3> QED BY <1>5, <1>9, <2>3, <3>1 DEF Types
  <2>5. PermitsBounded'
    BY <1>5, <2>1, <2>2 DEF PermitsBounded
  <2>6. Closed' /\ Unopened'
    <3>1. backend = "pywinusb" => rx = "none" /\ endpoint = << >> /\ swo = "none"
                                    /\ orphans = 0 /\ ~swoOver
      BY DEF Closed
    <3>2. stop => closed
      BY DEF Closed
    <3>3. ~At("stop_swo")' /\ ~At("stop")' /\ ~At("join")' /\ ~At("discard")'
      BY <1>2, <2>2
    <3> QED BY <1>5, <3>1, <3>2, <3>3 DEF Closed, Unopened
  <2>7. AnswersCounted'
    <3>1. ToRead' = Len(owed')
      <4>1. ~waiting'
        BY <1>2, <2>1, Zenon
      <4>2. At("discard")' <=> At("discard")
        BY <2>2
      <4>3. ~At("discard")'
        BY <1>2, <4>2
      <4> QED BY <2>3, <4>1, <4>3 DEF ToRead
    <3>2. ~outOfStep => OnItsWay' = Len(owed')
      BY <1>4, <1>6, <1>7, <2>1
    <3> QED BY <1>2, <2>1, <2>2, <3>1, <3>2 DEF AnswersCounted
  <2>8. Unexcused'
    <3> SUFFICES ASSUME ~excused'
                 PROVE  CalledInPlace' /\ Permitted' /\ AllExpected' /\ OneSwoThread'
      BY DEF Unexcused
    <3>1. /\ CalledInPlace /\ Permitted /\ OneSwoThread
          /\ \A i \in 1..Len(executing') : executing'[i] = Expected
          /\ \A i \in 1..Len(endpoint') : Good(endpoint'[i])
          /\ \A i \in 1..Len(received') : Good(received'[i])
      BY <1>5, ReadsExpected
    <3>2. CalledInPlace'
      BY <1>5, <2>1, <2>2, <3>1 DEF CalledInPlace
    <3>3. Permitted'
      BY <1>5, <3>1 DEF Permitted
    <3>4. AllExpected'
      <4>1. \A x : Good(x)' <=> Good(x)
        BY <2>2 DEF Good
      <4> QED BY <2>2, <3>1, <4>1 DEF AllExpected, Good
    <3>5. OneSwoThread'
      BY <1>5, <2>1, <2>2, <3>1 DEF OneSwoThread, HasThread
    <3> QED BY <3>2, <3>3, <3>4, <3>5
  <2> QED BY <1>8, <2>2, <2>4, <2>5, <2>6, <2>7, <2>8
<1> QED BY <1>12, <1>13, <1>14

\* The four things that can be read.
LEMMA ReadStep ==
  ASSUME IInv, Read
  PROVE  IInv'
<1>1. \/ ~IsAnswer(Head(received))
      \/ IsAnswer(Head(received)) /\ ReadAnswer(Head(received))
      \/ IsAnswer(Head(received)) /\ ReadPacket(Head(received))
      \/ IsAnswer(Head(received)) /\ Discard
  BY DEF Read
<1> QED BY <1>1, ReadErrorStep, ReadAnswerStep, ReadPacketStep, DiscardStep

-----------------------------------------------------------------------------
(* The theorems.                                                           *)

\* Every step keeps the invariant.
LEMMA NextInv == IInv /\ [ProbeNext]_probeVars => IInv'
<1> SUFFICES ASSUME IInv, [ProbeNext]_probeVars PROVE IInv'
  OBVIOUS
<1>1. ASSUME NEW method \in Methods, CallMethod(method) PROVE IInv'
  BY <1>1, CallMethodStep
<1>2. CASE HostStep
  BY <1>2, WriteCommandStep, WritePacketStep, WriteFailsStep, ReadStep, ReadTimesOutStep,
     OpenInterfaceStep, OpenFailsStep, InitBuffersStep, FlushedStep, NoBuffersStep, StopStep,
     JoinStep, StartSwoStep, StopSwoStep, ReadSwoStep DEF HostStep
<1>3. CASE RxThread
  BY <1>3, RxLoopStep, RxAcquireStep, RxReadsStep, RxTimesOutStep DEF RxThread
<1>4. CASE SwoThread
  BY <1>4, SwoThreadStep
<1>5. ASSUME NEW ok \in BOOLEAN, Probe(ok) PROVE IInv'
  BY <1>5, ProbeStep
<1>6. CASE UNCHANGED probeVars
  <2>1. /\ UNCHANGED <<backend, closed, rx, stop, permits, received, executing, endpoint>>
        /\ UNCHANGED <<todo, waiting, owed, buffers, swo, orphans, swoEvent, swoOver>>
        /\ UNCHANGED <<outOfStep, misread, raised, excused, opened, methods, faults>>
    BY <1>6 DEF probeVars, interface, probe, host, trace, history
  <2>2. TodoInOrder' /\ Weight' = Weight /\ Expected' = Expected
        /\ (Idle' <=> Idle) /\ \A step : (At(step)' <=> At(step))
    BY <2>1, TodoFrame DEF IInv
  <2>3. Types' /\ PermitsBounded' /\ Closed' /\ Unopened' /\ OwnAnswers'
    BY <2>1, <2>2 DEF IInv, Types, PermitsBounded, Closed, Unopened, OwnAnswers
  <2>4. AnswersCounted'
    <3>1. OnItsWay' = OnItsWay /\ ToRead' = ToRead
      BY <2>1, <2>2 DEF OnItsWay, Answers, ToRead
    <3> QED BY <2>1, <2>2, <3>1 DEF IInv, AnswersCounted
  <2>5. Unexcused'
    <3>1. CalledInPlace /\ Permitted /\ AllExpected /\ OneSwoThread
            => CalledInPlace' /\ Permitted' /\ AllExpected' /\ OneSwoThread'
      BY <2>1, <2>2
         DEF CalledInPlace, Permitted, AllExpected, Good, OneSwoThread, HasThread
    <3> QED BY <2>1, <3>1 DEF IInv, Unexcused
  <2> QED BY <2>2, <2>3, <2>4, <2>5 DEF IInv
<1> QED BY <1>1, <1>2, <1>3, <1>4, <1>5, <1>6 DEF ProbeNext

LEMMA Invariance == ProbeSpec => []IInv
<1> QED BY InitInv, NextInv, PTL DEF ProbeSpec

\* The types, and that the thread is never further behind than the commands of
\* the methods called. (PyUSB.write, rx_task, close)
THEOREM ProbeTypesCorrect == ProbeSpec => []ProbeTypeOK
<1>1. IInv => ProbeTypeOK
  <2> SUFFICES ASSUME IInv PROVE ProbeTypeOK
    OBVIOUS
  <2> USE DEF IInv
  <2>1. permits \in 0..(MaxMethods * 6)
    <3>1. /\ permits \in Nat /\ methods \in 0..MaxMethods /\ MaxMethods \in Nat /\ Weight \in Nat
      BY WeightFacts, ProbeLinkAssumption DEF Types, ProbeLinkAssumption
    <3>2. waiting => Weight > 0
      <4>1. waiting => ~Idle /\ Head(todo) \notin Alone
        BY CommandStep DEF TodoInOrder, At
      <4> QED BY <4>1, WeightFacts DEF Alone
    <3>3. permits <= 6 * methods
      BY <3>1, <3>2 DEF PermitsBounded
    <3>4. 6 * methods <= MaxMethods * 6
      BY <3>1
    <3> QED BY <3>1, <3>3, <3>4
  <2>2. (\A i \in 1..Len(received) : received[i] \in ItemType)
          /\ \A i \in 1..Len(endpoint) : endpoint[i] \in AnswerType
    BY DEF Types
  <2>3. closed /\ Idle => rx = "none" /\ swo = "none"
    BY DEF Closed, Types, At
  <2> QED BY <2>1, <2>2, <2>3 DEF ProbeTypeOK, Types
<1> QED BY <1>1, Invariance, PTL

\* No command takes the answer of another, and nothing raises an exception
\* without a cause. (PyUSBv2.write, rx_task, read, close, start_rx,
\* DAPAccessCMSISDAP.flush, _read_packet)
THEOREM ProbeAnswersExpected == ProbeSpec => []AnswersAsExpected
<1>1. IInv => AnswersAsExpected
  BY DEF IInv, AnswersAsExpected, Unexcused, CalledInPlace, RaisesWithCause
<1> QED BY <1>1, Invariance, PTL

\* While nothing excuses an exception, the thread of an open PyUSB interface
\* holds or may acquire a permit for every command that is not read yet, and
\* none besides: it neither starves nor reads in vain. Closing finds it in no
\* read. (PyUSBv2.write, rx_task, close)
THEOREM ProbeReadsPermitted == ProbeSpec => [](~excused => Permitted)
<1>1. IInv => (~excused => Permitted)
  BY DEF IInv, Unexcused
<1> QED BY <1>1, Invariance, PTL

-----------------------------------------------------------------------------
(***************************************************************************)
(* What Session.tla keeps, for every number of sessions, calls and         *)
(* troubles: its types with the bound on the answers that are behind       *)
(* (TypesCorrect), and that between calls the core is as whoever debugs    *)
(* left it (CoreIsAsLeft).                                                 *)
(*                                                                         *)
(* The argument: whoever calls holds the lock of its XLink, and of all     *)
(* connections only that of the latest session may be open, so at most one *)
(* thread drives the core.  As long as nothing was given up, what OpenOCD  *)
(* still has to execute or the host to read belongs to the command that    *)
(* this thread waits for, so the core differs from what was left exactly   *)
(* while its call of halt_required is between halt and resume.  A read     *)
(* whose answer is an error leaves the call before the resume: from then   *)
(* on the history says that the core need not be as it was left.           *)
(***************************************************************************)

-----------------------------------------------------------------------------
(* The lists of commands a call goes through.                              *)

Simple == Wrapped(TRUE)
Excursion == Wrapped(FALSE)
Held == <<Own("access"), Own("resume")>>
Resuming == <<Own("resume")>>
Debts == {Held, Resuming}

Kinds == {"connect", "mem", "reg", "close"} \cup Requests

Lists(kind) ==
  IF kind = "none" THEN {<< >>}
  ELSE IF kind = "mem"
       THEN {<< >>, Commands("mem"), Simple, Excursion, Held, Resuming}
       ELSE {<< >>, Commands(kind)}

-----------------------------------------------------------------------------
(* The invariant.                                                          *)

CallType == [kind : Kinds \cup {"none"}, todo : Seq(CommandType), waiting : BOOLEAN]
ReplyType == {"other", "running", "halted"}

SessionTypes ==
  /\ gui \in {"closed", "connecting", "finding", "failing", "open", "closing"}
  /\ session \in 0..MaxSessions
  /\ server \in [Sessions -> {"none", "created", "binding", "accepting", "serving", "packet",
                              "handling", "spinning", "ended"}]
  /\ running \in [Sessions -> BOOLEAN] /\ told \subseteq Sessions
  /\ sock \in [Sessions -> {"none", "open", "closed"}]
  /\ conn \in [Sessions -> {"none", "open", "closed"}]
  /\ lock \in [Sessions -> Threads \cup {NoThread}]
  /\ sent \in [Sessions -> Seq(CommandType)]
  /\ replies \in [Sessions -> Seq(ReplyType)]
  /\ call \in [Threads -> CallType]
  /\ core \in BOOLEAN /\ wanted \in BOOLEAN /\ disturbed \in BOOLEAN
  /\ calls \in Nat /\ troubles \in Nat

InCall(t) == call[t].kind # "none"

\* A thread in a call holds the lock; one that is in none has nothing to send.
Locked ==
  \A t \in Threads :
    /\ InCall(t) => SessionOf(t) \in Sessions /\ lock[SessionOf(t)] = t
    /\ call[t].todo \in Lists(call[t].kind)
    /\ call[t].waiting => call[t].todo # << >>

\* Only the GUI opens and closes.
ServersOnlyUse == \A s \in Sessions : call[s].kind \notin {"connect", "close"}

\* Only the latest session's connection may be open, and not while the GUI is
\* closed; nothing has happened in those to come.
OneConnection ==
  /\ gui # "closed" => session \in Sessions
  /\ gui = "closed" => ~InCall(GUI)
  /\ \A s \in Sessions : conn[s] = "open" => s = session /\ gui # "closed"
  /\ \A s \in Sessions : s > session =>
       /\ server[s] = "none" /\ ~InCall(s) /\ lock[s] = NoThread
       /\ sent[s] = << >> /\ replies[s] = << >>

\* Who waits has an open connection, and its command is the last that was sent.
LastSent ==
  \A t \in Threads : call[t].waiting =>
    /\ conn[SessionOf(t)] = "open"
    /\ sent[SessionOf(t)] # << >> =>
         sent[SessionOf(t)][Len(sent[SessionOf(t)])] = Head(call[t].todo)

AwaitedIn(s) == \E t \in Threads : SessionOf(t) = s /\ call[t].waiting

\* What is on its way is what is waited for and what was given up.
AnswersDue ==
  \A s \in Sessions :
    /\ AwaitedIn(s) => Len(sent[s]) + Len(replies[s]) <= 1 + troubles
    /\ ~AwaitedIn(s) => Len(sent[s]) + Len(replies[s]) <= troubles

\* The thread that drives the core.
Drives(t) == InCall(t) /\ conn[SessionOf(t)] = "open"

\* What a call has not had executed yet.
Remaining(t) ==
  IF call[t].waiting /\ sent[SessionOf(t)] = << >> THEN Tail(call[t].todo) ELSE call[t].todo

\* Nothing is on its way but the command that is waited for, or its answer.
NothingStale ==
  /\ \A s \in Sessions : ~AwaitedIn(s) =>
       sent[s] = << >> /\ (conn[s] = "open" => replies[s] = << >>)
  /\ \A t \in Threads : call[t].waiting =>
       Len(sent[SessionOf(t)]) + Len(replies[SessionOf(t)]) = 1

\* The core was found running, before it is halted.
FoundRunning(t) ==
  \/ Remaining(t) = Excursion
  \/ /\ call[t].waiting /\ sent[SessionOf(t)] = << >> /\ Head(call[t].todo).word = "targets"
     /\ "halted" \notin Range(replies[SessionOf(t)])

\* The core is as it was left, except between the halt and the resume of an access.
Driven ==
  /\ \A t \in Threads : Drives(t) /\ Remaining(t) \in Debts => wanted /\ ~core
  /\ \A t \in Threads : Drives(t) /\ FoundRunning(t) => core
  /\ core = wanted \/ \E t \in Threads : Drives(t) /\ Remaining(t) \in Debts

SessionInv ==
  /\ SessionTypes /\ Locked /\ ServersOnlyUse /\ OneConnection /\ LastSent /\ AnswersDue
  /\ ~disturbed => NothingStale /\ Driven

-----------------------------------------------------------------------------
(* Facts about the lists.                                                  *)

\* The list of one command that a call begins with.
LEMMA FirstCommand ==
  ASSUME NEW kind \in Kinds
  PROVE  \E command \in CommandType :
           /\ Commands(kind) = <<command>>
           /\ command.asked <=> kind \in {"halt", "step", "resume"}
           /\ command.asked => command.word = kind
           /\ command.word = "targets" <=> kind = "mem"
           /\ ~command.asked => command.word \in {"reg", "targets", "exit"}
<1>1. CASE kind \in {"halt", "step", "resume"}
  <2>1. Commands(kind) = <<Asked(kind)>>
    BY <1>1 DEF Commands
  <2>2. Asked(kind) \in CommandType
    BY <1>1 DEF Asked, CommandType
  <2> QED BY <1>1, <2>1, <2>2 DEF Asked
<1>2. CASE kind = "mem"
  <2>1. Commands(kind) = <<Own("targets")>> /\ Own("targets") \in CommandType
    BY <1>2 DEF Commands, Own, CommandType
  <2> QED BY <1>2, <2>1 DEF Own
<1>3. CASE kind = "close"
  <2>1. Commands(kind) = <<Own("exit")>> /\ Own("exit") \in CommandType
    BY <1>3 DEF Commands, Own, CommandType
  <2> QED BY <1>3, <2>1 DEF Own
<1>4. CASE kind \in {"connect", "reg"}
  <2>1. Commands(kind) = <<Own("reg")>> /\ Own("reg") \in CommandType
    BY <1>4 DEF Commands, Own, CommandType
  <2> QED BY <1>4, <2>1 DEF Own
<1> QED BY <1>1, <1>2, <1>3, <1>4 DEF Kinds, Requests

\* A list of one command, and what is left of it.
LEMMA OneCommand ==
  ASSUME NEW command \in CommandType
  PROVE  /\ <<command>> \in Seq(CommandType) /\ <<command>> # << >>
         /\ Len(<<command>>) = 1
         /\ Head(<<command>>) = command /\ Tail(<<command>>) = << >>
<1>1. <<command>> \in Seq(CommandType) /\ Len(<<command>>) = 1 /\ <<command>> # << >>
  OBVIOUS
<1>2. Tail(<<command>>) = << >>
  BY <1>1, TailOfOne
<1> QED BY <1>1, <1>2

\* The lists of halt_required, one inside the other.
LEMMA ExcursionParts ==
  /\ {Excursion, Held, Resuming, Simple} \subseteq Seq(CommandType)
  /\ Len(Excursion) = 3 /\ Len(Held) = 2 /\ Len(Resuming) = 1 /\ Len(Simple) = 1
  /\ Head(Excursion) = Own("halt") /\ Head(Held) = Own("access")
  /\ Head(Resuming) = Own("resume") /\ Head(Simple) = Own("access")
  /\ Tail(Excursion) = Held /\ Tail(Held) = Resuming
  /\ Tail(Resuming) = << >> /\ Tail(Simple) = << >>
<1> DEFINE h == Own("halt")  a == Own("access")  r == Own("resume")
<1>1. h \in CommandType /\ a \in CommandType /\ r \in CommandType
  BY DEF Own, CommandType
<1>2. /\ Excursion = <<h, a, r>> /\ Held = <<a, r>> /\ Resuming = <<r>>
      /\ Simple = <<a>>
  BY DEF Simple, Excursion, Held, Resuming, Wrapped
<1> HIDE DEF h, a, r
<1>3. /\ <<h, a, r>> \in Seq(CommandType) /\ <<a, r>> \in Seq(CommandType)
      /\ Len(<<h, a, r>>) = 3 /\ Len(<<a, r>>) = 2
      /\ Head(<<h, a, r>>) = h /\ Head(<<a, r>>) = a
  BY <1>1
<1>4. Tail(<<h, a, r>>) = <<a, r>>
  BY <1>1
<1>5. Tail(<<a, r>>) = <<r>>
  BY <1>1
<1>6. /\ <<r>> \in Seq(CommandType) /\ <<a>> \in Seq(CommandType)
      /\ Len(<<r>>) = 1 /\ Len(<<a>>) = 1 /\ Head(<<r>>) = r /\ Head(<<a>>) = a
      /\ Tail(<<r>>) = << >> /\ Tail(<<a>>) = << >>
  BY <1>1, OneCommand
<1> QED BY <1>2, <1>3, <1>4, <1>5, <1>6 DEF h, a, r

\* No two of them are the same.
LEMMA PartsDiffer ==
  /\ << >> \notin Debts \cup {Excursion, Simple}
  /\ Simple \notin Debts \cup {Excursion} /\ Excursion \notin Debts
<1>1. /\ Len(<< >>) # Len(Excursion) /\ Len(<< >>) # Len(Held) /\ Len(<< >>) # Len(Resuming)
      /\ Len(<< >>) # Len(Simple)
  BY ExcursionParts
<1>2. /\ Len(Simple) # Len(Excursion) /\ Len(Simple) # Len(Held)
      /\ Len(Excursion) # Len(Held) /\ Len(Excursion) # Len(Resuming)
  BY ExcursionParts
<1>3. Simple # Resuming
  <2>1. Own("access") # Own("resume")
    BY DEF Own
  <2>2. Head(Simple) = Own("access") /\ Head(Resuming) = Own("resume")
    BY ExcursionParts
  <2> QED BY <2>1, <2>2
<1>4. << >> # Excursion /\ << >> # Held /\ << >> # Resuming /\ << >> # Simple
  BY <1>1, DifferentLengths, Zenon
<1>5. /\ Simple # Excursion /\ Simple # Held
      /\ Excursion # Held /\ Excursion # Resuming
  BY <1>2, DifferentLengths, Zenon
<1> QED BY <1>3, <1>4, <1>5, Zenon DEF Debts

\* The list a call begins with is none of an excursion.
LEMMA BeginsApart ==
  ASSUME NEW kind \in Kinds
  PROVE  /\ Commands(kind) \in Seq(CommandType)
         /\ Commands(kind) \notin Debts /\ Commands(kind) # Excursion
<1>1. PICK command \in CommandType :
         /\ Commands(kind) = <<command>>
         /\ command.asked => command.word = kind
         /\ ~command.asked => command.word \in {"reg", "targets", "exit"}
  BY FirstCommand
<1>2. /\ Commands(kind) \in Seq(CommandType) /\ Len(Commands(kind)) = 1
      /\ Head(Commands(kind)) = command
  BY <1>1, OneCommand
<1>3. Own("resume") # command
  BY <1>1 DEF Own
<1>4. Commands(kind) # Resuming
  BY <1>2, <1>3, ExcursionParts
<1>5. Len(Commands(kind)) # Len(Excursion) /\ Len(Commands(kind)) # Len(Held)
  BY <1>2, ExcursionParts
<1>6. Commands(kind) # Excursion /\ Commands(kind) # Held
  BY <1>5, DifferentLengths, Zenon
<1> QED BY <1>2, <1>4, <1>6 DEF Debts

\* What a call still sends, seen from its first command.  Only an access of
\* memory looks whether the core is halted, or owes a resume.
LEMMA ListFacts ==
  ASSUME NEW kind \in Kinds \cup {"none"}, NEW list \in Lists(kind)
  PROVE  /\ list \in Seq(CommandType)
         /\ list \in Debts \cup {Excursion} => kind = "mem" /\ list # << >>
         /\ list # << >> =>
              /\ Head(list) \in CommandType
              /\ Tail(list) \in Lists(kind) /\ Tail(list) # Excursion
              /\ Tail(list) \in Debts => list = Excursion \/ list = Held
              /\ list \in Debts => (Head(list).word # "resume" <=> Tail(list) \in Debts)
              /\ list = Excursion => Tail(list) \in Debts
              /\ Head(list).word = "targets" => kind = "mem" /\ list \notin Debts \cup {Excursion}
              /\ Head(list).word = "targets" => Tail(list) = << >> /\ ~Head(list).asked
              /\ Head(list).asked => Tail(list) = << >> /\ list \notin Debts \cup {Excursion}
              /\ ~Head(list).asked =>
                   /\ Head(list).word = "halt" <=> list = Excursion
                   /\ Head(list).word = "resume" <=> list = Resuming
                   /\ Head(list).word # "step"
<1>1. << >> \in Seq(CommandType) /\ << >> \notin Debts /\ << >> # Excursion
  BY PartsDiffer
<1>2. CASE list = << >>
  BY <1>1, <1>2
<1>3. CASE kind # "none" /\ list = Commands(kind)
  <2>1. PICK command \in CommandType :
           /\ Commands(kind) = <<command>>
           /\ command.asked <=> kind \in {"halt", "step", "resume"}
           /\ command.asked => command.word = kind
           /\ command.word = "targets" <=> kind = "mem"
           /\ ~command.asked => command.word \in {"reg", "targets", "exit"}
    BY <1>3, FirstCommand
  <2>2. /\ list \in Seq(CommandType) /\ list # << >> /\ Len(list) = 1
        /\ Head(list) = command /\ Tail(list) = << >>
    BY <1>3, <2>1, OneCommand
  <2>4. list \notin Debts \cup {Excursion}
    BY <1>3, BeginsApart
  <2>5. << >> \in Lists(kind)
    BY DEF Lists
  <2>6. list # Resuming
    BY <2>4 DEF Debts
  <2> QED BY <1>1, <1>3, <2>1, <2>2, <2>4, <2>5, <2>6
<1>4. CASE kind = "mem" /\ list \in {Simple, Excursion, Held, Resuming}
  <2>1. << >> \in Lists(kind) /\ Held \in Lists(kind) /\ Resuming \in Lists(kind)
    BY <1>4 DEF Lists
  <2>2. /\ Own("halt").word = "halt" /\ Own("access").word = "access"
        /\ Own("resume").word = "resume" /\ ~Own("halt").asked /\ ~Own("access").asked
        /\ ~Own("resume").asked
    BY DEF Own
  <2>3. Own("halt") \in CommandType /\ Own("access") \in CommandType /\ Own("resume") \in CommandType
    BY DEF Own, CommandType
  <2>4. CASE list = Simple
    BY PartsDiffer, ExcursionParts, <1>1, <1>4, <2>1, <2>2, <2>3, <2>4 DEF Debts
  <2>5. CASE list = Excursion
    BY PartsDiffer, ExcursionParts, <1>1, <1>4, <2>1, <2>2, <2>3, <2>5 DEF Debts
  <2>6. CASE list = Held
    BY PartsDiffer, ExcursionParts, <1>1, <1>4, <2>1, <2>2, <2>3, <2>6 DEF Debts
  <2>7. CASE list = Resuming
    BY PartsDiffer, ExcursionParts, <1>1, <1>4, <2>1, <2>2, <2>3, <2>7 DEF Debts
  <2> QED BY <1>4, <2>4, <2>5, <2>6, <2>7
<1> QED BY <1>2, <1>3, <1>4 DEF Lists

\* What halt_required sends is one of the lists of an access.
LEMMA WrappedFacts ==
  ASSUME NEW halted
  PROVE  /\ Wrapped(halted) = IF halted THEN Simple ELSE Excursion
         /\ {Simple, Excursion} \subseteq Lists("mem")
<1>1. Wrapped(halted) = IF halted THEN Simple ELSE Excursion
  BY DEF Wrapped, Simple, Excursion
<1>2. Simple \in Lists("mem") /\ Excursion \in Lists("mem")
  BY DEF Lists
<1> QED BY <1>1, <1>2

-----------------------------------------------------------------------------
(* Facts about the threads.                                                *)

\* A call of a type, seen from its fields.
LEMMA CallFields ==
  ASSUME SessionTypes, NEW t \in Threads
  PROVE  /\ call[t].kind \in Kinds \cup {"none"} /\ call[t].todo \in Seq(CommandType)
         /\ call[t].waiting \in BOOLEAN
BY DEF SessionTypes, CallType

\* Calling, as the proofs use it.
LEMMA CallingIsInCall ==
  ASSUME SessionTypes, Locked, NEW t \in Threads
  PROVE  Calling(t) <=> InCall(t)
<1>1. CASE InCall(t)
  BY <1>1 DEF InCall, Calling, NoCall
<1>2. CASE ~InCall(t)
  <2>1. call[t].kind = "none"
    BY <1>2 DEF InCall
  <2>2. call[t].todo = << >>
    BY <2>1 DEF Locked, Lists
  <2>3. call[t].waiting \in BOOLEAN /\ ~call[t].waiting
    BY <2>2, CallFields DEF Locked
  <2>4. call[t] = [kind |-> call[t].kind, todo |-> call[t].todo, waiting |-> call[t].waiting]
    BY DEF SessionTypes, CallType
  <2>5. call[t] = NoCall
    BY <2>1, <2>2, <2>3, <2>4 DEF NoCall
  <2> QED BY <1>2, <2>5 DEF Calling
<1> QED BY <1>1, <1>2

\* The thread of no session is no thread of a session, and the bounds are numbers.
LEMMA ThreadNumbers ==
  /\ Sessions \subseteq Nat \ {0} /\ Sessions \subseteq Threads /\ GUI \in Threads
  /\ GUI \notin Sessions /\ NoThread \notin Threads
  /\ \A t \in Threads : t = GUI \/ t \in Sessions
BY SessionAssumption DEF Sessions, Threads, GUI, NoThread

\* A call has the lock of its XLink for itself.
LEMMA OneCaller ==
  ASSUME SessionTypes, Locked, NEW t \in Threads, NEW u \in Threads,
         InCall(t), InCall(u), SessionOf(t) = SessionOf(u)
  PROVE  t = u
BY DEF Locked

\* Who waits is in a call, on the open connection.
LEMMA WaitersDrive ==
  ASSUME SessionTypes, Locked, LastSent, NEW t \in Threads, call[t].waiting
  PROVE  InCall(t) /\ Drives(t) /\ call[t].todo # << >>
<1>1. InCall(t)
  BY DEF Locked, Lists, InCall
<1> QED BY <1>1 DEF Drives, LastSent, Locked

\* Only one thread drives the core.
LEMMA OneDriver ==
  ASSUME SessionTypes, Locked, OneConnection, NEW t \in Threads, NEW u \in Threads,
         Drives(t), Drives(u)
  PROVE  t = u
<1>1. SessionOf(t) = session /\ SessionOf(u) = session
  BY DEF Drives, Locked, OneConnection
<1> QED BY <1>1, OneCaller DEF Drives

\* No call is in progress on a lock that is free.
LEMMA NobodyInCall ==
  ASSUME SessionTypes, Locked, NEW s \in Sessions, Free(s), NEW t \in Threads, SessionOf(t) = s
  PROVE  ~InCall(t)
BY ThreadNumbers DEF Locked, Free

-----------------------------------------------------------------------------
(* Steps that begin a call, or leave calls alone.                          *)

\* A session stays awaited when nobody begins or ends waiting.
LEMMA SameAwaited ==
  ASSUME session' = session, \A u \in Threads : call'[u].waiting <=> call[u].waiting,
         NEW s \in Sessions
  PROVE  AwaitedIn(s)' <=> AwaitedIn(s)
BY DEF AwaitedIn, SessionOf

\* The steps of the GUI and of a server outside their calls.
LEMMA MoveStep ==
  ASSUME SessionInv, SessionTypes', UNCHANGED <<session, link, call, target, counters>>,
         gui' = "closed" <=> gui = "closed",
         \A s \in Sessions : s > session => server'[s] = server[s]
  PROVE  SessionInv'
<1> USE DEF link, target, counters
<1>1. \A t \in Threads : (SessionOf(t) = SessionOf(t)') /\ (InCall(t)' <=> InCall(t))
  BY DEF SessionOf, InCall
<1>2. Locked' /\ ServersOnlyUse'
  BY <1>1 DEF SessionInv, Locked, ServersOnlyUse
<1>3. OneConnection'
  BY <1>1, ThreadNumbers DEF SessionInv, OneConnection
<1>4. LastSent'
  BY <1>1 DEF SessionInv, LastSent
<1>5. \A s \in Sessions : AwaitedIn(s)' <=> AwaitedIn(s)
  BY SameAwaited
<1>6. AnswersDue'
  BY <1>5 DEF SessionInv, AnswersDue
<1>7. NothingStale => NothingStale'
  BY <1>1, <1>5 DEF NothingStale
<1>8. Driven => Driven'
  BY <1>1 DEF Driven, Drives, Remaining, FoundRunning
<1> QED BY <1>2, <1>3, <1>4, <1>6, <1>7, <1>8 DEF SessionInv

\* What Begin does to calls and locks.
LEMMA BeginFacts ==
  ASSUME SessionTypes, Locked, NEW t \in Threads, NEW kind \in Kinds, Begin(t, kind),
         SessionOf(t) \in Sessions
  PROVE  /\ call' \in [Threads -> CallType] /\ lock' \in [Sessions -> Threads \cup {NoThread}]
         /\ \A u \in Threads : SessionOf(u) = SessionOf(t) => ~InCall(u)
         /\ \A u \in Threads \ {t} : call'[u] = call[u]
         /\ call'[t].kind = kind /\ call'[t].todo = Commands(kind) /\ ~call'[t].waiting
         /\ lock'[SessionOf(t)] = t
         /\ \A s \in Sessions \ {SessionOf(t)} : lock'[s] = lock[s]
<1>1. \A u \in Threads : SessionOf(u) = SessionOf(t) => ~InCall(u)
  BY NobodyInCall DEF Begin
<1>2. call' = [call EXCEPT ![t] = Call(kind)] /\ lock' = [lock EXCEPT ![SessionOf(t)] = t]
  BY DEF Begin
<1>3. Commands(kind) \in Seq(CommandType)
  BY BeginsApart
<1>4. Call(kind) \in CallType
  BY <1>3 DEF Call, CallType
<1>5. /\ call' \in [Threads -> CallType] /\ call'[t] = Call(kind)
      /\ \A u \in Threads \ {t} : call'[u] = call[u]
  BY <1>2, <1>4 DEF SessionTypes
<1>6. /\ lock' \in [Sessions -> Threads \cup {NoThread}] /\ lock'[SessionOf(t)] = t
      /\ \A s \in Sessions \ {SessionOf(t)} : lock'[s] = lock[s]
  BY <1>2 DEF SessionTypes
<1> QED BY <1>1, <1>5, <1>6 DEF Call

\* A call begins: the lock was free, and nothing is on its way on its
\* connection but what was given up.
LEMMA BeginStep ==
  ASSUME SessionInv, SessionTypes', NEW t \in Threads, NEW kind \in Kinds, Begin(t, kind),
         SessionOf(t) \in Sessions, SessionOf(t) <= session,
         UNCHANGED <<window, target, troubles>>,
         t # GUI => kind \in Requests, t = GUI => gui # "closed",
         \A s \in Sessions : s > session => server'[s] = server[s]
  PROVE  SessionInv'
<1> USE DEF window, target
<1>1. /\ SessionTypes /\ Locked /\ ServersOnlyUse /\ OneConnection /\ LastSent /\ AnswersDue
      /\ ~disturbed => NothingStale /\ Driven
  BY DEF SessionInv
<1>2. /\ \A u \in Threads : SessionOf(u) = SessionOf(t) => ~InCall(u)
      /\ \A u \in Threads \ {t} : call'[u] = call[u]
      /\ call'[t].kind = kind /\ call'[t].todo = Commands(kind) /\ ~call'[t].waiting
      /\ lock'[SessionOf(t)] = t
      /\ \A s \in Sessions \ {SessionOf(t)} : lock'[s] = lock[s]
  BY <1>1, BeginFacts
<1>3. UNCHANGED <<conn, sent, replies>>
  BY DEF Begin
<1>4. /\ \A u \in Threads : SessionOf(u)' = SessionOf(u)
      /\ \A u \in Threads \ {t} : InCall(u)' <=> InCall(u)
      /\ ~InCall(t) /\ InCall(t)'
  BY <1>2 DEF SessionOf, InCall, Kinds, Requests
<1>5. ~call[t].waiting /\ call[t].todo = << >>
  BY <1>1, <1>4 DEF Locked, Lists, InCall
<1>6. \A u \in Threads : call'[u].waiting <=> call[u].waiting
  BY <1>2, <1>5
<1>7. Locked'
  <2>1. ASSUME NEW u \in Threads
        PROVE  /\ InCall(u)' => SessionOf(u)' \in Sessions /\ lock'[SessionOf(u)'] = u
               /\ call'[u].todo \in Lists(call'[u].kind)
               /\ call'[u].waiting => call'[u].todo # << >>
    <3>1. CASE u = t
      BY <1>2, <1>4, <3>1 DEF Lists, Kinds, Requests
    <3>2. CASE u # t
      BY <1>1, <1>2, <1>4, <3>2 DEF Locked
    <3> QED BY <3>1, <3>2
  <2> QED BY <2>1 DEF Locked
<1>8. ServersOnlyUse'
  BY <1>1, <1>2, ThreadNumbers DEF ServersOnlyUse, Requests
<1>9. OneConnection'
  <2>1. \A s \in Sessions : s > session => s # SessionOf(t) /\ s # t
    BY ThreadNumbers, <1>1 DEF SessionTypes, SessionOf, GUI
  <2> QED BY <1>1, <1>2, <1>3, <1>4, <2>1, ThreadNumbers DEF OneConnection
<1>10. LastSent'
  BY <1>1, <1>2, <1>3, <1>4 DEF LastSent
<1>11. \A s \in Sessions : AwaitedIn(s)' <=> AwaitedIn(s)
  BY <1>6, SameAwaited
<1>12. AnswersDue'
  BY <1>1, <1>3, <1>11 DEF AnswersDue
<1>13. ASSUME ~disturbed  PROVE  NothingStale' /\ Driven'
  <2>1. NothingStale /\ Driven
    BY <1>1, <1>13
  <2>2. NothingStale'
    BY <1>3, <1>4, <1>6, <1>11, <2>1 DEF NothingStale
  <2>3. Remaining(t)' = Commands(kind) /\ Remaining(t)' \notin Debts /\ Remaining(t)' # Excursion
    <3>1. Remaining(t)' = Commands(kind)
      BY <1>2 DEF Remaining
    <3> QED BY <3>1, BeginsApart
  <2>4. \A u \in Threads \ {t} :
          /\ Drives(u)' <=> Drives(u)
          /\ Remaining(u)' = Remaining(u) /\ (FoundRunning(u)' <=> FoundRunning(u))
    BY <1>2, <1>3, <1>4 DEF Drives, Remaining, FoundRunning
  <2>5. ~FoundRunning(t)'
    BY <1>2, <2>3 DEF FoundRunning
  <2>6. ~Drives(t)
    BY <1>4 DEF Drives
  <2>7. Driven'
    BY <2>1, <2>3, <2>4, <2>5, <2>6 DEF Driven
  <2> QED BY <2>2, <2>7
<1> QED BY <1>7, <1>8, <1>9, <1>10, <1>12, <1>13 DEF SessionInv

-----------------------------------------------------------------------------
(* The steps of a call.                                                    *)

\* What is behind changes on one connection only.
LEMMA AnswersDueOnOne ==
  ASSUME AnswersDue, NEW s \in Sessions, troubles' = troubles,
         \A r \in Sessions \ {s} : sent'[r] = sent[r] /\ replies'[r] = replies[r],
         \A r \in Sessions \ {s} : AwaitedIn(r)' <=> AwaitedIn(r),
         AwaitedIn(s)' => Len(sent'[s]) + Len(replies'[s]) <= 1 + troubles,
         ~AwaitedIn(s)' => Len(sent'[s]) + Len(replies'[s]) <= troubles
  PROVE  AnswersDue'
<1>1. ASSUME NEW r \in Sessions
      PROVE  /\ AwaitedIn(r)' => Len(sent'[r]) + Len(replies'[r]) <= 1 + troubles
             /\ ~AwaitedIn(r)' => Len(sent'[r]) + Len(replies'[r]) <= troubles
  <2>1. CASE r = s
    BY <2>1
  <2>2. CASE r # s
    <3>1. /\ AwaitedIn(r) => Len(sent[r]) + Len(replies[r]) <= 1 + troubles
          /\ ~AwaitedIn(r) => Len(sent[r]) + Len(replies[r]) <= troubles
      BY DEF AnswersDue
    <3>2. sent'[r] = sent[r] /\ replies'[r] = replies[r] /\ (AwaitedIn(r)' <=> AwaitedIn(r))
      BY <2>2
    <3> QED BY <3>1, <3>2
  <2> QED BY <2>1, <2>2
<1> QED BY <1>1 DEF AnswersDue

\* Send changes the thread that sends and the end of what it sent.
LEMMA SendStep ==
  ASSUME SessionInv, NEW t \in Threads, Send(t)
  PROVE  SessionInv'
<1> DEFINE command == Head(call[t].todo)
<1>1. /\ SessionTypes /\ Locked /\ ServersOnlyUse /\ OneConnection /\ LastSent /\ AnswersDue
      /\ ~disturbed => NothingStale /\ Driven
  BY DEF SessionInv
<1>0. InCall(t) /\ SessionOf(t) \in Sessions
  BY <1>1, CallingIsInCall DEF Send, Locked
<1> PICK s \in Sessions : s = SessionOf(t)
  BY <1>0
<1>2. /\ InCall(t) /\ ~call[t].waiting /\ call[t].todo # << >> /\ conn[s] = "open"
      /\ s = SessionOf(t)
  BY <1>0 DEF Send
<1>3. /\ sent' = [sent EXCEPT ![s] = Append(@, command)]
      /\ call' = [call EXCEPT ![t] = [@ EXCEPT !.waiting = TRUE]]
      /\ UNCHANGED <<window, servers, lock, conn, replies, target, counters>>
  BY DEF Send, Answered
<1>4. command \in CommandType
  BY <1>1, <1>2, CallFields
<1>5. /\ sent' \in [Sessions -> Seq(CommandType)]
      /\ sent[s] \in Seq(CommandType) /\ sent'[s] = Append(sent[s], command)
      /\ \A r \in Sessions \ {s} : sent'[r] = sent[r]
  BY <1>1, <1>2, <1>3, <1>4 DEF SessionTypes
<1>6. /\ sent'[s] # << >> /\ Len(sent'[s]) = Len(sent[s]) + 1
      /\ sent'[s][Len(sent'[s])] = command
  BY <1>4, <1>5
<1>7. /\ call' \in [Threads -> CallType]
      /\ call'[t].kind = call[t].kind /\ call'[t].todo = call[t].todo /\ call'[t].waiting
      /\ \A u \in Threads \ {t} : call'[u] = call[u]
  BY <1>1, <1>3 DEF SessionTypes, CallType
<1>8. SessionTypes'
  BY <1>1, <1>3, <1>5, <1>7 DEF SessionTypes, window, servers, target, counters
<1>9. UNCHANGED <<gui, session, server, lock, conn, replies, core, wanted, disturbed, troubles>>
  BY <1>3 DEF window, servers, target, counters
<1>10. /\ \A u \in Threads : (SessionOf(u)' = SessionOf(u)) /\ (InCall(u)' <=> InCall(u))
       /\ \A u \in Threads \ {t} : SessionOf(u) = s => ~InCall(u) /\ ~call[u].waiting
  <2>1. \A u \in Threads : (SessionOf(u)' = SessionOf(u)) /\ (InCall(u)' <=> InCall(u))
    BY <1>7, <1>9 DEF SessionOf, InCall
  <2>2. \A u \in Threads \ {t} : SessionOf(u) = s => ~InCall(u)
    BY <1>1, <1>2, OneCaller
  <2> QED BY <1>1, <2>1, <2>2, WaitersDrive
<1>11. ~AwaitedIn(s) /\ AwaitedIn(s)' /\ \A r \in Sessions \ {s} : AwaitedIn(r)' <=> AwaitedIn(r)
  <2>1. ~AwaitedIn(s)
    BY <1>2, <1>10 DEF AwaitedIn
  <2>2. AwaitedIn(s)'
    BY <1>7, <1>10 DEF AwaitedIn
  <2>3. \A r \in Sessions \ {s} : AwaitedIn(r)' <=> AwaitedIn(r)
    BY <1>7, <1>10 DEF AwaitedIn
  <2> QED BY <2>1, <2>2, <2>3
<1>12. Locked'
  BY <1>1, <1>2, <1>7, <1>9, <1>10 DEF Locked
<1>13. ServersOnlyUse'
  BY <1>1, <1>7, ThreadNumbers DEF ServersOnlyUse
<1>14. OneConnection'
  <2>1. s = session
    BY <1>1, <1>2 DEF OneConnection
  <2>2. \A r \in Sessions : r > session => r # s
    BY <1>1, <2>1, ThreadNumbers DEF SessionTypes
  <2> QED BY <1>1, <1>5, <1>9, <1>10, <2>2, ThreadNumbers DEF OneConnection
<1>15. LastSent'
  <2>1. ASSUME NEW u \in Threads, call'[u].waiting
        PROVE  /\ conn'[SessionOf(u)'] = "open"
               /\ sent'[SessionOf(u)'] # << >> =>
                    sent'[SessionOf(u)'][Len(sent'[SessionOf(u)'])] = Head(call'[u].todo)
    <3>1. CASE u = t
      BY <1>2, <1>6, <1>7, <1>9, <1>10, <3>1
    <3>2. CASE u # t
      <4>1. call[u].waiting /\ call'[u] = call[u] /\ SessionOf(u) \in Sessions \ {s}
        BY <1>1, <1>7, <1>10, <2>1, <3>2, WaitersDrive DEF Locked
      <4> QED BY <1>1, <1>5, <1>9, <1>10, <4>1 DEF LastSent
    <3> QED BY <3>1, <3>2
  <2> QED BY <2>1 DEF LastSent
<1>16. AnswersDue'
  <2>1. Len(sent[s]) + Len(replies[s]) <= troubles
    BY <1>1, <1>2, <1>11 DEF AnswersDue
  <2>2. Len(sent[s]) \in Nat /\ Len(replies[s]) \in Nat /\ troubles \in Nat
    BY <1>1, <1>2 DEF SessionTypes
  <2>3. Len(sent'[s]) = Len(sent[s]) + 1 /\ Len(replies'[s]) = Len(replies[s])
    BY <1>6, <1>9
  <2>4. (Len(sent[s]) + 1) + Len(replies[s]) <= 1 + troubles
    <3>1. \A a, b, n \in Nat : a + b <= n => (a + 1) + b <= 1 + n
      OBVIOUS
    <3> QED BY <2>1, <2>2, <3>1, Zenon
  <2>5. Len(sent'[s]) + Len(replies'[s]) <= 1 + troubles
    BY <2>3, <2>4, Zenon
  <2>6. \A r \in Sessions \ {s} : sent'[r] = sent[r] /\ replies'[r] = replies[r]
    BY <1>5, <1>9
  <2>7. \A r \in Sessions \ {s} : AwaitedIn(r)' <=> AwaitedIn(r)
    BY <1>11
  <2>8. AnswersDue /\ s \in Sessions /\ troubles' = troubles /\ AwaitedIn(s)'
    BY <1>1, <1>2, <1>9, <1>11
  <2> QED BY <2>5, <2>6, <2>7, <2>8, AnswersDueOnOne, Zenon
<1>17. ASSUME ~disturbed  PROVE  NothingStale' /\ Driven'
  <2>1. NothingStale /\ Driven
    BY <1>1, <1>17
  <2>2. sent[s] = << >> /\ replies[s] = << >>
    BY <1>2, <1>11, <2>1 DEF NothingStale
  <2>3. Len(sent'[s]) + Len(replies'[s]) = 1
    <3>1. Len(sent[s]) = 0 /\ Len(replies[s]) = 0
      BY <2>2
    <3> QED BY <1>6, <1>9, <3>1
  <2>4. NothingStale'
    <3>1. \A r \in Sessions \ {s} : ~AwaitedIn(r)' =>
            sent'[r] = << >> /\ (conn'[r] = "open" => replies'[r] = << >>)
      BY <1>5, <1>9, <1>11, <2>1 DEF NothingStale
    <3>2. ASSUME NEW u \in Threads \ {t}, call'[u].waiting
          PROVE  Len(sent'[SessionOf(u)']) + Len(replies'[SessionOf(u)']) = 1
      <4>1. call[u].waiting /\ SessionOf(u) \in Sessions \ {s} /\ SessionOf(u)' = SessionOf(u)
        BY <1>1, <1>7, <1>10, <3>2, WaitersDrive DEF Locked
      <4>2. Len(sent[SessionOf(u)]) + Len(replies[SessionOf(u)]) = 1
        BY <2>1, <4>1 DEF NothingStale
      <4> QED BY <1>5, <1>9, <4>1, <4>2
    <3> QED BY <1>10, <1>11, <2>3, <3>1, <3>2 DEF NothingStale
  <2>5. /\ Remaining(t)' = Remaining(t) /\ (FoundRunning(t)' <=> FoundRunning(t))
        /\ Drives(t)' <=> Drives(t)
    <3>1. Remaining(t)' = call[t].todo /\ Remaining(t) = call[t].todo
      BY <1>2, <1>6, <1>7, <1>10 DEF Remaining
    <3>2. FoundRunning(t)' <=> Remaining(t)' = Excursion
      BY <1>6, <1>10 DEF FoundRunning
    <3>3. FoundRunning(t) <=> Remaining(t) = Excursion
      BY <1>2 DEF FoundRunning
    <3>4. Drives(t)' <=> Drives(t)
      BY <1>9, <1>10 DEF Drives
    <3> QED BY <3>1, <3>2, <3>3, <3>4
  <2>6. \A u \in Threads \ {t} : ~Drives(u) /\ ~Drives(u)'
    <3>1. Drives(t)
      BY <1>2 DEF Drives
    <3>2. \A u \in Threads \ {t} : ~Drives(u)
      BY <1>1, <3>1, OneDriver
    <3> QED BY <1>9, <1>10, <3>2 DEF Drives
  <2>7. Driven'
    BY <1>9, <2>1, <2>5, <2>6 DEF Driven
  <2> QED BY <2>4, <2>7
<1> QED BY <1>8, <1>9, <1>12, <1>13, <1>14, <1>15, <1>16, <1>17 DEF SessionInv

\* What Receive does to the call and the answers.
LEMMA ReceiveFacts ==
  ASSUME SessionTypes, Locked, NEW t \in Threads, Receive(t)
  PROVE  /\ call' \in [Threads -> CallType]
         /\ call'[t].kind = call[t].kind /\ ~call'[t].waiting
         /\ call'[t].todo \in Lists(call[t].kind)
         /\ Head(call[t].todo).word # "targets" => call'[t].todo = Tail(call[t].todo)
         /\ Head(call[t].todo).word = "targets" =>
              call'[t].todo = IF "halted" \in Range(replies[SessionOf(t)]) THEN Simple ELSE Excursion
         /\ \A u \in Threads \ {t} : call'[u] = call[u]
<1> DEFINE q == replies[SessionOf(t)]  h == "halted" \in Range(q)
           next == IF Head(call[t].todo).word = "targets" THEN Wrapped(h)
                   ELSE Tail(call[t].todo)
<1>1. /\ call[t] \in CallType /\ call[t].todo \in Lists(call[t].kind)
      /\ call[t].kind \in Kinds \cup {"none"} /\ call[t].waiting /\ call[t].todo # << >>
  BY CallFields DEF SessionTypes, Locked, Receive
<1>2. call' = [call EXCEPT ![t].waiting = FALSE, ![t].todo = next]
  BY DEF Receive
<1>3. next \in Lists(call[t].kind) /\ next \in Seq(CommandType)
  <2>1. CASE Head(call[t].todo).word = "targets"
    <3>1. call[t].kind = "mem"
      BY <1>1, <2>1, ListFacts
    <3>2. next = IF h THEN Simple ELSE Excursion
      BY <2>1, WrappedFacts
    <3>3. next \in Lists("mem")
      BY <3>2, WrappedFacts
    <3> QED BY <3>1, <3>3, ListFacts DEF Kinds
  <2>2. CASE Head(call[t].todo).word # "targets"
    BY <1>1, <2>2, ListFacts
  <2> QED BY <2>1, <2>2
<1>4. Head(call[t].todo).word = "targets" => next = IF h THEN Simple ELSE Excursion
  BY WrappedFacts
<1>5. Head(call[t].todo).word # "targets" => next = Tail(call[t].todo)
  OBVIOUS
<1> HIDE DEF next
<1>6. /\ call' \in [Threads -> CallType] /\ call'[t].kind = call[t].kind
      /\ call'[t].waiting = FALSE /\ call'[t].todo = next
      /\ \A u \in Threads \ {t} : call'[u] = call[u]
  BY <1>1, <1>2, <1>3 DEF SessionTypes, CallType
<1> QED BY <1>3, <1>4, <1>5, <1>6

\* Receive reads the answer, and while nothing was given up it is the answer of
\* the command this thread waits for.
LEMMA ReceiveStep ==
  ASSUME SessionInv, NEW t \in Threads, Receive(t)
  PROVE  SessionInv'
<1> DEFINE command == Head(call[t].todo)
<1>1. /\ SessionTypes /\ Locked /\ ServersOnlyUse /\ OneConnection /\ LastSent /\ AnswersDue
      /\ ~disturbed => NothingStale /\ Driven
  BY DEF SessionInv
<1>0. call[t].waiting /\ InCall(t) /\ Drives(t) /\ call[t].todo # << >> /\ SessionOf(t) \in Sessions
  BY <1>1, WaitersDrive DEF Receive, Locked
<1> PICK s \in Sessions : s = SessionOf(t)
  BY <1>0
<1>2. /\ call[t].waiting /\ InCall(t) /\ Drives(t) /\ call[t].todo # << >>
      /\ s = SessionOf(t) /\ conn[s] = "open" /\ replies[s] # << >>
  BY <1>0 DEF Receive, Drives
<1>3. /\ replies' = [replies EXCEPT ![s] = << >>]
      /\ UNCHANGED <<window, servers, lock, conn, sent, target, counters>>
  BY DEF Receive
<1>4. /\ call' \in [Threads -> CallType]
      /\ call'[t].kind = call[t].kind /\ ~call'[t].waiting
      /\ call'[t].todo \in Lists(call[t].kind)
      /\ command.word # "targets" => call'[t].todo = Tail(call[t].todo)
      /\ command.word = "targets" =>
           call'[t].todo = IF "halted" \in Range(replies[s]) THEN Simple ELSE Excursion
      /\ \A u \in Threads \ {t} : call'[u] = call[u]
  BY <1>1, <1>2, ReceiveFacts
<1>5. /\ replies' \in [Sessions -> Seq(ReplyType)] /\ replies'[s] = << >>
      /\ \A r \in Sessions \ {s} : replies'[r] = replies[r]
  <2>1. << >> \in Seq(ReplyType)
    OBVIOUS
  <2> QED BY <1>1, <1>3, <2>1 DEF SessionTypes
<1>6. UNCHANGED <<gui, session, server, lock, conn, sent, core, wanted, disturbed, troubles>>
  BY <1>3 DEF window, servers, target, counters
<1>7. SessionTypes'
  BY <1>1, <1>3, <1>4, <1>5 DEF SessionTypes, window, servers, target, counters
<1>8. /\ \A u \in Threads : (SessionOf(u)' = SessionOf(u)) /\ (InCall(u)' <=> InCall(u))
      /\ \A u \in Threads \ {t} : SessionOf(u) = s => ~InCall(u) /\ ~call[u].waiting
  <2>1. \A u \in Threads : (SessionOf(u)' = SessionOf(u)) /\ (InCall(u)' <=> InCall(u))
    BY <1>4, <1>6 DEF SessionOf, InCall
  <2>2. \A u \in Threads \ {t} : SessionOf(u) = s => ~InCall(u)
    BY <1>1, <1>2, OneCaller
  <2> QED BY <1>1, <2>1, <2>2, WaitersDrive
<1>9. AwaitedIn(s) /\ ~AwaitedIn(s)' /\ \A r \in Sessions \ {s} : AwaitedIn(r)' <=> AwaitedIn(r)
  <2>1. AwaitedIn(s)
    BY <1>2 DEF AwaitedIn
  <2>2. ~AwaitedIn(s)'
    BY <1>4, <1>8 DEF AwaitedIn
  <2>3. \A r \in Sessions \ {s} : AwaitedIn(r)' <=> AwaitedIn(r)
    BY <1>2, <1>4, <1>8 DEF AwaitedIn
  <2> QED BY <2>1, <2>2, <2>3
<1>10. Locked'
  BY <1>1, <1>2, <1>4, <1>6, <1>8 DEF Locked
<1>11. ServersOnlyUse'
  BY <1>1, <1>4, ThreadNumbers DEF ServersOnlyUse
<1>12. OneConnection'
  <2>1. s = session
    BY <1>1, <1>2 DEF OneConnection
  <2>2. \A r \in Sessions : r > session => r # s
    BY <1>1, <2>1, ThreadNumbers DEF SessionTypes
  <2> QED BY <1>1, <1>5, <1>6, <1>8, <2>2, ThreadNumbers DEF OneConnection
<1>13. LastSent'
  BY <1>1, <1>4, <1>6, <1>8 DEF LastSent
<1>14. AnswersDue'
  <2>1. Len(sent[s]) + Len(replies[s]) <= 1 + troubles
    BY <1>1, <1>9 DEF AnswersDue
  <2>2. /\ Len(sent[s]) \in Nat /\ Len(replies[s]) \in Nat /\ troubles \in Nat
        /\ Len(replies[s]) # 0
    BY <1>1, <1>2, EmptySeq DEF SessionTypes
  <2>3. Len(sent[s]) + 0 <= troubles
    <3>1. \A a, b, n \in Nat : a + b <= 1 + n /\ b # 0 => a + 0 <= n
      OBVIOUS
    <3> QED BY <2>1, <2>2, <3>1, Zenon
  <2>4. sent'[s] = sent[s] /\ Len(replies'[s]) = 0
    BY <1>5, <1>6
  <2>5. Len(sent'[s]) + Len(replies'[s]) <= troubles
    BY <2>3, <2>4, Zenon
  <2>6. \A r \in Sessions \ {s} : sent'[r] = sent[r] /\ replies'[r] = replies[r]
    BY <1>5, <1>6
  <2>7. \A r \in Sessions \ {s} : AwaitedIn(r)' <=> AwaitedIn(r)
    BY <1>9
  <2>8. AnswersDue /\ s \in Sessions /\ troubles' = troubles /\ ~AwaitedIn(s)'
    BY <1>1, <1>6, <1>9
  <2> QED BY <2>5, <2>6, <2>7, <2>8, AnswersDueOnOne, Zenon
<1>15. ASSUME ~disturbed  PROVE  NothingStale' /\ Driven'
  <2>1. NothingStale /\ Driven
    BY <1>1, <1>15
  <2>2. sent[s] = << >>
    <3>1. Len(sent[s]) + Len(replies[s]) = 1
      BY <1>2, <2>1 DEF NothingStale
    <3>2. Len(sent[s]) \in Nat /\ Len(replies[s]) \in Nat /\ Len(replies[s]) # 0
      BY <1>1, <1>2, EmptySeq DEF SessionTypes
    <3>3. \A a, b \in Nat : a + b = 1 /\ b # 0 => a = 0
      OBVIOUS
    <3>4. Len(sent[s]) = 0
      BY <3>1, <3>2, <3>3, Zenon
    <3> QED BY <1>1, <3>4, LenZero DEF SessionTypes
  <2>3. NothingStale'
    <3>1. \A r \in Sessions : ~AwaitedIn(r)' =>
            sent'[r] = << >> /\ (conn'[r] = "open" => replies'[r] = << >>)
      BY <1>5, <1>6, <1>9, <2>1, <2>2 DEF NothingStale
    <3>2. ASSUME NEW u \in Threads, call'[u].waiting
          PROVE  Len(sent'[SessionOf(u)']) + Len(replies'[SessionOf(u)']) = 1
      <4>1. u # t
        BY <1>4, <3>2
      <4>2. call[u].waiting /\ SessionOf(u) \in Sessions \ {s} /\ SessionOf(u)' = SessionOf(u)
        BY <1>1, <1>4, <1>8, <3>2, <4>1, WaitersDrive DEF Locked
      <4>3. Len(sent[SessionOf(u)]) + Len(replies[SessionOf(u)]) = 1
        BY <2>1, <4>2 DEF NothingStale
      <4> QED BY <1>5, <1>6, <4>2, <4>3
    <3> QED BY <3>1, <3>2 DEF NothingStale
  <2>4. Remaining(t) = Tail(call[t].todo) /\ Remaining(t)' = call'[t].todo
    BY <1>2, <1>4, <2>2 DEF Remaining
  <2>5. /\ Tail(call[t].todo) # Excursion
        /\ command.word = "targets" => Tail(call[t].todo) \notin Debts
    <3>1. call[t].kind \in Kinds \cup {"none"} /\ call[t].todo \in Lists(call[t].kind)
      BY <1>1, CallFields DEF Locked
    <3>2. \A kind \in Kinds \cup {"none"} : \A list \in Lists(kind) : list # << >> =>
            /\ Tail(list) # Excursion
            /\ Head(list).word = "targets" => Tail(list) \notin Debts
      BY ListFacts, PartsDiffer
    <3> QED BY <1>2, <3>1, <3>2, Zenon
  <2>6. Remaining(t)' \in Debts <=> Remaining(t) \in Debts
    <3>1. CASE command.word = "targets"
      BY <1>4, <2>4, <2>5, <3>1, PartsDiffer
    <3>2. CASE command.word # "targets"
      BY <1>4, <2>4, <3>2
    <3> QED BY <3>1, <3>2
  <2>7. FoundRunning(t)' => FoundRunning(t)
    <3>1. FoundRunning(t)' => call'[t].todo = Excursion
      BY <1>4, <2>4 DEF FoundRunning
    <3>2. CASE command.word = "targets"
      BY <1>2, <1>4, <2>2, <3>1, <3>2, PartsDiffer DEF FoundRunning
    <3>3. CASE command.word # "targets"
      BY <1>4, <2>5, <3>1, <3>3
    <3> QED BY <3>2, <3>3
  <2>8. Drives(t) /\ Drives(t)' /\ \A u \in Threads \ {t} : ~Drives(u) /\ ~Drives(u)'
    <3>1. \A u \in Threads \ {t} : ~Drives(u)
      BY <1>1, <1>2, OneDriver
    <3> QED BY <1>2, <1>6, <1>8, <3>1 DEF Drives
  <2>9. Driven'
    BY <1>6, <2>1, <2>6, <2>7, <2>8 DEF Driven
  <2> QED BY <2>3, <2>9
<1> QED BY <1>6, <1>7, <1>10, <1>11, <1>12, <1>13, <1>14, <1>15 DEF SessionInv

\* The ways a call ends: nothing is waited for, the answer is given up, or it is
\* read and raises, while no resume is due or disturbed.
Unawaited(t) ==
  /\ ~call[t].waiting /\ UNCHANGED <<replies, disturbed, troubles>>
  /\ call[t].todo = << >> \/ ~Drives(t)
GivenUp == disturbed' /\ troubles' = troubles + 1 /\ UNCHANGED replies
Rejected(t) ==
  /\ call[t].waiting /\ replies[SessionOf(t)] # << >>
  /\ replies' = [replies EXCEPT ![SessionOf(t)] = << >>]
  /\ troubles' = troubles
  /\ disturbed' \/ (~disturbed /\ Tail(call[t].todo) \notin Debts)

\* A call ends.  Of the calls that close the connection none is an excursion.
LEMMA LeaveStep ==
  ASSUME SessionInv, NEW t \in Threads, NEW failed \in BOOLEAN, InCall(t), Leave(t, failed),
         UNCHANGED <<sent, core, wanted, calls>>, disturbed' \in BOOLEAN,
         Unawaited(t) \/ GivenUp \/ Rejected(t)
  PROVE  SessionInv'
<1>1. /\ SessionTypes /\ Locked /\ ServersOnlyUse /\ OneConnection /\ LastSent /\ AnswersDue
      /\ ~disturbed => NothingStale /\ Driven
  BY DEF SessionInv
<1>0. SessionOf(t) \in Sessions
  BY <1>1 DEF Locked
<1> PICK s \in Sessions : s = SessionOf(t)
  BY <1>0
<1>2. /\ call' = [call EXCEPT ![t] = NoCall] /\ lock' = [lock EXCEPT ![s] = NoThread]
      /\ conn' = [conn EXCEPT ![s] =
           IF call[t].kind = "close" \/ (call[t].kind = "connect" /\ failed) THEN "closed" ELSE @]
      /\ UNCHANGED <<session, running, sock, told, sent, core, wanted, calls>>
  BY DEF Leave
<1>20. /\ replies' \in [Sessions -> Seq(ReplyType)] /\ replies'[s] \in {replies[s], << >>}
       /\ \A r \in Sessions \ {s} : replies'[r] = replies[r]
       /\ \A r \in Sessions : Len(replies'[r]) <= Len(replies[r]) /\ Len(replies'[r]) \in Nat
  <2>1. CASE replies' = replies
    BY <1>1, <2>1 DEF SessionTypes
  <2>2. CASE replies' = [replies EXCEPT ![s] = << >>]
    <3>1. << >> \in Seq(ReplyType) /\ Len(<< >>) = 0
      OBVIOUS
    <3>2. /\ replies' \in [Sessions -> Seq(ReplyType)] /\ replies'[s] = << >>
          /\ \A r \in Sessions \ {s} : replies'[r] = replies[r]
      BY <1>1, <2>2, <3>1 DEF SessionTypes
    <3>3. \A r \in Sessions : Len(replies[r]) \in Nat /\ Len(replies[r]) >= 0
      BY <1>1 DEF SessionTypes
    <3> QED BY <3>1, <3>2, <3>3
  <2>3. replies' = replies \/ replies' = [replies EXCEPT ![s] = << >>]
    BY DEF Unawaited, GivenUp, Rejected
  <2> QED BY <2>1, <2>2, <2>3, Zenon
<1>3. /\ call' \in [Threads -> CallType]
      /\ call'[t].kind = "none" /\ call'[t].todo = << >> /\ ~call'[t].waiting
      /\ \A u \in Threads \ {t} : call'[u] = call[u]
  <2>1. NoCall \in CallType
    BY DEF NoCall, CallType
  <2>2. /\ call' \in [Threads -> CallType] /\ call'[t] = NoCall
        /\ \A u \in Threads \ {t} : call'[u] = call[u]
    BY <1>1, <1>2, <2>1 DEF SessionTypes
  <2> QED BY <2>2 DEF NoCall
<1>4. /\ lock' \in [Sessions -> Threads \cup {NoThread}] /\ lock'[s] = NoThread
      /\ \A r \in Sessions \ {s} : lock'[r] = lock[r]
  BY <1>1, <1>2 DEF SessionTypes
<1>5. /\ conn' \in [Sessions -> {"none", "open", "closed"}]
      /\ conn'[s] = "closed" \/ conn'[s] = conn[s]
      /\ call[t].kind = "close" \/ (call[t].kind = "connect" /\ failed) => conn'[s] = "closed"
      /\ \A r \in Sessions \ {s} : conn'[r] = conn[r]
  BY <1>1, <1>2 DEF SessionTypes
<1>6. /\ \A u \in Threads : SessionOf(u)' = SessionOf(u)
      /\ \A u \in Threads \ {t} : InCall(u)' <=> InCall(u)
      /\ ~InCall(t)'
  BY <1>2, <1>3 DEF SessionOf, InCall
<1>7. /\ \A u \in Threads \ {t} : SessionOf(u) = s => ~InCall(u) /\ ~call[u].waiting
      /\ \A u \in Threads \ {t} : InCall(u) => SessionOf(u) \in Sessions \ {s}
  <2>1. \A u \in Threads \ {t} : SessionOf(u) = s => ~InCall(u)
    BY <1>1, OneCaller
  <2> QED BY <1>1, <2>1, WaitersDrive DEF Locked
<1>8. /\ gui' \in {"closed", "connecting", "finding", "failing", "open", "closing"}
      /\ t # GUI => gui' = gui
      /\ t = GUI => (gui' = "closed" => conn'[s] = "closed")
      /\ gui = "closed" => gui' = "closed"
  <2>1. CASE t # GUI
    <3>1. gui' = gui
      BY <2>1 DEF Leave
    <3> QED BY <1>1, <2>1, <3>1 DEF SessionTypes
  <2>2. CASE t = GUI
    <3>1. gui' = CASE call[t].kind = "close"   -> "closed"
                   [] call[t].kind = "connect" -> IF failed THEN "closed" ELSE "finding"
                   [] OTHER -> IF failed /\ gui = "finding" THEN "failing" ELSE gui
      BY <2>2 DEF Leave
    <3>2. gui # "closed"
      BY <1>1, <2>2 DEF OneConnection
    <3>3. CASE call[t].kind = "close"
      BY <1>5, <2>2, <3>1, <3>2, <3>3
    <3>4. CASE call[t].kind = "connect"
      BY <1>5, <2>2, <3>1, <3>2, <3>4
    <3>5. CASE call[t].kind \notin {"close", "connect"}
      <4>1. gui' = IF failed /\ gui = "finding" THEN "failing" ELSE gui
        BY <3>1, <3>5
      <4> QED BY <1>1, <2>2, <3>2, <4>1 DEF SessionTypes
    <3> QED BY <3>3, <3>4, <3>5
  <2> QED BY <2>1, <2>2
<1>9. /\ server' \in [Sessions -> {"none", "created", "binding", "accepting", "serving", "packet",
                                   "handling", "spinning", "ended"}]
      /\ \A r \in Sessions \ {s} : server'[r] = server[r]
  <2>1. CASE t = GUI
    <3>1. server' = [server EXCEPT ![s] =
                       IF call[t].kind = "connect" /\ ~failed THEN "created" ELSE @]
      BY <2>1 DEF Leave
    <3> QED BY <1>1, <3>1 DEF SessionTypes
  <2>2. CASE t # GUI
    <3>1. server' = [server EXCEPT ![s] = IF call[t].kind = "halt" /\ conn[s] = "closed"
                                          THEN "accepting" ELSE AfterPacket(s)]
      BY <2>2 DEF Leave
    <3>2. AfterPacket(s) \in {"serving", "accepting"}
      BY DEF AfterPacket
    <3> QED BY <1>1, <3>1, <3>2 DEF SessionTypes
  <2> QED BY <2>1, <2>2
<1>10. troubles' \in Nat /\ disturbed' \in BOOLEAN
  BY <1>1 DEF SessionTypes, Unawaited, GivenUp, Rejected
<1>11. SessionTypes'
  BY <1>1, <1>2, <1>3, <1>4, <1>5, <1>8, <1>9, <1>10, <1>20 DEF SessionTypes
<1>12. Locked'
  <2>1. ASSUME NEW u \in Threads
        PROVE  /\ InCall(u)' => SessionOf(u)' \in Sessions /\ lock'[SessionOf(u)'] = u
               /\ call'[u].todo \in Lists(call'[u].kind)
               /\ call'[u].waiting => call'[u].todo # << >>
    <3>1. CASE u = t
      BY <1>3, <1>6, <3>1 DEF Lists
    <3>2. CASE u # t
      BY <1>1, <1>3, <1>4, <1>6, <1>7, <3>2 DEF Locked
    <3> QED BY <3>1, <3>2
  <2> QED BY <2>1 DEF Locked
<1>13. ServersOnlyUse'
  BY <1>1, <1>3, ThreadNumbers DEF ServersOnlyUse
<1>14. OneConnection'
  <2>1. \A r \in Sessions : r > session => r # s
    <3>1. t = GUI => s = session
      BY DEF SessionOf
    <3>2. t # GUI => t \in Sessions /\ s = t /\ InCall(t)
      BY ThreadNumbers DEF SessionOf
    <3>3. t # GUI => ~(t > session)
      BY <1>1, <3>2 DEF OneConnection
    <3> QED BY <1>1, <3>1, <3>2, <3>3, ThreadNumbers DEF SessionTypes
  <2>2. gui' # "closed" => session' \in Sessions
    BY <1>1, <1>2, <1>8 DEF OneConnection
  <2>3. gui' = "closed" => ~InCall(GUI)'
    BY <1>1, <1>6, <1>8, ThreadNumbers DEF OneConnection
  <2>4. ASSUME NEW r \in Sessions, conn'[r] = "open"
        PROVE  r = session' /\ gui' # "closed"
    <3>1. conn[r] = "open"
      BY <1>5, <2>4
    <3>2. r = session /\ gui # "closed"
      BY <1>1, <3>1 DEF OneConnection
    <3>3. t = GUI => s = session
      BY DEF SessionOf
    <3> QED BY <1>2, <1>8, <2>4, <3>2, <3>3
  <2>5. ASSUME NEW r \in Sessions, r > session'
        PROVE  /\ server'[r] = "none" /\ ~InCall(r)' /\ lock'[r] = NoThread
               /\ sent'[r] = << >> /\ replies'[r] = << >>
    <3>1. r > session /\ r # s
      BY <1>2, <2>1, <2>5
    <3> QED BY <1>1, <1>2, <1>4, <1>6, <1>9, <1>20, <3>1, ThreadNumbers DEF OneConnection
  <2> QED BY <2>2, <2>3, <2>4, <2>5 DEF OneConnection
<1>15. LastSent'
  BY <1>1, <1>2, <1>3, <1>5, <1>6, <1>7, WaitersDrive DEF LastSent
<1>16. ~AwaitedIn(s)' /\ \A r \in Sessions \ {s} : AwaitedIn(r)' <=> AwaitedIn(r)
  <2>1. ~AwaitedIn(s)'
    BY <1>3, <1>6, <1>7 DEF AwaitedIn
  <2>2. \A r \in Sessions \ {s} : AwaitedIn(r)' <=> AwaitedIn(r)
    BY <1>3, <1>6, <1>7 DEF AwaitedIn
  <2> QED BY <2>1, <2>2
<1>17. AnswersDue'
  <2>1. \A r \in Sessions : /\ Len(sent[r]) \in Nat /\ Len(replies[r]) \in Nat
                            /\ Len(replies'[r]) \in Nat /\ troubles \in Nat
                            /\ Len(replies'[r]) <= Len(replies[r])
    BY <1>1, <1>20 DEF SessionTypes
  <2>2. \A a, b, c, n \in Nat : a + b <= n /\ c <= b => a + c <= n
    OBVIOUS
  <2>3. \A r \in Sessions : /\ AwaitedIn(r) => Len(sent[r]) + Len(replies[r]) <= 1 + troubles
                            /\ ~AwaitedIn(r) => Len(sent[r]) + Len(replies[r]) <= troubles
    BY <1>1 DEF AnswersDue
  <2>4. ASSUME NEW r \in Sessions
        PROVE  /\ AwaitedIn(r) => Len(sent[r]) + Len(replies'[r]) <= 1 + troubles
               /\ ~AwaitedIn(r) => Len(sent[r]) + Len(replies'[r]) <= troubles
    <3>1. 1 + troubles \in Nat
      BY <1>1 DEF SessionTypes
    <3>2. /\ Len(sent[r]) \in Nat /\ Len(replies[r]) \in Nat /\ Len(replies'[r]) \in Nat
          /\ Len(replies'[r]) <= Len(replies[r]) /\ troubles \in Nat
      BY <2>1
    <3>3. ASSUME AwaitedIn(r)  PROVE Len(sent[r]) + Len(replies'[r]) <= 1 + troubles
      <4>1. Len(sent[r]) + Len(replies[r]) <= 1 + troubles
        BY <2>3, <3>3
      <4> QED BY ONLY <2>2, <3>1, <3>2, <4>1, Zenon
    <3>4. ASSUME ~AwaitedIn(r)  PROVE Len(sent[r]) + Len(replies'[r]) <= troubles
      <4>1. Len(sent[r]) + Len(replies[r]) <= troubles
        BY <2>3, <3>4
      <4> QED BY ONLY <2>2, <3>2, <4>1, Zenon
    <3> QED BY <3>3, <3>4
  <2>5. CASE Unawaited(t)
    <3>1. ~AwaitedIn(s)
      BY <1>7, <2>5 DEF AwaitedIn, Unawaited
    <3>2. ~AwaitedIn(s)' /\ Len(sent[s]) + Len(replies'[s]) <= troubles
      BY <1>16, <2>4, <3>1
    <3>3. troubles' = troubles
      BY <2>5 DEF Unawaited
    <3> QED BY <1>2, <1>16, <2>4, <3>2, <3>3 DEF AnswersDue
  <2>6. CASE GivenUp
    <3>1. ASSUME NEW r \in Sessions
          PROVE  /\ Len(sent[r]) + Len(replies'[r]) <= 1 + (troubles + 1)
                 /\ Len(sent[r]) + Len(replies'[r]) <= troubles + 1
      <4>1. Len(sent[r]) \in Nat /\ Len(replies'[r]) \in Nat /\ troubles \in Nat
        BY <2>1
      <4>2. \/ Len(sent[r]) + Len(replies'[r]) <= 1 + troubles
            \/ Len(sent[r]) + Len(replies'[r]) <= troubles
        BY <2>4
      <4>3. \A a, b, n \in Nat : a + b <= n \/ a + b <= 1 + n =>
                                  a + b <= n + 1 /\ a + b <= 1 + (n + 1)
        OBVIOUS
      <4> QED BY ONLY <4>1, <4>2, <4>3, Zenon
    <3>2. troubles' = troubles + 1
      BY <2>6 DEF GivenUp
    <3> QED BY <1>2, <3>1, <3>2 DEF AnswersDue
  <2>7. CASE Rejected(t)
    <3>1. /\ AwaitedIn(s) /\ replies[s] # << >> /\ replies' = [replies EXCEPT ![s] = << >>]
          /\ troubles' = troubles
      BY <2>7 DEF AwaitedIn, Rejected
    <3>2. Len(replies[s]) # 0 /\ Len(replies'[s]) = 0
      BY <1>1, <3>1, EmptySeq DEF SessionTypes
    <3>3. \A a, b, n \in Nat : a + b <= 1 + n /\ b # 0 => a + 0 <= n
      OBVIOUS
    <3>4. ~AwaitedIn(s)' /\ Len(sent[s]) + 0 <= troubles
      <4>1. Len(sent[s]) + Len(replies[s]) <= 1 + troubles
        BY <2>3, <3>1
      <4>2. Len(sent[s]) \in Nat /\ Len(replies[s]) \in Nat /\ troubles \in Nat
        BY <2>1
      <4>3. Len(sent[s]) + 0 <= troubles
        BY <3>2, <3>3, <4>1, <4>2, Zenon
      <4> QED BY <1>16, <4>3, Zenon
    <3>5. Len(sent[s]) + Len(replies'[s]) <= troubles
      BY <3>2, <3>4, Zenon
    <3> QED BY <1>2, <1>16, <2>4, <3>1, <3>4, <3>5 DEF AnswersDue
  <2> QED BY <2>5, <2>6, <2>7
<1>18. ASSUME ~disturbed'  PROVE  NothingStale' /\ Driven'
  <2>1. ~disturbed /\ (Unawaited(t) \/ (Rejected(t) /\ Tail(call[t].todo) \notin Debts))
    BY <1>18 DEF Unawaited, GivenUp, Rejected
  <2>2. NothingStale /\ Driven
    BY <1>1, <2>1
  <2>8. sent[s] = << >> /\ (conn[s] = "open" => replies'[s] = << >>)
    <3>1. CASE Unawaited(t)
      <4>1. ~AwaitedIn(s)
        BY <1>7, <3>1 DEF AwaitedIn, Unawaited
      <4> QED BY <2>2, <3>1, <4>1 DEF NothingStale, Unawaited
    <3>2. CASE Rejected(t)
      <4>1. /\ call[t].waiting /\ replies[s] # << >>
            /\ replies' = [replies EXCEPT ![s] = << >>]
        BY <3>2 DEF Rejected
      <4>2. Len(sent[s]) + Len(replies[s]) = 1
        BY <2>2, <4>1 DEF NothingStale
      <4>3. Len(sent[s]) \in Nat /\ Len(replies[s]) \in Nat /\ Len(replies[s]) # 0
        BY <1>1, <4>1, EmptySeq DEF SessionTypes
      <4>4. \A a, b \in Nat : a + b = 1 /\ b # 0 => a = 0
        OBVIOUS
      <4>5. Len(sent[s]) = 0
        BY <4>2, <4>3, <4>4, Zenon
      <4> QED BY <1>1, <4>1, <4>5, LenZero DEF SessionTypes
    <3> QED BY <2>1, <3>1, <3>2
  <2>3. NothingStale'
    <3>1. \A r \in Sessions : ~AwaitedIn(r)' =>
            sent'[r] = << >> /\ (conn'[r] = "open" => replies'[r] = << >>)
      BY <1>2, <1>5, <1>16, <1>20, <2>2, <2>8 DEF NothingStale
    <3>2. ASSUME NEW u \in Threads, call'[u].waiting
          PROVE  Len(sent'[SessionOf(u)']) + Len(replies'[SessionOf(u)']) = 1
      <4>1. u # t
        BY <1>3, <3>2
      <4>2. call[u].waiting /\ SessionOf(u) \in Sessions \ {s} /\ SessionOf(u)' = SessionOf(u)
        BY <1>1, <1>3, <1>6, <1>7, <3>2, <4>1, WaitersDrive
      <4>3. Len(sent[SessionOf(u)]) + Len(replies[SessionOf(u)]) = 1
        BY <2>2, <4>2 DEF NothingStale
      <4> QED BY <1>2, <1>20, <4>2, <4>3
    <3> QED BY <3>1, <3>2 DEF NothingStale
  <2>4. \A u \in Threads \ {t} :
          /\ Drives(u)' <=> Drives(u)
          /\ Remaining(u)' = Remaining(u) /\ (FoundRunning(u)' <=> FoundRunning(u))
    <3>1. \A u \in Threads \ {t} : Drives(u)' <=> Drives(u)
      BY <1>5, <1>6, <1>7 DEF Drives
    <3>2. \A u \in Threads \ {t} : Remaining(u)' = Remaining(u)
      BY <1>2, <1>3, <1>6 DEF Remaining
    <3>3. ASSUME NEW u \in Threads \ {t}  PROVE FoundRunning(u)' <=> FoundRunning(u)
      <4>1. CASE call[u].waiting
        <5>1. SessionOf(u) \in Sessions \ {s}
          BY <1>1, <1>7, <4>1, WaitersDrive
        <5> QED BY <1>2, <1>3, <1>6, <1>20, <3>2, <5>1 DEF FoundRunning
      <4>2. CASE ~call[u].waiting
        BY <1>3, <3>2, <4>2 DEF FoundRunning
      <4> QED BY <4>1, <4>2
    <3> QED BY <3>1, <3>2, <3>3
  <2>5. ~Drives(t)'
    BY <1>6 DEF Drives
  <2>6. Drives(t) => Remaining(t) \notin Debts
    BY <2>1, <2>8, PartsDiffer DEF Remaining, Unawaited, Rejected
  <2>7. Driven'
    BY <1>2, <2>2, <2>4, <2>5, <2>6 DEF Driven
  <2> QED BY <2>3, <2>7
<1> QED BY <1>11, <1>12, <1>13, <1>14, <1>15, <1>17, <1>18 DEF SessionInv

\* Of the lists that begin with an access, the one that owes a resume has it.
LEMMA ResumeIsDue ==
  ASSUME NEW kind \in Kinds \cup {"none"}, NEW list \in Lists(kind), list # << >>,
         Head(list).word \in {"access", "reg"}, Tail(list) \in Debts
  PROVE  Own("resume") \in Range(list)
<1>1. list = Excursion \/ list = Held
  BY ListFacts
<1>2. Own("halt").word = "halt"
  BY DEF Own
<1>3. list = Held
  BY <1>1, <1>2, ExcursionParts
<1>4. Held = <<Own("access"), Own("resume")>>
  BY DEF Held
<1>5. 2 \in DOMAIN Held /\ Held[2] = Own("resume")
  BY <1>4
<1> QED BY <1>3, <1>5 DEF Range

\* The steps of a call keep the invariant.
LEMMA CallStepKeeps ==
  ASSUME SessionInv, NEW t \in Threads, CallStep(t)
  PROVE  SessionInv'
<1>1. SessionTypes /\ Locked /\ OneConnection /\ LastSent
  BY DEF SessionInv
<1>2. CASE Send(t)
  BY <1>2, SendStep
<1>3. CASE Receive(t)
  BY <1>3, ReceiveStep
<1>4. CASE Return(t)
  <2>1. /\ InCall(t) /\ ~call[t].waiting /\ call[t].todo = << >> /\ Leave(t, FALSE)
        /\ UNCHANGED <<sent, replies, target, counters>>
    BY <1>1, <1>4, CallingIsInCall DEF Return
  <2>2. disturbed' \in BOOLEAN
    BY <1>1, <2>1 DEF SessionTypes, target
  <2> QED BY <2>1, <2>2, LeaveStep DEF target, counters, Unawaited
<1>5. CASE NoConnection(t)
  <2>1. /\ InCall(t) /\ conn[SessionOf(t)] = "closed" /\ Leave(t, TRUE)
        /\ UNCHANGED <<sent, replies, target, counters>>
    BY <1>1, <1>5, CallingIsInCall DEF NoConnection
  <2>2. disturbed' \in BOOLEAN
    BY <1>1, <2>1 DEF SessionTypes, target
  <2>3. ~Drives(t)
    BY <2>1 DEF Drives
  <2>4. ~call[t].waiting
    BY <1>1, <2>3, WaitersDrive
  <2> QED BY <2>1, <2>2, <2>3, <2>4, LeaveStep DEF target, counters, Unawaited
<1>6. CASE TimeOut(t)
  <2>1. /\ call[t].waiting /\ Leave(t, TRUE) /\ disturbed' = TRUE /\ troubles' = troubles + 1
        /\ UNCHANGED <<sent, replies, core, wanted, calls>>
    BY <1>6 DEF TimeOut
  <2>2. InCall(t)
    BY <1>1, <2>1, WaitersDrive
  <2> QED BY <2>1, <2>2, LeaveStep DEF GivenUp
<1>7. CASE NoNumber(t)
  <2>1. /\ call[t].waiting /\ replies[SessionOf(t)] # << >> /\ Leave(t, TRUE)
        /\ Head(call[t].todo).word \in {"access", "reg"}
        /\ replies' = [replies EXCEPT ![SessionOf(t)] = << >>]
        /\ disturbed' = (disturbed \/ Own("resume") \in Range(call[t].todo))
        /\ UNCHANGED <<sent, core, wanted, calls, troubles>>
    BY <1>7 DEF NoNumber, counters
  <2>2. InCall(t) /\ call[t].todo # << >> /\ disturbed' \in BOOLEAN
    BY <1>1, <2>1, WaitersDrive DEF SessionTypes
  <2>3. disturbed' \/ (~disturbed /\ Tail(call[t].todo) \notin Debts)
    <3>1. /\ call[t].kind \in Kinds \cup {"none"} /\ call[t].todo \in Lists(call[t].kind)
          /\ disturbed \in BOOLEAN
      BY <1>1, CallFields DEF Locked, SessionTypes
    <3>2. Tail(call[t].todo) \in Debts => Own("resume") \in Range(call[t].todo)
      BY <2>1, <2>2, <3>1, ResumeIsDue
    <3> QED BY <2>1, <3>1, <3>2
  <2>4. Rejected(t)
    BY <2>1, <2>3 DEF Rejected
  <2> QED BY <2>1, <2>2, <2>4, LeaveStep
<1> QED BY <1>2, <1>3, <1>4, <1>5, <1>6, <1>7 DEF CallStep

-----------------------------------------------------------------------------
(* The steps of OpenOCD and of the core.                                   *)

\* OpenOCD executes the oldest command of s; here its answer is abstract.
Executes(s, command, answer) ==
  /\ sent[s] # << >> /\ command = Head(sent[s])
  /\ sent' = [sent EXCEPT ![s] = Tail(@)]
  /\ replies' = [replies EXCEPT ![s] = IF conn[s] = "closed" THEN @ ELSE Append(@, answer)]
  /\ answer \in ReplyType
  /\ command.word = "targets" => answer = IF core THEN "running" ELSE "halted"

\* The queues after the execution of a command.
LEMMA ExecutesFacts ==
  ASSUME SessionTypes, NEW s \in Sessions, NEW command, NEW answer, Executes(s, command, answer)
  PROVE  /\ command \in CommandType
         /\ sent' \in [Sessions -> Seq(CommandType)] /\ replies' \in [Sessions -> Seq(ReplyType)]
         /\ \A r \in Sessions \ {s} : sent'[r] = sent[r] /\ replies'[r] = replies[r]
         /\ Len(sent'[s]) = Len(sent[s]) - 1 /\ Len(sent[s]) \in Nat \ {0}
         /\ sent'[s] # << >> => sent'[s][Len(sent'[s])] = sent[s][Len(sent[s])]
         /\ Len(sent[s]) = 1 => sent'[s] = << >> /\ sent[s][Len(sent[s])] = command
         /\ Len(replies[s]) \in Nat
         /\ conn[s] = "closed" => replies'[s] = replies[s]
         /\ conn[s] # "closed" => /\ replies'[s] = Append(replies[s], answer)
                                  /\ Len(replies'[s]) = Len(replies[s]) + 1
<1> DEFINE q == sent[s]  a == replies[s]
<1>1. q \in Seq(CommandType) /\ q # << >> /\ a \in Seq(ReplyType) /\ answer \in ReplyType
  BY DEF SessionTypes, Executes
<1>2. sent' = [sent EXCEPT ![s] = Tail(q)] /\ command = Head(q)
  BY DEF Executes
<1>3. replies' = [replies EXCEPT ![s] = IF conn[s] = "closed" THEN a ELSE Append(a, answer)]
  BY DEF Executes
<1>4. /\ Head(q) = q[1] /\ Head(q) \in CommandType /\ Tail(q) \in Seq(CommandType)
      /\ Len(Tail(q)) = Len(q) - 1 /\ \A i \in 1..Len(q) - 1 : Tail(q)[i] = q[i + 1]
  BY <1>1, DropHead
<1>5. Len(q) \in Nat \ {0} /\ Len(a) \in Nat
  <2>1. Len(q) \in Nat /\ Len(a) \in Nat
    BY <1>1
  <2>2. Len(q) # 0
    BY <1>1, LenZero
  <2> QED BY <2>1, <2>2
<1>6. Append(a, answer) \in Seq(ReplyType) /\ Len(Append(a, answer)) = Len(a) + 1
  BY <1>1
<1>7. Tail(q) # << >> => Tail(q)[Len(Tail(q))] = q[Len(q)]
  BY <1>1, LastOfTail
<1>8. Len(q) = 1 => Tail(q) = << >> /\ q[Len(q)] = command
  BY <1>1, <1>2, <1>4, TailOfOne
<1> HIDE DEF q, a
<1>9. /\ sent' \in [Sessions -> Seq(CommandType)] /\ sent'[s] = Tail(q)
      /\ \A r \in Sessions \ {s} : sent'[r] = sent[r]
  BY <1>2, <1>4 DEF SessionTypes
<1>10. /\ replies' \in [Sessions -> Seq(ReplyType)]
       /\ replies'[s] = IF conn[s] = "closed" THEN a ELSE Append(a, answer)
       /\ \A r \in Sessions \ {s} : replies'[r] = replies[r]
  BY <1>1, <1>3, <1>6 DEF SessionTypes
<1>11. q = sent[s] /\ a = replies[s]
  BY DEF q, a
<1> QED BY <1>2, <1>4, <1>5, <1>6, <1>7, <1>8, <1>9, <1>10, <1>11

\* The core is driven right by what the driving thread has executed next.
LEMMA ExecutedRight ==
  ASSUME NEW t \in Threads, NEW kind \in Kinds \cup {"none"}, NEW list \in Lists(kind),
         NEW command, NEW debt, NEW debt2, NEW found,
         list # << >>, command = Head(list), core \in BOOLEAN, wanted \in BOOLEAN,
         core' = After(command.word), wanted' = IF command.asked THEN core' ELSE wanted,
         debt \in BOOLEAN, debt <=> list \in Debts, debt2 <=> Tail(list) \in Debts,
         found <=> command.word = "targets" /\ core,
         command.asked \/ (IF debt THEN wanted /\ ~core
                           ELSE core = wanted /\ (list = Excursion => core))
  PROVE  /\ core' \in BOOLEAN /\ wanted' \in BOOLEAN
         /\ debt2 => wanted' /\ ~core'
         /\ ~debt2 => core' = wanted'
         /\ found => core'
<1>1. core' \in BOOLEAN
  BY DEF After
<1>2. CASE command.asked
  <2>1. ~debt2 /\ ~found /\ wanted' = core'
    BY <1>2, ListFacts, PartsDiffer
  <2> QED BY <1>1, <2>1
<1>3. CASE ~command.asked
  <2>1. /\ command.word = "halt" <=> list = Excursion
        /\ command.word = "resume" <=> list = Resuming
        /\ command.word # "step"
        /\ Tail(list) \in Debts => list = Excursion \/ list = Held
        /\ list = Excursion => Tail(list) \in Debts
        /\ list \in Debts => (command.word # "resume" <=> Tail(list) \in Debts)
    BY <1>3, ListFacts
  <2>2. wanted' = wanted
    BY <1>3
  <2>3. Held \in Debts /\ Resuming \in Debts /\ Excursion \notin Debts
    BY PartsDiffer DEF Debts
  <2>4. CASE list = Excursion
    <3>1. core' = FALSE /\ core /\ core = wanted /\ debt2 /\ command.word = "halt"
      BY <1>3, <2>1, <2>3, <2>4 DEF After
    <3>2. ~found /\ wanted = TRUE
      BY <3>1
    <3> QED BY <2>2, <3>1, <3>2
  <2>5. CASE list = Resuming
    <3>1. command.word = "resume" /\ wanted /\ ~debt2
      BY <1>3, <2>1, <2>3, <2>5
    <3>2. core' = TRUE
      BY <3>1 DEF After
    <3> QED BY <2>2, <3>1, <3>2
  <2>6. CASE list \notin {Excursion, Resuming}
    <3>1. command.word \notin {"halt", "step", "resume"}
      BY <2>1, <2>6
    <3>2. core' = core
      BY <3>1 DEF After
    <3>3. debt2 <=> debt
      BY <2>1, <2>3, <2>6, <3>1
    <3> QED BY <1>3, <2>2, <3>2, <3>3
  <2> QED BY <2>4, <2>5, <2>6
<1> QED BY <1>2, <1>3

\* What the thread that waits knows before its command is executed: nothing
\* else is on its way, on any connection.
Ready(t, s) ==
  /\ SessionOf(t) = s /\ call[t].waiting
  /\ Len(sent[s]) = 1 /\ replies[s] = << >>
  /\ \A r \in Sessions \ {s} : sent[r] = << >> /\ conn[r] # "open" /\ ~AwaitedIn(r)

\* When the core is in nobody's doubt after the step, the thread is ready.
LEMMA ReadyBefore ==
  ASSUME SessionTypes, Locked, OneConnection, LastSent, NEW s \in Sessions, sent[s] # << >>,
         (~disturbed /\ NothingStale) \/ InStep(s)
  PROVE  \E t \in Threads : Ready(t, s)
<1>1. ASSUME NEW t \in Threads, SessionOf(t) = s, call[t].waiting
      PROVE  \A r \in Sessions \ {s} : conn[r] # "open" /\ ~AwaitedIn(r)
  <2>1. conn[s] = "open" /\ s = session
    BY <1>1 DEF LastSent, OneConnection
  <2>2. \A r \in Sessions \ {s} : conn[r] # "open"
    BY <2>1 DEF OneConnection
  <2> QED BY <2>2 DEF AwaitedIn, LastSent
<1>2. CASE InStep(s)
  <2>1. PICK t \in Threads : SessionOf(t) = s /\ call[t].waiting
    BY <1>2 DEF InStep
  <2>2. Ready(t, s)
    BY <1>1, <1>2, <2>1 DEF InStep, Ready
  <2> QED BY <2>2
<1>3. CASE ~disturbed /\ NothingStale
  <2>1. PICK t \in Threads : SessionOf(t) = s /\ call[t].waiting
    BY <1>3 DEF NothingStale, AwaitedIn
  <2>2. \A r \in Sessions \ {s} : sent[r] = << >> /\ conn[r] # "open" /\ ~AwaitedIn(r)
    BY <1>1, <1>3, <2>1 DEF NothingStale
  <2>3. Len(sent[s]) + Len(replies[s]) = 1
    BY <1>3, <2>1 DEF NothingStale
  <2>4. Len(sent[s]) \in Nat /\ Len(replies[s]) \in Nat /\ Len(sent[s]) # 0
    BY LenZero DEF SessionTypes
  <2>5. \A a, b \in Nat : a + b = 1 /\ a # 0 => a = 1 /\ b = 0
    OBVIOUS
  <2>6. Len(sent[s]) = 1 /\ Len(replies[s]) = 0
    BY <2>3, <2>4, <2>5, Zenon
  <2>7. replies[s] = << >>
    BY <2>6, LenZero DEF SessionTypes
  <2> QED BY <2>1, <2>2, <2>6, <2>7 DEF Ready
<1> QED BY <1>2, <1>3

\* OpenOCD executes a command.
LEMMA OpenOCDStep ==
  ASSUME SessionInv, NEW s \in Sessions, OpenOCD(s)
  PROVE  SessionInv'
<1>1. /\ SessionTypes /\ Locked /\ ServersOnlyUse /\ OneConnection /\ LastSent /\ AnswersDue
      /\ ~disturbed => NothingStale /\ Driven
  BY DEF SessionInv
<1>2. \E command, answer :
        /\ Executes(s, command, answer)
        /\ core' = After(command.word) /\ wanted' = IF command.asked THEN core' ELSE wanted
        /\ disturbed' = (disturbed /\ ~(command.asked /\ InStep(s)))
        /\ UNCHANGED <<window, servers, lock, conn, call, counters>>
  <2> DEFINE command == Head(sent[s])
             answer == IF command.word # "targets" THEN "other"
                       ELSE IF core THEN "running" ELSE "halted"
  <2>1. Executes(s, command, answer)
    <3>1. answer \in ReplyType
      BY DEF ReplyType
    <3>2. command.word = "targets" => answer = IF core THEN "running" ELSE "halted"
      OBVIOUS
    <3> QED BY <3>1, <3>2 DEF OpenOCD, Executes
  <2> QED BY <2>1 DEF OpenOCD
<1> PICK command, answer :
      /\ Executes(s, command, answer)
      /\ core' = After(command.word) /\ wanted' = IF command.asked THEN core' ELSE wanted
      /\ disturbed' = (disturbed /\ ~(command.asked /\ InStep(s)))
      /\ UNCHANGED <<window, servers, lock, conn, call, counters>>
  BY <1>2
<1>3. UNCHANGED <<gui, session, server, running, sock, told, lock, conn, call, calls, troubles>>
  BY DEF window, servers, counters
<1>4. /\ command \in CommandType
      /\ sent' \in [Sessions -> Seq(CommandType)] /\ replies' \in [Sessions -> Seq(ReplyType)]
      /\ \A r \in Sessions \ {s} : sent'[r] = sent[r] /\ replies'[r] = replies[r]
      /\ Len(sent'[s]) = Len(sent[s]) - 1 /\ Len(sent[s]) \in Nat \ {0}
      /\ sent'[s] # << >> => sent'[s][Len(sent'[s])] = sent[s][Len(sent[s])]
      /\ Len(sent[s]) = 1 => sent'[s] = << >> /\ sent[s][Len(sent[s])] = command
      /\ Len(replies[s]) \in Nat
      /\ conn[s] = "closed" => replies'[s] = replies[s]
      /\ conn[s] # "closed" => /\ replies'[s] = Append(replies[s], answer)
                               /\ Len(replies'[s]) = Len(replies[s]) + 1
  BY <1>1, ExecutesFacts
<1>5. sent[s] # << >>
  BY DEF Executes
<1>6. SessionTypes'
  <2>1. core' \in BOOLEAN
    BY <1>1 DEF After, SessionTypes
  <2>2. wanted' \in BOOLEAN /\ disturbed' \in BOOLEAN
    BY <1>1, <2>1 DEF SessionTypes
  <2> QED BY <1>1, <1>3, <1>4, <2>1, <2>2 DEF SessionTypes
<1>7. \A u \in Threads : (SessionOf(u)' = SessionOf(u)) /\ (InCall(u)' <=> InCall(u))
  BY <1>3 DEF SessionOf, InCall
<1>8. \A r \in Sessions : AwaitedIn(r)' <=> AwaitedIn(r)
  BY <1>3, SameAwaited
<1>9. Locked' /\ ServersOnlyUse'
  BY <1>1, <1>3, <1>7 DEF Locked, ServersOnlyUse
<1>10. OneConnection'
  <2>1. ~(s > session)
    BY <1>1, <1>5 DEF OneConnection
  <2> QED BY <1>1, <1>3, <1>4, <1>7, <2>1, ThreadNumbers DEF OneConnection
<1>11. LastSent'
  <2>1. ASSUME NEW u \in Threads, call'[u].waiting
        PROVE  /\ conn'[SessionOf(u)'] = "open"
               /\ sent'[SessionOf(u)'] # << >> =>
                    sent'[SessionOf(u)'][Len(sent'[SessionOf(u)'])] = Head(call'[u].todo)
    <3>1. /\ call[u].waiting /\ SessionOf(u) \in Sessions /\ conn[SessionOf(u)] = "open"
          /\ sent[SessionOf(u)] # << >> =>
               sent[SessionOf(u)][Len(sent[SessionOf(u)])] = Head(call[u].todo)
      BY <1>1, <1>3, <2>1, WaitersDrive DEF LastSent, Locked
    <3>2. CASE SessionOf(u) = s
      BY <1>3, <1>4, <1>5, <1>7, <3>1, <3>2
    <3>3. CASE SessionOf(u) # s
      BY <1>3, <1>4, <1>7, <3>1, <3>3
    <3> QED BY <3>2, <3>3
  <2> QED BY <2>1 DEF LastSent
<1>12. AnswersDue'
  <2>1. /\ AwaitedIn(s) => Len(sent[s]) + Len(replies[s]) <= 1 + troubles
        /\ ~AwaitedIn(s) => Len(sent[s]) + Len(replies[s]) <= troubles
    BY <1>1 DEF AnswersDue
  <2>2. \A a, b, n \in Nat : a # 0 /\ a + b <= n => (a - 1) + (b + 1) <= n /\ (a - 1) + b <= n
    OBVIOUS
  <2>3. /\ Len(sent[s]) \in Nat /\ Len(sent[s]) # 0 /\ Len(replies[s]) \in Nat
        /\ troubles \in Nat /\ 1 + troubles \in Nat
    BY <1>1, <1>4 DEF SessionTypes
  <2>4. /\ AwaitedIn(s) => /\ (Len(sent[s]) - 1) + (Len(replies[s]) + 1) <= 1 + troubles
                           /\ (Len(sent[s]) - 1) + Len(replies[s]) <= 1 + troubles
        /\ ~AwaitedIn(s) => /\ (Len(sent[s]) - 1) + (Len(replies[s]) + 1) <= troubles
                            /\ (Len(sent[s]) - 1) + Len(replies[s]) <= troubles
    BY <2>1, <2>2, <2>3, Zenon
  <2>5. Len(replies'[s]) = Len(replies[s]) + 1 \/ Len(replies'[s]) = Len(replies[s])
    BY <1>4
  <2>6. Len(sent'[s]) = Len(sent[s]) - 1
    BY <1>4
  <2>7. /\ AwaitedIn(s)' => Len(sent'[s]) + Len(replies'[s]) <= 1 + troubles
        /\ ~AwaitedIn(s)' => Len(sent'[s]) + Len(replies'[s]) <= troubles
    BY <1>8, <2>4, <2>5, <2>6, Zenon
  <2>8. AnswersDue /\ troubles' = troubles
    BY <1>1, <1>3
  <2> QED BY <1>4, <1>8, <2>7, <2>8, AnswersDueOnOne, Zenon
<1>13. ASSUME ~disturbed'  PROVE  NothingStale' /\ Driven'
  <2>1. \/ ~disturbed /\ NothingStale /\ Driven
        \/ command.asked /\ InStep(s)
    BY <1>1, <1>13
  <2>2. PICK t \in Threads : Ready(t, s)
    BY <1>1, <1>5, <2>1, ReadyBefore
  <2>3. /\ SessionOf(t) = s /\ call[t].waiting /\ Len(sent[s]) = 1 /\ replies[s] = << >>
        /\ \A r \in Sessions \ {s} : sent[r] = << >> /\ conn[r] # "open" /\ ~AwaitedIn(r)
    BY <2>2 DEF Ready
  <2>4. /\ Drives(t) /\ call[t].todo # << >> /\ conn[s] = "open"
        /\ command = Head(call[t].todo)
    BY <1>1, <1>4, <1>5, <2>3, WaitersDrive DEF LastSent
  <2>5. /\ sent'[s] = << >> /\ replies'[s] = Append(<< >>, answer)
        /\ Len(sent'[s]) + Len(replies'[s]) = 1
    <3>1. sent'[s] = << >> /\ replies'[s] = Append(<< >>, answer)
      BY <1>4, <2>3, <2>4
    <3>2. Len(sent'[s]) = 0 /\ Len(replies'[s]) = 0 + 1
      <4>1. Len(replies[s]) = 0
        BY <2>3
      <4>2. Len(replies'[s]) = Len(replies[s]) + 1
        BY <1>4, <2>4
      <4> QED BY <3>1, <4>1, <4>2
    <3> QED BY <3>1, <3>2
  <2>6. NothingStale'
    <3>1. AwaitedIn(s)
      BY <2>3 DEF AwaitedIn
    <3>2. \A r \in Sessions : ~AwaitedIn(r)' =>
            sent'[r] = << >> /\ (conn'[r] = "open" => replies'[r] = << >>)
      <4> SUFFICES ASSUME NEW r \in Sessions, ~AwaitedIn(r)'
                   PROVE  sent'[r] = << >> /\ (conn'[r] = "open" => replies'[r] = << >>)
        OBVIOUS
      <4>1. r # s
        BY <1>8, <3>1
      <4>2. sent[r] = << >> /\ conn[r] # "open"
        BY <2>3, <4>1
      <4> QED BY <1>3, <1>4, <4>1, <4>2
    <3>3. ASSUME NEW u \in Threads, call'[u].waiting
          PROVE  Len(sent'[SessionOf(u)']) + Len(replies'[SessionOf(u)']) = 1
      <4>1. SessionOf(u) \in Sessions /\ call[u].waiting
        BY <1>1, <1>3, <3>3, WaitersDrive DEF Locked
      <4>2. SessionOf(u) = s
        BY <2>3, <4>1 DEF AwaitedIn
      <4> QED BY <1>7, <2>5, <4>2
    <3> QED BY <3>2, <3>3 DEF NothingStale
  <2>7. \A u \in Threads \ {t} : ~Drives(u) /\ ~Drives(u)'
    <3>1. \A u \in Threads \ {t} : ~Drives(u)
      BY <1>1, <2>4, OneDriver
    <3> QED BY <1>3, <1>7, <3>1 DEF Drives
  <2>8. Remaining(t) = call[t].todo /\ Remaining(t)' = Tail(call[t].todo)
    <3>1. sent[SessionOf(t)] # << >> /\ sent'[SessionOf(t)'] = << >> /\ call'[t] = call[t]
      BY <1>3, <1>5, <1>7, <2>3, <2>5
    <3> QED BY <2>3, <3>1 DEF Remaining
  <2>9. /\ call[t].kind \in Kinds \cup {"none"} /\ call[t].todo \in Lists(call[t].kind)
        /\ core \in BOOLEAN /\ wanted \in BOOLEAN
    BY <1>1, CallFields DEF SessionTypes, Locked
  <2>10. FoundRunning(t)' => command.word = "targets" /\ core
    <3>1. Tail(call[t].todo) # Excursion
      <4>1. \A kind \in Kinds \cup {"none"} : \A list \in Lists(kind) :
              list # << >> => Tail(list) # Excursion
        BY ListFacts
      <4> QED BY <2>4, <2>9, <4>1, Zenon
    <3>2. FoundRunning(t)' => /\ Head(call[t].todo).word = "targets"
                              /\ "halted" \notin Range(replies'[SessionOf(t)'])
      BY <1>3, <2>8, <3>1 DEF FoundRunning
    <3>3. answer \in Range(replies'[s])
      <4>1. answer \in ReplyType
        BY DEF Executes
      <4>2. 1 \in DOMAIN Append(<< >>, answer) /\ Append(<< >>, answer)[1] = answer
        BY <4>1
      <4> QED BY <2>5, <4>2 DEF Range
    <3>4. command.word = "targets" => answer = IF core THEN "running" ELSE "halted"
      BY DEF Executes
    <3> QED BY <1>7, <2>3, <2>4, <3>2, <3>3, <3>4
  <2>11. command.asked \/ (IF Remaining(t) \in Debts THEN wanted /\ ~core
                           ELSE core = wanted /\ (call[t].todo = Excursion => core))
    <3>1. CASE command.asked
      BY <3>1
    <3>2. CASE Driven
      <4>1. Remaining(t) \in Debts => wanted /\ ~core
        BY <2>4, <3>2 DEF Driven
      <4>2. FoundRunning(t) => core
        BY <2>4, <3>2 DEF Driven
      <4>3. Remaining(t) \notin Debts => core = wanted
        BY <2>7, <3>2 DEF Driven
      <4>4. call[t].todo = Excursion => FoundRunning(t)
        BY <2>8 DEF FoundRunning
      <4> QED BY <4>1, <4>2, <4>3, <4>4
    <3> QED BY <2>1, <3>1, <3>2
  <2>12. /\ Tail(call[t].todo) \in Debts => wanted' /\ ~core'
         /\ Tail(call[t].todo) \notin Debts => core' = wanted'
         /\ command.word = "targets" /\ core => core'
    <3> DEFINE debt == call[t].todo \in Debts  debt2 == Tail(call[t].todo) \in Debts
               found == command.word = "targets" /\ core
    <3>1. debt \in BOOLEAN
      OBVIOUS
    <3>2. command.asked \/ (IF debt THEN wanted /\ ~core
                            ELSE core = wanted /\ (call[t].todo = Excursion => core))
      BY <2>8, <2>11
    <3>3. core' = After(command.word) /\ wanted' = IF command.asked THEN core' ELSE wanted
      OBVIOUS
    <3> HIDE DEF debt, debt2, found
    <3>4. (debt2 => wanted' /\ ~core') /\ (~debt2 => core' = wanted') /\ (found => core')
      BY <2>4, <2>9, <3>1, <3>2, <3>3, ExecutedRight DEF debt, debt2, found
    <3> QED BY <3>4 DEF debt2, found
  <2>13. Driven'
    <3>1. Drives(t)'
      BY <1>3, <1>7, <2>4 DEF Drives
    <3> QED BY <2>7, <2>8, <2>10, <2>12, <3>1 DEF Driven
  <2> QED BY <2>6, <2>13
<1> QED BY <1>6, <1>9, <1>10, <1>11, <1>12, <1>13 DEF SessionInv

\* The core stops by itself.
LEMMA StopsStep ==
  ASSUME SessionInv, StopsByItself
  PROVE  SessionInv'
<1>1. /\ SessionTypes /\ Locked /\ ServersOnlyUse /\ OneConnection /\ LastSent /\ AnswersDue
      /\ ~disturbed => NothingStale /\ Driven
  BY DEF SessionInv
<1>2. /\ core /\ core' = FALSE /\ wanted' = FALSE /\ troubles' = troubles + 1
      /\ disturbed' = (disturbed \/ \E t \in Threads : call[t].kind = "mem")
      /\ UNCHANGED <<gui, session, server, running, sock, told, lock, conn, sent, replies, call, calls>>
  BY DEF StopsByItself, window, servers, link
<1>3. SessionTypes'
  <2>1. core' \in BOOLEAN /\ wanted' \in BOOLEAN /\ disturbed' \in BOOLEAN
    BY <1>2
  <2>2. troubles' \in Nat
    BY <1>1, <1>2 DEF SessionTypes
  <2>3. /\ SessionTypes
        /\ UNCHANGED <<gui, session, server, running, sock, told, lock, conn, sent, replies, call, calls>>
    BY <1>1, <1>2
  <2> QED BY <2>1, <2>2, <2>3 DEF SessionTypes
<1>4. \A u \in Threads : (SessionOf(u)' = SessionOf(u)) /\ (InCall(u)' <=> InCall(u))
  BY <1>2 DEF SessionOf, InCall
<1>5. \A r \in Sessions : AwaitedIn(r)' <=> AwaitedIn(r)
  BY <1>2, SameAwaited
<1>6. Locked' /\ ServersOnlyUse'
  BY <1>1, <1>2, <1>4 DEF Locked, ServersOnlyUse
<1>7. OneConnection'
  BY <1>1, <1>2, <1>4, ThreadNumbers DEF OneConnection
<1>8. LastSent'
  BY <1>1, <1>2, <1>4 DEF LastSent
<1>9. AnswersDue'
  <2>1. ASSUME NEW r \in Sessions
        PROVE  /\ AwaitedIn(r) => Len(sent[r]) + Len(replies[r]) <= 1 + (troubles + 1)
               /\ ~AwaitedIn(r) => Len(sent[r]) + Len(replies[r]) <= troubles + 1
    <3>1. Len(sent[r]) \in Nat /\ Len(replies[r]) \in Nat /\ troubles \in Nat
      BY <1>1 DEF SessionTypes
    <3>2. /\ AwaitedIn(r) => Len(sent[r]) + Len(replies[r]) <= 1 + troubles
          /\ ~AwaitedIn(r) => Len(sent[r]) + Len(replies[r]) <= troubles
      BY <1>1 DEF AnswersDue
    <3>3. \A a, b, n \in Nat : /\ a + b <= n => a + b <= n + 1
                               /\ a + b <= 1 + n => a + b <= 1 + (n + 1)
      OBVIOUS
    <3> QED BY <3>1, <3>2, <3>3, Zenon
  <2> QED BY <1>2, <1>5, <2>1 DEF AnswersDue
<1>10. ASSUME ~disturbed'  PROVE  NothingStale' /\ Driven'
  <2>1. NothingStale /\ Driven /\ \A t \in Threads : call[t].kind # "mem"
    BY <1>1, <1>2, <1>10
  <2>2. NothingStale'
    BY <1>2, <1>4, <1>5, <2>1 DEF NothingStale
  <2>3. ASSUME NEW t \in Threads, Drives(t)
        PROVE  Remaining(t)' \notin Debts /\ ~FoundRunning(t)'
    <3>1. call[t].kind \in Kinds \cup {"none"} /\ call[t].todo \in Lists(call[t].kind)
      BY <1>1, CallFields DEF Locked
    <3>2. \A kind \in Kinds \cup {"none"} : \A list \in Lists(kind) : kind # "mem" =>
            /\ list \notin Debts \cup {Excursion}
            /\ list # << >> => /\ Tail(list) \notin Debts \cup {Excursion}
                               /\ Head(list).word # "targets"
      <4>1. ASSUME NEW kind \in Kinds \cup {"none"}, NEW list \in Lists(kind), kind # "mem"
            PROVE  /\ list \notin Debts \cup {Excursion}
                   /\ list # << >> => /\ Tail(list) \notin Debts \cup {Excursion}
                                      /\ Head(list).word # "targets"
        <5>1. list \notin Debts \cup {Excursion}
          BY <4>1, ListFacts
        <5>2. ASSUME list # << >>
              PROVE  Tail(list) \notin Debts \cup {Excursion} /\ Head(list).word # "targets"
          <6>1. Tail(list) \in Lists(kind) /\ Head(list).word # "targets"
            BY <4>1, <5>2, ListFacts
          <6>2. Tail(list) \notin Debts \cup {Excursion}
            BY <4>1, <6>1, ListFacts
          <6> QED BY <6>1, <6>2
        <5> QED BY <5>1, <5>2
      <4> QED BY <4>1
    <3>3. call[t].waiting => call[t].todo # << >>
      BY <1>1 DEF Locked
    <3>4. /\ call[t].todo \notin Debts \cup {Excursion}
          /\ call[t].waiting => /\ Tail(call[t].todo) \notin Debts \cup {Excursion}
                                /\ Head(call[t].todo).word # "targets"
      BY <2>1, <3>1, <3>2, <3>3, Zenon
    <3> QED BY <1>2, <1>4, <3>4 DEF Remaining, FoundRunning
  <2>4. \A t \in Threads : Drives(t)' <=> Drives(t)
    BY <1>2, <1>4 DEF Drives
  <2>5. Driven'
    BY <1>2, <2>3, <2>4 DEF Driven
  <2> QED BY <2>2, <2>5
<1> QED BY <1>3, <1>6, <1>7, <1>8, <1>9, <1>10 DEF SessionInv

-----------------------------------------------------------------------------
(* The steps of the GUI and of the servers.                                *)

\* A new session: nobody drives the core, and nothing has happened on its
\* connection.
LEMMA OpenStep ==
  ASSUME SessionInv, Open
  PROVE  SessionInv'
<1>1. /\ SessionTypes /\ Locked /\ ServersOnlyUse /\ OneConnection /\ LastSent /\ AnswersDue
      /\ ~disturbed => NothingStale /\ Driven
  BY DEF SessionInv
<1>0. session + 1 \in Sessions /\ session + 1 > session
  BY <1>1, SessionAssumption DEF Open, SessionTypes, Sessions
<1> PICK n \in Sessions : n = session + 1 /\ n > session
  BY <1>0
<1>2. /\ gui = "closed" /\ session' = n /\ gui' = "connecting"
      /\ conn' = [conn EXCEPT ![n] = "open"] /\ lock' = [lock EXCEPT ![n] = GUI]
      /\ call' = [call EXCEPT ![GUI] = Call("connect")]
      /\ UNCHANGED <<servers, sent, replies, target, counters>>
  BY DEF Open
<1>3. UNCHANGED <<server, running, sock, told, sent, replies, core, wanted, disturbed, calls, troubles>>
  BY <1>2 DEF servers, target, counters
<1>4. "connect" \in Kinds
  BY DEF Kinds
<1>5. /\ call' \in [Threads -> CallType]
      /\ call'[GUI].kind = "connect" /\ call'[GUI].todo = Commands("connect") /\ ~call'[GUI].waiting
      /\ \A u \in Sessions : call'[u] = call[u]
  <2>1. Commands("connect") \in Seq(CommandType)
    BY <1>4, BeginsApart
  <2>2. Call("connect") \in CallType
    BY <1>4, <2>1 DEF Call, CallType
  <2>3. /\ call' \in [Threads -> CallType] /\ call'[GUI] = Call("connect")
        /\ \A u \in Sessions : call'[u] = call[u]
    BY <1>1, <1>2, <2>2, ThreadNumbers DEF SessionTypes
  <2> QED BY <2>3 DEF Call
<1>6. /\ conn' \in [Sessions -> {"none", "open", "closed"}] /\ conn'[n] = "open"
      /\ \A r \in Sessions \ {n} : conn'[r] = conn[r]
      /\ lock' \in [Sessions -> Threads \cup {NoThread}] /\ lock'[n] = GUI
      /\ \A r \in Sessions \ {n} : lock'[r] = lock[r]
  BY <1>1, <1>2, ThreadNumbers DEF SessionTypes
<1>7. SessionTypes'
  <2>1. session' \in 0..MaxSessions
    BY <1>2, SessionAssumption DEF Sessions
  <2> QED BY <1>1, <1>2, <1>3, <1>5, <1>6, <2>1 DEF SessionTypes
<1>8. /\ SessionOf(GUI)' = n /\ \A u \in Sessions : SessionOf(u)' = u /\ SessionOf(u) = u
      /\ InCall(GUI)' /\ \A u \in Sessions : InCall(u)' <=> InCall(u)
  BY <1>2, <1>4, <1>5, ThreadNumbers DEF SessionOf, InCall, Kinds
<1>9. ~InCall(n) /\ ~InCall(GUI) /\ sent[n] = << >> /\ replies[n] = << >>
  BY <1>1, <1>2 DEF OneConnection
<1>10. \A u \in Threads : ~call[u].waiting /\ ~Drives(u)
  <2>1. \A u \in Threads : ~Drives(u)
    BY <1>1, <1>2 DEF Drives, OneConnection, Locked
  <2> QED BY <1>1, <2>1, WaitersDrive
<1>11. \A u \in Threads : ~call'[u].waiting
  BY <1>5, <1>10, ThreadNumbers
<1>12. Locked'
  <2>1. /\ SessionOf(GUI)' \in Sessions /\ lock'[SessionOf(GUI)'] = GUI
        /\ call'[GUI].todo \in Lists(call'[GUI].kind)
    BY <1>5, <1>6, <1>8 DEF Lists
  <2>2. ASSUME NEW u \in Sessions
        PROVE  /\ InCall(u)' => SessionOf(u)' \in Sessions /\ lock'[SessionOf(u)'] = u
               /\ call'[u].todo \in Lists(call'[u].kind)
    BY <1>1, <1>5, <1>6, <1>8, <1>9, ThreadNumbers DEF Locked
  <2> QED BY <1>11, <2>1, <2>2, ThreadNumbers DEF Locked
<1>13. ServersOnlyUse'
  BY <1>1, <1>5 DEF ServersOnlyUse
<1>14. OneConnection'
  <2>1. \A r \in Sessions : r > n => r > session /\ r # n
    BY <1>1, ThreadNumbers DEF SessionTypes
  <2>2. \A r \in Sessions : conn'[r] = "open" => r = n
    BY <1>1, <1>2, <1>6 DEF OneConnection
  <2>3. ASSUME NEW r \in Sessions, r > n
        PROVE  /\ server'[r] = "none" /\ ~InCall(r)' /\ lock'[r] = NoThread
               /\ sent'[r] = << >> /\ replies'[r] = << >>
    BY <1>1, <1>3, <1>6, <1>8, <2>1, <2>3 DEF OneConnection
  <2> QED BY <1>2, <2>2, <2>3 DEF OneConnection
<1>15. LastSent'
  BY <1>11 DEF LastSent
<1>16. \A r \in Sessions : ~AwaitedIn(r) /\ ~AwaitedIn(r)'
  BY <1>10, <1>11 DEF AwaitedIn
<1>17. AnswersDue'
  BY <1>1, <1>3, <1>16 DEF AnswersDue
<1>18. ASSUME ~disturbed'  PROVE  NothingStale' /\ Driven'
  <2>1. NothingStale /\ Driven
    BY <1>1, <1>3, <1>18
  <2>2. NothingStale'
    <3>1. \A r \in Sessions : sent'[r] = << >>
      BY <1>3, <1>16, <2>1 DEF NothingStale
    <3>2. \A r \in Sessions : conn'[r] = "open" => replies'[r] = << >>
      BY <1>1, <1>2, <1>3, <1>6, <1>9 DEF OneConnection
    <3> QED BY <1>11, <3>1, <3>2 DEF NothingStale
  <2>3. Remaining(GUI)' = Commands("connect")
    BY <1>5 DEF Remaining
  <2>4. Remaining(GUI)' \notin Debts /\ ~FoundRunning(GUI)'
    BY <1>4, <1>5, <2>3, BeginsApart DEF FoundRunning
  <2>5. \A u \in Sessions : ~Drives(u)'
    BY <1>1, <1>2, <1>6, <1>8, <1>9 DEF Drives, OneConnection
  <2>6. core = wanted
    BY <1>10, <2>1 DEF Driven
  <2>7. Driven'
    BY <1>3, <2>4, <2>5, <2>6, ThreadNumbers DEF Driven
  <2> QED BY <2>2, <2>7
<1> QED BY <1>7, <1>12, <1>13, <1>14, <1>15, <1>17, <1>18 DEF SessionInv

\* The other steps of the GUI.
LEMMA GuiMoves ==
  ASSUME SessionInv, Poll \/ Found \/ Close \/ CloseLink
  PROVE  SessionInv'
<1>1. SessionTypes /\ Locked /\ OneConnection
  BY DEF SessionInv
<1>2. GUI \in Threads /\ SessionOf(GUI) = session
  BY ThreadNumbers DEF SessionOf
<1>3. CASE Poll
  <2>1. /\ Begin(GUI, "mem") /\ gui # "closed" /\ calls' = calls + 1
        /\ UNCHANGED <<window, servers, target, troubles>>
    BY <1>3 DEF Poll, Counted
  <2>2. session \in Sessions /\ session <= session
    BY <1>1, <2>1 DEF OneConnection, SessionTypes
  <2>3. "mem" \in Kinds
    BY DEF Kinds
  <2>4. call' \in [Threads -> CallType] /\ lock' \in [Sessions -> Threads \cup {NoThread}]
    BY <1>1, <1>2, <2>1, <2>2, <2>3, BeginFacts
  <2>5. calls' \in Nat
    BY <1>1, <2>1 DEF SessionTypes
  <2>6. UNCHANGED <<conn, sent, replies>>
    BY <2>1 DEF Begin
  <2>7. SessionTypes'
    BY <1>1, <2>1, <2>4, <2>5, <2>6 DEF SessionTypes, window, servers, target
  <2>8. server' = server
    BY <2>1 DEF servers
  <2> QED BY <1>2, <2>1, <2>2, <2>3, <2>7, <2>8, BeginStep
<1>4. CASE CloseLink
  <2>1. /\ Begin(GUI, "close") /\ gui # "closed"
        /\ UNCHANGED <<window, servers, target, counters>>
    BY <1>4 DEF CloseLink
  <2>2. session \in Sessions /\ session <= session
    BY <1>1, <2>1 DEF OneConnection, SessionTypes
  <2>3. "close" \in Kinds
    BY DEF Kinds
  <2>4. call' \in [Threads -> CallType] /\ lock' \in [Sessions -> Threads \cup {NoThread}]
    BY <1>1, <1>2, <2>1, <2>2, <2>3, BeginFacts
  <2>5. UNCHANGED <<conn, sent, replies>>
    BY <2>1 DEF Begin
  <2>6. SessionTypes'
    BY <1>1, <2>1, <2>4, <2>5 DEF SessionTypes, window, servers, target, counters
  <2>7. server' = server /\ troubles' = troubles
    BY <2>1 DEF servers, counters
  <2> QED BY <1>2, <2>1, <2>2, <2>3, <2>6, <2>7, BeginStep
<1>5. CASE Found
  <2>1. /\ gui = "finding" /\ gui' \in {"open", "failing"}
        /\ UNCHANGED <<session, servers, link, call, target, counters>>
    BY <1>5 DEF Found
  <2>2. SessionTypes'
    BY <1>1, <2>1 DEF SessionTypes, servers, link, target, counters
  <2> QED BY <2>1, <2>2, MoveStep DEF servers
<1>6. CASE Close
  <2>1. /\ gui = "open" /\ gui' = "closing" /\ session' = session /\ StopServer(session)
        /\ UNCHANGED <<link, call, target, counters>>
    BY <1>6 DEF Close
  <2>2. session \in Sessions
    BY <1>1, <2>1 DEF OneConnection
  <2>3. /\ running' \in [Sessions -> BOOLEAN] /\ sock' \in [Sessions -> {"none", "open", "closed"}]
        /\ told' \subseteq Sessions /\ server' = server
    BY <1>1, <2>1, <2>2 DEF StopServer, SessionTypes
  <2>4. SessionTypes'
    BY <1>1, <2>1, <2>3 DEF SessionTypes, link, target, counters
  <2> QED BY <2>1, <2>3, <2>4, MoveStep
<1> QED BY <1>3, <1>4, <1>5, <1>6

\* The steps of a server outside its calls.
LEMMA ServerMoves ==
  ASSUME SessionInv, NEW s \in Sessions,
         \/ Create(s) \/ Bind(s) \/ BindFails(s) \/ Ends(s) \/ ReceivesNothing(s)
         \/ Accept(s) \/ PacketBegins(s) \/ ClientLeaves(s)
  PROVE  SessionInv'
<1>1. SessionTypes /\ OneConnection
  BY DEF SessionInv
<1>2. /\ server[s] # "none" /\ UNCHANGED <<window, told, link, call, target, counters>>
      /\ \E to \in {"binding", "accepting", "serving", "packet", "spinning", "ended"} : Goes(s, to)
  BY DEF Create, Bind, BindFails, Ends, ReceivesNothing, Accept, PacketBegins, ClientLeaves,
         ServerOnly, AfterPacket
<1>3. running' \in [Sessions -> BOOLEAN]
  BY <1>1 DEF Create, Bind, BindFails, Ends, ReceivesNothing, Accept, PacketBegins, ClientLeaves,
              SessionTypes
<1>4. sock' \in [Sessions -> {"none", "open", "closed"}]
  BY <1>1 DEF Create, Bind, BindFails, Ends, ReceivesNothing, Accept, PacketBegins, ClientLeaves,
              ServerOnly, SessionTypes
<1>5. /\ server' \in [Sessions -> {"none", "created", "binding", "accepting", "serving", "packet",
                                   "handling", "spinning", "ended"}]
      /\ \A r \in Sessions \ {s} : server'[r] = server[r]
  BY <1>1, <1>2 DEF Goes, SessionTypes
<1>6. SessionTypes'
  BY <1>1, <1>2, <1>3, <1>4, <1>5 DEF SessionTypes, window, link, target, counters
<1>7. \A r \in Sessions : r > session => server'[r] = server[r]
  BY <1>1, <1>2, <1>5 DEF OneConnection
<1> QED BY <1>2, <1>6, <1>7, MoveStep DEF window

\* A request of the GDB client.
LEMMA RequestStep ==
  ASSUME SessionInv, NEW s \in Sessions, NEW kind \in Requests, Request(s, kind)
  PROVE  SessionInv'
<1>1. SessionTypes /\ Locked /\ OneConnection
  BY DEF SessionInv
<1>2. s \in Threads /\ SessionOf(s) = s /\ s # GUI /\ kind \in Kinds
  BY ThreadNumbers DEF SessionOf, Kinds
<1>3. /\ server[s] # "none" /\ Goes(s, "handling") /\ Begin(s, kind) /\ calls' = calls + 1
      /\ UNCHANGED <<window, running, sock, told, target, troubles>>
  BY DEF Request, Counted
<1>4. call' \in [Threads -> CallType] /\ lock' \in [Sessions -> Threads \cup {NoThread}]
  BY <1>1, <1>2, <1>3, BeginFacts
<1>5. /\ server' \in [Sessions -> {"none", "created", "binding", "accepting", "serving", "packet",
                                   "handling", "spinning", "ended"}]
      /\ \A r \in Sessions \ {s} : server'[r] = server[r]
  BY <1>1, <1>3 DEF Goes, SessionTypes
<1>6. calls' \in Nat
  BY <1>1, <1>3 DEF SessionTypes
<1>7. UNCHANGED <<conn, sent, replies>>
  BY <1>3 DEF Begin
<1>8. SessionTypes'
  BY <1>1, <1>3, <1>4, <1>5, <1>6, <1>7 DEF SessionTypes, window, target
<1>9. ~(s > session)
  BY <1>1, <1>3 DEF OneConnection
<1>10. s <= session
  BY <1>1, <1>9, ThreadNumbers DEF SessionTypes
<1>11. \A r \in Sessions : r > session => server'[r] = server[r]
  BY <1>5, <1>9
<1> QED BY <1>2, <1>3, <1>8, <1>10, <1>11, BeginStep

-----------------------------------------------------------------------------
(* The theorems.                                                           *)

\* The invariant holds initially.
LEMMA SessionInitInv ==
  ASSUME Init
  PROVE  SessionInv
<1>1. SessionTypes
  <2>1. session \in 0..MaxSessions
    BY SessionAssumption DEF Init
  <2>2. call \in [Threads -> CallType]
    <3>1. NoCall \in CallType
      BY DEF NoCall, CallType
    <3> QED BY <3>1 DEF Init
  <2>3. sent \in [Sessions -> Seq(CommandType)]
    BY DEF Init
  <2>4. replies \in [Sessions -> Seq(ReplyType)]
    BY DEF Init
  <2>5. lock \in [Sessions -> Threads \cup {NoThread}]
    BY DEF Init
  <2> QED BY <2>1, <2>2, <2>3, <2>4, <2>5 DEF Init, SessionTypes
<1>2. \A t \in Threads : ~InCall(t) /\ call[t].todo = << >> /\ ~call[t].waiting
  BY DEF Init, InCall, NoCall
<1>3. Locked
  BY <1>2 DEF Locked, Lists, InCall
<1>4. ServersOnlyUse
  BY <1>2, ThreadNumbers DEF ServersOnlyUse, InCall
<1>5. OneConnection
  BY <1>2, ThreadNumbers DEF OneConnection, Init
<1>6. LastSent
  BY <1>2 DEF LastSent
<1>7. \A s \in Sessions : ~AwaitedIn(s) /\ sent[s] = << >> /\ replies[s] = << >>
  BY <1>2 DEF AwaitedIn, Init
<1>8. AnswersDue
  <2>1. ASSUME NEW s \in Sessions  PROVE  Len(sent[s]) + Len(replies[s]) <= troubles
    <3>1. Len(sent[s]) = 0 /\ Len(replies[s]) = 0
      BY <1>7
    <3>2. troubles = 0
      BY DEF Init
    <3> QED BY <3>1, <3>2
  <2> QED BY <1>7, <2>1 DEF AnswersDue
<1>9. NothingStale
  BY <1>2, <1>7 DEF NothingStale
<1>10. Driven
  <2>1. core = wanted
    BY DEF Init
  <2> QED BY <1>2, <2>1 DEF Driven, Drives
<1> QED BY <1>1, <1>3, <1>4, <1>5, <1>6, <1>8, <1>9, <1>10 DEF SessionInv

\* Every step keeps it.
LEMMA SessionNextInv ==
  ASSUME SessionInv, [Next]_vars
  PROVE  SessionInv'
<1>1. CASE UNCHANGED vars
  <2>1. UNCHANGED <<session, link, call, target, counters, gui, server>> /\ UNCHANGED <<servers, window>>
    BY <1>1 DEF vars, window, servers
  <2>2. SessionTypes'
    BY <2>1 DEF SessionInv, SessionTypes, link, target, counters, servers
  <2> QED BY <2>1, <2>2, MoveStep
<1>2. CASE Open
  BY <1>2, OpenStep
<1>3. CASE Poll \/ Found \/ Close \/ CloseLink
  BY <1>3, GuiMoves
<1>4. CASE CallStep(GUI)
  BY <1>4, CallStepKeeps, ThreadNumbers
<1>5. ASSUME NEW s \in Sessions, ServerStep(s) \/ Client(s) \/ OpenOCD(s)
      PROVE  SessionInv'
  <2>1. CASE CallStep(s)
    BY <2>1, CallStepKeeps, ThreadNumbers
  <2>2. CASE OpenOCD(s)
    BY <2>2, OpenOCDStep
  <2>3. CASE \E kind \in Requests : Request(s, kind)
    BY <2>3, RequestStep
  <2>4. CASE \/ Create(s) \/ Bind(s) \/ BindFails(s) \/ Ends(s) \/ ReceivesNothing(s)
             \/ Accept(s) \/ PacketBegins(s) \/ ClientLeaves(s)
    BY <2>4, ServerMoves
  <2> QED BY <1>5, <2>1, <2>2, <2>3, <2>4 DEF ServerStep, Client
<1>6. CASE StopsByItself
  BY <1>6, StopsStep
<1> QED BY <1>1, <1>2, <1>3, <1>4, <1>5, <1>6 DEF Next, GuiStep

\* So it always holds.
LEMMA SessionInvariance == Spec => []SessionInv
<1>1. Init => SessionInv
  BY SessionInitInv
<1>2. SessionInv /\ [Next]_vars => SessionInv'
  BY SessionNextInv
<1> QED BY <1>1, <1>2, PTL DEF Spec

\* The state has its types, and the answers of a connection are behind by no
\* more than the command in progress and those that were given up.
\* (Session.TypeOK, for every number of sessions, calls and troubles)
THEOREM TypesCorrect == Spec => []TypeOK
<1>1. SessionInv => TypeOK
  <2> SUFFICES ASSUME SessionInv  PROVE TypeOK
    OBVIOUS
  <2>1. SessionTypes
    BY DEF SessionInv
  <2>2. ASSUME NEW s \in Sessions
        PROVE  Range(sent[s]) \subseteq CommandType
    BY <2>1, RangeWithin DEF SessionTypes
  <2>3. ASSUME NEW t \in Threads
        PROVE  Range(call[t].todo) \subseteq CommandType
    BY <2>1, CallFields, RangeWithin
  <2>4. ASSUME NEW s \in Sessions
        PROVE  Len(sent[s]) + Len(replies[s]) <= Waiting(s) + troubles
    <3>1. /\ AwaitedIn(s) => Len(sent[s]) + Len(replies[s]) <= 1 + troubles
          /\ ~AwaitedIn(s) => Len(sent[s]) + Len(replies[s]) <= troubles
      BY DEF SessionInv, AnswersDue
    <3>2. CASE AwaitedIn(s)
      <4>1. Waiting(s) = 1
        BY <3>2 DEF AwaitedIn, Waiting
      <4> QED BY <3>1, <3>2, <4>1
    <3>3. CASE ~AwaitedIn(s)
      <4>1. Waiting(s) = 0
        BY <3>3 DEF AwaitedIn, Waiting
      <4>2. 0 + troubles = troubles
        BY <2>1 DEF SessionTypes
      <4> QED BY <3>1, <3>3, <4>1, <4>2
    <3> QED BY <3>2, <3>3
  <2> QED BY <2>1, <2>2, <2>3, <2>4 DEF TypeOK, SessionTypes
<1> QED BY <1>1, SessionInvariance, PTL

\* Between calls the core runs exactly if whoever debugs left it running, until
\* an answer was given up, the core stopped while it was polled, or a read that
\* had halted the core raised because its answer was an error.
\* (XLink.locked, OpenOCD.halt_required, read_mem_, _exec; Session.CoreAsLeft)
THEOREM CoreIsAsLeft == Spec => []CoreAsLeft
<1>1. SessionInv => CoreAsLeft
  <2> SUFFICES ASSUME SessionInv, Quiet, ~disturbed  PROVE core = wanted
    BY DEF CoreAsLeft
  <2>1. SessionTypes /\ Locked /\ Driven
    BY DEF SessionInv
  <2>2. \A t \in Threads : ~Drives(t)
    <3> SUFFICES ASSUME NEW t \in Threads, InCall(t)  PROVE FALSE
      BY DEF Drives
    <3>1. SessionOf(t) \in Sessions /\ lock[SessionOf(t)] = t
      BY <2>1 DEF Locked
    <3>2. lock[SessionOf(t)] = NoThread
      BY <3>1 DEF Quiet
    <3> QED BY <3>1, <3>2, ThreadNumbers
  <2> QED BY <2>1, <2>2 DEF Driven
<1> QED BY <1>1, SessionInvariance, PTL

-----------------------------------------------------------------------------
(* Either link.                                                            *)

\* Of the two links only the chosen one takes steps.
LEMMA EachLink == MCSpec => Spec /\ ProbeSpec
<1>1. MCInit => Init /\ ProbeInit
  BY DEF MCInit
<1>2. [MCNext]_<<chosen, vars, probeVars>> => [Next]_vars
  BY DEF MCNext
<1>3. [MCNext]_<<chosen, vars, probeVars>> => [ProbeNext]_probeVars
  BY DEF MCNext
<1> QED BY <1>1, <1>2, <1>3, PTL DEF MCSpec, Spec, ProbeSpec

\* With either link the state has its types.
\* (MCSession.MCTypeOK, for every value of the bounds)
THEOREM EitherLinkTypes == MCSpec => []MCTypeOK
<1>1. TypeOK /\ ProbeTypeOK => MCTypeOK
  BY DEF MCTypeOK
<1> QED BY <1>1, EachLink, TypesCorrect, ProbeTypesCorrect, PTL

\* With either link nothing is seen of the GUI's polling: with OpenOCD the core
\* is as it was left, but for the three exceptions of CoreAsLeft (an answer given
\* up, a stop while polled, an error reply that makes a read raise); with a probe
\* every method reads its own answers.
\* (Session.CoreAsLeft, ProbeLink.AnswersAsExpected)
THEOREM EitherLinkRight == MCSpec => [](CoreAsLeft /\ AnswersAsExpected)
BY EachLink, CoreIsAsLeft, ProbeAnswersExpected, PTL
=============================================================================
