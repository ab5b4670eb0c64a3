------------------------------ MODULE Session ------------------------------
(***************************************************************************)
(* A session of RTTView on OpenOCD: the GUI thread that opens the link,    *)
(* polls and closes it (RTTView.py), the thread of the GDB server it       *)
(* starts (gdbserver.py), the lock of the XLink both use, and the Tcl RPC  *)
(* connection under it (openocd.py).  OpenOCD executes the commands of a   *)
(* connection in order and answers each; the host gives up waiting after a *)
(* time-out, and the answer it gave up comes later.                        *)
(*                                                                         *)
(* A call is the list of commands it still sends.  A new session has a new *)
(* XLink, lock, connection and server; the server of an old one may still  *)
(* run.                                                                    *)
(***************************************************************************)
EXTENDS Naturals, Sequences, Functions

CONSTANTS
  MaxSessions,  \* bound: links opened
  MaxCalls,     \* bound: calls of the XLink, those that open and close apart
  MaxTroubles   \* bound: answers the host gives up and stops of the core by itself

ASSUME SessionAssumption ==
  /\ MaxSessions \in Nat \ {0}
  /\ MaxCalls \in Nat /\ MaxTroubles \in Nat

Sessions == 1..MaxSessions
GUI == 0                          \* the GUI thread; the server thread of session s is s
Threads == {GUI} \cup Sessions
NoThread == MaxSessions + 1

VARIABLES
  gui,       \* what the GUI is at: closed, connecting, finding, failing, open, closing
  session,   \* the session of the GUI, the latest
  server,    \* what the server thread of each session is at
  running,   \* running of each server
  sock,      \* its listening socket: none, open or closed
  lock,      \* the thread that holds the lock of each XLink, or NoThread
  conn,      \* the connection of each session: none, open or closed
  sent,      \* its commands that OpenOCD has not executed
  replies,   \* its answers that the host has not read
  call,      \* of each thread, its call of the XLink: kind, todo, waiting
  core,      \* does the target's core run?
  wanted,    \* history: as whoever debugs left it
  disturbed, \* history: the core need not be as it was left
  told,      \* history: the servers that were told to stop while they ran
  calls, troubles

window == <<gui, session>>
servers == <<server, running, sock, told>>
link == <<lock, conn, sent, replies>>
target == <<core, wanted, disturbed>>
counters == <<calls, troubles>>
vars == <<window, servers, link, call, target, counters>>

SessionOf(t) == IF t = GUI THEN session ELSE t

-----------------------------------------------------------------------------
(* Calls.  A command is its word and whether the user asked for it; the    *)
(* others come from halt_required.                                         *)

Asked(word) == [word |-> word, asked |-> TRUE]
Own(word) == [word |-> word, asked |-> FALSE]

Commands(kind) ==
  CASE kind = "connect" -> <<Own("reg")>>
    [] kind = "mem"     -> <<Own("targets")>>
    [] kind = "reg"     -> <<Own("reg")>>
    [] kind = "close"   -> <<Own("exit")>>
    [] OTHER            -> <<Asked(kind)>>

\* halt_required: what it does once it knows whether the core is halted.
Wrapped(halted) ==
  IF halted THEN <<Own("access")>> ELSE <<Own("halt"), Own("access"), Own("resume")>>

NoCall == [kind |-> "none", todo |-> << >>, waiting |-> FALSE]
Calling(t) == call[t] # NoCall
Call(kind) == [kind |-> kind, todo |-> Commands(kind), waiting |-> FALSE]

\* (A wrong variant of Free: the lock is not waited for.)
FreeAnyway(s) == TRUE

Free(s) == lock[s] = NoThread

\* XLink.locked: one call of a method of self.xlk.
Begin(t, kind) ==
  /\ ~Calling(t) /\ Free(SessionOf(t))
  /\ lock' = [lock EXCEPT ![SessionOf(t)] = t]
  /\ call' = [call EXCEPT ![t] = Call(kind)]
  /\ UNCHANGED <<conn, sent, replies>>

Counted == calls < MaxCalls /\ calls' = calls + 1

\* (A wrong variant of Answered: resume does not wait for its answer.)
AnsweredButResume(command) == command.word # "resume"

\* Does _exec read the answer of this command?
Answered(command) == TRUE

Send(t) ==
  LET s == SessionOf(t)  command == Head(call[t].todo) IN
  /\ Calling(t) /\ ~call[t].waiting /\ call[t].todo # << >>
  /\ conn[s] = "open"
  /\ sent' = [sent EXCEPT ![s] = Append(@, command)]
  /\ call' = [call EXCEPT ![t] =
                IF Answered(command) THEN [@ EXCEPT !.waiting = TRUE]
                                     ELSE [@ EXCEPT !.todo = Tail(@)]]
  /\ UNCHANGED <<window, servers, lock, conn, replies, target, counters>>

\* _read: everything that has arrived, be it the answer of this command or of
\* one that was given up.
Receive(t) ==
  LET s == SessionOf(t)  command == Head(call[t].todo) IN
  /\ call[t].waiting /\ replies[s] # << >>
  /\ replies' = [replies EXCEPT ![s] = << >>]
  /\ call' = [call EXCEPT ![t].waiting = FALSE,
                          ![t].todo = IF command.word = "targets"
                                      THEN Wrapped("halted" \in Range(replies[s]))
                                      ELSE Tail(@)]
  /\ UNCHANGED <<window, servers, lock, conn, sent, target, counters>>

\* Where a call leaves its thread, raised saying that it raised an exception.
\* The server answers an error (or, to an interrupt, leaves the client when
\* the connection is closed); RTTView gives up opening.
AfterPacket(s) == IF running[s] THEN "serving" ELSE "accepting"

Leave(t, raised) ==
  LET s == SessionOf(t)  kind == call[t].kind IN
  /\ call' = [call EXCEPT ![t] = NoCall]
  /\ lock' = [lock EXCEPT ![s] = NoThread]
  /\ conn' = [conn EXCEPT ![s] =
                IF kind = "close" \/ (kind = "connect" /\ raised) THEN "closed" ELSE @]
  /\ IF t = GUI
     THEN /\ gui' = CASE kind = "close"   -> "closed"
                      [] kind = "connect" -> IF raised THEN "closed" ELSE "finding"
                      [] OTHER            -> IF raised /\ gui = "finding" THEN "failing" ELSE gui
          /\ server' = [server EXCEPT ![s] =
                          IF kind = "connect" /\ ~raised THEN "created" ELSE @]
     ELSE /\ server' = [server EXCEPT ![s] =
                          IF kind = "halt" /\ conn[s] = "closed" THEN "accepting"
                                                               ELSE AfterPacket(s)]
          /\ UNCHANGED gui
  /\ UNCHANGED <<session, running, sock, told>>

Return(t) ==
  /\ Calling(t) /\ ~call[t].waiting /\ call[t].todo = << >>
  /\ Leave(t, FALSE)
  /\ UNCHANGED <<sent, replies, target, counters>>

\* The socket is closed: send raises.
NoConnection(t) ==
  /\ Calling(t) /\ conn[SessionOf(t)] = "closed"
  /\ Leave(t, TRUE)
  /\ UNCHANGED <<sent, replies, target, counters>>

\* recv raises after a second; the answer comes later.
TimeOut(t) ==
  /\ call[t].waiting /\ replies[SessionOf(t)] = << >>
  /\ troubles < MaxTroubles /\ troubles' = troubles + 1
  /\ Leave(t, TRUE)
  /\ disturbed' = TRUE
  /\ UNCHANGED <<sent, replies, core, wanted, calls>>

\* read_mem_ and read_reg: int raises for an answer that is no number, as when
\* OpenOCD answers with an error.  halt_required has no finally: the core that
\* it halted for the access is not resumed.
NoNumber(t) ==
  LET s == SessionOf(t)  command == Head(call[t].todo) IN
  /\ call[t].waiting /\ replies[s] # << >>
  /\ command.word \in {"access", "reg"} /\ call[t].kind # "connect"
  /\ replies' = [replies EXCEPT ![s] = << >>]
  /\ Leave(t, TRUE)
  /\ disturbed' = (disturbed \/ Own("resume") \in Range(call[t].todo))
  /\ UNCHANGED <<sent, core, wanted, counters>>

CallStep(t) ==
  Send(t) \/ Receive(t) \/ Return(t) \/ NoConnection(t) \/ TimeOut(t) \/ NoNumber(t)

-----------------------------------------------------------------------------
(* OpenOCD and the core.                                                   *)

\* step and halt leave the core halted; resume runs it.
After(word) ==
  CASE word \in {"halt", "step"} -> FALSE [] word = "resume" -> TRUE [] OTHER -> core

\* Nothing is on its way but the command that s is executing, and it is this
\* command's answer that the host waits for.
InStep(s) ==
  /\ Len(sent[s]) = 1 /\ replies[s] = << >>
  /\ \E t \in Threads : SessionOf(t) = s /\ call[t].waiting
  /\ \A other \in Sessions \ {s} : sent[other] = << >>

\* A command the user asked for settles what the core should do.
OpenOCD(s) ==
  /\ sent[s] # << >>
  /\ LET command == Head(sent[s]) IN
       /\ core' = After(command.word)
       /\ wanted' = IF command.asked THEN core' ELSE wanted
       /\ disturbed' = (disturbed /\ ~(command.asked /\ InStep(s)))
       /\ replies' = [replies EXCEPT ![s] =
            IF conn[s] = "closed" THEN @
            ELSE Append(@, IF command.word # "targets" THEN "other"
                           ELSE IF core THEN "running" ELSE "halted")]
  /\ sent' = [sent EXCEPT ![s] = Tail(@)]
  /\ UNCHANGED <<window, servers, lock, conn, call, counters>>

\* The program stops: at a breakpoint of its own, say.  When halt_required has
\* just found it running, it is resumed.
StopsByItself ==
  /\ core /\ troubles < MaxTroubles /\ troubles' = troubles + 1
  /\ core' = FALSE /\ wanted' = FALSE
  /\ disturbed' = (disturbed \/ \E t \in Threads : call[t].kind = "mem")
  /\ UNCHANGED <<window, servers, link, call, calls>>

-----------------------------------------------------------------------------
(* The GUI.                                                                *)

\* on_btnOpen_clicked: OpenOCD.__init__ connects and reads the registers.
Open ==
  /\ gui = "closed" /\ session < MaxSessions
  /\ session' = session + 1 /\ gui' = "connecting"
  /\ conn' = [conn EXCEPT ![session'] = "open"]
  /\ lock' = [lock EXCEPT ![session'] = GUI]
  /\ call' = [call EXCEPT ![GUI] = Call("connect")]
  /\ UNCHANGED <<servers, sent, replies, target, counters>>

\* Looking for _SEGGER_RTT, then polling.
Poll ==
  /\ gui \in {"finding", "open"}
  /\ Begin(GUI, "mem") /\ Counted
  /\ UNCHANGED <<window, servers, target, troubles>>

\* The search is over.
Found ==
  /\ gui = "finding" /\ ~Calling(GUI)
  /\ gui' \in {"open", "failing"}
  /\ UNCHANGED <<session, servers, link, call, target, counters>>

\* (A wrong variant of StopServer: it closes the socket and nothing else.)
StopServerSocket(s) ==
  /\ sock' = [sock EXCEPT ![s] = IF @ = "open" THEN "closed" ELSE @]
  /\ told' = IF running[s] THEN told \cup {s} ELSE told
  /\ UNCHANGED <<running, server>>

\* GDBServer.stop
StopServer(s) ==
  /\ running' = [running EXCEPT ![s] = FALSE]
  /\ sock' = [sock EXCEPT ![s] = IF @ = "open" THEN "closed" ELSE @]
  /\ told' = IF running[s] THEN told \cup {s} ELSE told
  /\ UNCHANGED server

\* on_btnOpen_clicked: the link is open, and is closed.
Close ==
  /\ gui = "open" /\ ~Calling(GUI)
  /\ gui' = "closing" /\ UNCHANGED session
  /\ StopServer(session)
  /\ UNCHANGED <<link, call, target, counters>>

\* self.xlk.close(), after an opening that failed as well.  The server such an
\* opening started is not stopped.
CloseLink ==
  /\ gui \in {"failing", "closing"}
  /\ Begin(GUI, "close")
  /\ UNCHANGED <<window, servers, target, counters>>

GuiStep == CloseLink \/ CallStep(GUI)

-----------------------------------------------------------------------------
(* The thread of a GDB server.                                             *)

Goes(s, to) == server' = [server EXCEPT ![s] = to]
ServerOnly == UNCHANGED <<window, sock, told, link, call, target, counters>>

\* run: the socket is created; the port may be another program's, or that of a
\* server that still listens.
Create(s) ==
  /\ server[s] = "created" /\ Goes(s, "binding")
  /\ sock' = [sock EXCEPT ![s] = "open"]
  /\ UNCHANGED <<window, running, told, link, call, target, counters>>

Bind(s) ==
  /\ server[s] = "binding" /\ sock[s] = "open"
  /\ Goes(s, "accepting") /\ running' = [running EXCEPT ![s] = TRUE]
  /\ ServerOnly

BindFails(s) ==
  /\ server[s] = "binding" /\ Goes(s, "ended")
  /\ UNCHANGED running /\ ServerOnly

Accept(s) ==
  /\ server[s] = "accepting" /\ running[s] /\ sock[s] = "open"
  /\ Goes(s, "serving") /\ UNCHANGED running /\ ServerOnly

\* The loop ends, or accept raises.  (Its time-out of a second comes back here.)
Ends(s) ==
  /\ server[s] = "accepting" /\ ~(running[s] /\ sock[s] = "open")
  /\ Goes(s, "ended") /\ UNCHANGED running /\ ServerOnly

\* recv times out after five seconds, in a packet too.
ReceivesNothing(s) ==
  /\ server[s] \in {"serving", "packet"} /\ Goes(s, AfterPacket(s))
  /\ UNCHANGED running /\ ServerOnly

PacketBegins(s) ==
  /\ server[s] = "serving" /\ Goes(s, "packet")
  /\ UNCHANGED running /\ ServerOnly

\* The client closes its connection: recv returns nothing, which ends the
\* outer loop.  The loop that reads a packet takes it for a byte.
ClientLeaves(s) ==
  /\ server[s] \in {"serving", "packet"}
  /\ Goes(s, IF server[s] = "serving" THEN "accepting" ELSE "spinning")
  /\ UNCHANGED running /\ ServerOnly

\* A packet is complete, or the byte of an interrupt arrives.
Request(s, kind) ==
  /\ server[s] = IF kind = "halt" THEN "serving" ELSE "packet"
  /\ Goes(s, "handling")
  /\ Begin(s, kind) /\ Counted
  /\ UNCHANGED <<window, running, sock, told, target, troubles>>

Requests == {"halt", "step", "resume", "mem", "reg"}

ServerStep(s) ==
  Create(s) \/ Bind(s) \/ BindFails(s) \/ Ends(s) \/ ReceivesNothing(s) \/ CallStep(s)

Client(s) ==
  Accept(s) \/ PacketBegins(s) \/ ClientLeaves(s) \/ \E kind \in Requests : Request(s, kind)

-----------------------------------------------------------------------------
Init ==
  /\ gui = "closed" /\ session = 0
  /\ server = [s \in Sessions |-> "none"] /\ running = [s \in Sessions |-> FALSE]
  /\ sock = [s \in Sessions |-> "none"] /\ told = {}
  /\ lock = [s \in Sessions |-> NoThread] /\ conn = [s \in Sessions |-> "none"]
  /\ sent = [s \in Sessions |-> << >>] /\ replies = [s \in Sessions |-> << >>]
  /\ call = [t \in Threads |-> NoCall]
  /\ core = TRUE /\ wanted = core /\ disturbed = FALSE
  /\ calls = 0 /\ troubles = 0

Next ==
  \/ Open \/ Poll \/ Found \/ Close \/ GuiStep
  \/ \E s \in Sessions : ServerStep(s) \/ Client(s) \/ OpenOCD(s)
  \/ StopsByItself

Spec == Init /\ [][Next]_vars

\* Threads run on when they can, time-outs come, and OpenOCD answers.  No
\* fairness for users, clients or the target.
Fairness ==
  /\ WF_vars(GuiStep)
  /\ \A s \in Sessions : WF_vars(ServerStep(s)) /\ WF_vars(OpenOCD(s))

FairSpec == Spec /\ Fairness

-----------------------------------------------------------------------------
(* Properties.                                                             *)

CommandType == [word : {"reg", "targets", "halt", "access", "resume", "step", "exit"},
                asked : BOOLEAN]

Waiting(s) == IF \E t \in Threads : SessionOf(t) = s /\ call[t].waiting THEN 1 ELSE 0

\* The type of the state, and how far the answers of a connection can be
\* behind: by the command in progress and by those that were given up.
TypeOK ==
  /\ gui \in {"closed", "connecting", "finding", "failing", "open", "closing"}
  /\ session \in 0..MaxSessions
  /\ server \in [Sessions -> {"none", "created", "binding", "accepting", "serving", "packet",
                              "handling", "spinning", "ended"}]
  /\ running \in [Sessions -> BOOLEAN] /\ told \subseteq Sessions
  /\ sock \in [Sessions -> {"none", "open", "closed"}]
  /\ conn \in [Sessions -> {"none", "open", "closed"}]
  /\ lock \in [Sessions -> Threads \cup {NoThread}]
  /\ \A s \in Sessions : Range(sent[s]) \subseteq CommandType
  /\ \A s \in Sessions : Len(sent[s]) + Len(replies[s]) <= Waiting(s) + troubles
  /\ \A t \in Threads : Range(call[t].todo) \subseteq CommandType
  /\ core \in BOOLEAN /\ wanted \in BOOLEAN /\ disturbed \in BOOLEAN

Quiet == \A s \in Sessions : lock[s] = NoThread /\ sent[s] = << >>

\* Between calls the core runs exactly if whoever debugs left it running: the
\* GUI's polling, which halts and resumes the core for every access, is not
\* seen, whatever the GDB client asks meanwhile and however late OpenOCD
\* answers.  Not after an answer was given up, after the core stopped while it
\* was polled, or after a read raised whose answer was an error and which had
\* found the core running: the code leaves it halted then.  The exception ends
\* when a command of the user is executed with nothing else on its way.
\* (XLink.locked, OpenOCD.halt_required, read_mem_, _exec)
CoreAsLeft == Quiet /\ ~disturbed => core = wanted

\* A server that is told to stop while it runs ends, though it may be in a
\* call and a client may keep sending to it; but not when a client left in the
\* middle of a packet.  That the lock is released at all is not shown here (a
\* thread that waits for it can still time out as if it read a packet), but by
\* XLink.tla.  (GDBServer.run, stop, XLink.close)
ServerEnds ==
  \A s \in Sessions : s \in told ~> server[s] \in {"ended", "spinning"}
=============================================================================
