---------------------------- MODULE SessionPipes ----------------------------
(***************************************************************************)
(* What passes between the clients, the main thread and the session        *)
(* threads of mbroker through the named pipes: registration, the answer    *)
(* and the messages of a session.  The answer and the messages share the   *)
(* client's FIFO, and the thread of a session starts before the answer is  *)
(* sent.  There is one box; what its file holds is the number of messages  *)
(* (Boxes has the file system calls).                                      *)
(***************************************************************************)
EXTENDS Pipes, Integers

CONSTANTS
  Pubs, Subs,           \* the clients that are publishers and subscribers
  Creators, Removers,   \* the managers that create and remove the box
  Listers,              \* the managers that list the boxes
  Interruptible,        \* the clients of InterruptedSpec that may be interrupted
  MaxSessions,
  MaxStored,            \* bound: no more is published to a box that holds this many
  MaxUnstored,          \* bound: nor while its thread has so many pieces not yet stored
  BoxAtStart,           \* is the box there when the first client comes?
  StoredAtStart,        \* the messages it then holds
  OverrunKills          \* may a reading that overflows its buffer end the process?

ASSUME SessionPipesAssumption ==
  /\ Clients = Pubs \cup Subs \cup Creators \cup Removers \cup Listers
  /\ Pubs \cap Subs = {}
  /\ Interruptible \subseteq Clients
  /\ MaxSessions \in Nat /\ MaxStored \in Nat /\ MaxUnstored \in Nat
  /\ BoxAtStart \in BOOLEAN /\ OverrunKills \in BOOLEAN
  /\ StoredAtStart \in 0 .. MaxStored

Client(c) == <<"client", c>>
Thread(c) == <<"thread", c>>
Main      == <<"main", Register>>
Broker    == {Main} \cup {Thread(c) : c \in Clients}
Processes == Broker \cup {Client(c) : c \in Clients}

VARIABLES
  pc,
  acc,            \* what a process read since it opened its pipe
  alive,          \* the broker runs
  boxThere, stored,
  MAX_SESSIONS,
  req,            \* the client whose request Main serves
  verdict,        \* what Main decided on each client
  sent            \* ant_msg of a subscriber's thread, as what it said of the box

pipeVars == <<pipe, linked>>
boxVars  == <<boxThere, stored>>
mainVars == <<MAX_SESSIONS, req, verdict>>
vars     == <<pipeVars, pc, acc, alive, boxVars, mainVars, sent>>

-----------------------------------------------------------------------------
(* A message is read in pieces of at most BUFFER_SIZE - 1 bytes; the first *)
(* piece holds its op_code and return code or the start of its text.       *)

Answer(v)  == <<<<v, 0>>, <<"rest", 0>>>>
Message(n) == <<<<"msg", n>>, <<"rest", 0>>>>

\* mutant: the return code is not looked at
AnyCode(got) == Len(got) >= 0

\* mutant: an empty reading is a refusal
CodeIsRead(got) == got # <<>> /\ Head(got) \in {<<"ok", 0>>, <<"rest", 0>>, <<"msg", 0>>}

\* Bytes 1 to 4 of what was read into a zeroed buffer are zero.
CodeIsZero(got) == got = <<>> \/ Head(got) \in {<<"ok", 0>>, <<"rest", 0>>, <<"msg", 0>>}

\* More than the buffer holds: Main has room for one request, the others for
\* one message, a publisher's thread not even for a whole answer.
Overrun(p, got) ==
  IF p = Main THEN Len(got) > 1
  ELSE Len(got) > 2 \/ (p \in Broker /\ got = Answer("ok"))

Goto(p, label) == pc' = [pc EXCEPT ![p] = label]

\* exit() or a signal that is not handled.
BrokerDies ==
  /\ alive' = FALSE
  /\ CloseAll(Broker)
  /\ UNCHANGED <<linked, pc, acc, boxVars, mainVars, sent>>

ClientEnds(c, how) ==
  /\ CloseAll({Client(c)})
  /\ Goto(Client(c), how)
  /\ UNCHANGED <<linked, acc, alive, boxVars, mainVars, sent>>

Dies(p) ==
  \/ p \in Broker /\ BrokerDies
  \/ \E c \in Clients : p = Client(c) /\ ClientEnds(c, "failed")

Others == <<alive, boxVars, mainVars, sent>>

\* open() of a FIFO that lost its name fails, and the program exits.
BeginOpen(p, f, end, from, to) ==
  /\ pc[p] = from
  /\ \/ f \notin linked /\ Dies(p)
     \/ /\ f \in linked
        /\ OpenEnd(p, f, end)
        /\ Goto(p, to)
        /\ acc' = [acc EXCEPT ![p] = <<>>]
        /\ UNCHANGED <<linked, Others>>

EndOpen(p, f, from, to) ==
  /\ pc[p] = from
  /\ Opened(p, f)
  /\ Goto(p, to)
  /\ UNCHANGED <<pipeVars, acc, Others>>

Send(p, f, message, from, to) ==
  /\ pc[p] = from
  /\ \/ ~CanWrite(f) /\ Dies(p)
     \/ /\ CanWrite(f)
        /\ Put(f, message)
        /\ Goto(p, to)
        /\ UNCHANGED <<linked, acc, Others>>

Read(p, f, from) ==
  /\ pc[p] = from
  /\ HasData(f)
  /\ \/ /\ Take(f)
        /\ acc' = [acc EXCEPT ![p] = Append(@, Head(pipe[f].data))]
        /\ UNCHANGED <<linked, pc, Others>>
     \/ OverrunKills /\ Overrun(p, Append(acc[p], Head(pipe[f].data))) /\ Dies(p)

ReadEnd(p, f, from, to) ==
  /\ pc[p] = from
  /\ AtEnd(f)
  /\ Goto(p, to)
  /\ UNCHANGED <<pipeVars, acc, Others>>

CloseEnd(p, f, from, to) ==
  /\ pc[p] = from
  /\ Close(p, f)
  /\ Goto(p, to)
  /\ UNCHANGED <<linked, acc, Others>>

-----------------------------------------------------------------------------
(* The clients: pub.c, sub.c and manager.c.                                *)

IsManager(c) == c \in Creators \cup Removers \cup Listers

\* mkfifo, and the request.
MakeFifo(c) ==
  /\ pc[Client(c)] = "start"
  /\ linked' = linked \cup {c}
  /\ Goto(Client(c), "register")
  /\ UNCHANGED <<pipe, acc, Others>>

\* mutant: the register FIFO stays open while the client waits
SendRequestKeeps(c) ==
  \/ BeginOpen(Client(c), Register, "writers", "register", "register_wait")
  \/ EndOpen(Client(c), Register, "register_wait", "request")
  \/ Send(Client(c), Register, <<c>>, "request", "ask")

SendRequest(c) ==
  \/ BeginOpen(Client(c), Register, "writers", "register", "register_wait")
  \/ EndOpen(Client(c), Register, "register_wait", "request")
  \/ Send(Client(c), Register, <<c>>, "request", "requested")
  \/ CloseEnd(Client(c), Register, "requested", "ask")

\* A manager is done whatever it reads; the others look at the return code.
Decide(c) ==
  /\ pc[Client(c)] = "answered"
  /\ Close(Client(c), c)
  /\ Goto(Client(c), CASE IsManager(c) -> "leave"
                       [] ~IsManager(c) /\ CodeIsZero(acc[Client(c)]) -> "session"
                       [] OTHER -> "give_up")
  /\ UNCHANGED <<linked, acc, Others>>

WaitResponse(c) ==
  \/ BeginOpen(Client(c), c, "readers", "ask", "ask_wait")
  \/ EndOpen(Client(c), c, "ask_wait", "answer")
  \/ Read(Client(c), c, "answer")
  \/ ReadEnd(Client(c), c, "answer", "answered")
  \/ Decide(c)

Unlink(c) ==
  /\ pc[Client(c)] \in {"leave", "give_up"}
  /\ linked' = linked \ {c}
  /\ Goto(Client(c), IF pc[Client(c)] = "leave" THEN "done" ELSE "rejected")
  /\ UNCHANGED <<pipe, acc, Others>>

\* A line came from stdin, which may be never.
Publish(c) ==
  /\ c \in Pubs
  /\ stored < MaxStored
  /\ Len(acc[Thread(c)]) + Len(pipe[c].data) <= MaxUnstored
  /\ BeginOpen(Client(c), c, "writers", "session", "publish_wait")

SendMessage(c) ==
  \/ EndOpen(Client(c), c, "publish_wait", "publish")
  \/ Send(Client(c), c, Message(1), "publish", "published")
  \/ CloseEnd(Client(c), c, "published", "session")

\* string_to_box_message ends a subscriber that reads another op_code than
\* 10; nothing but zeros is not even looked at.
NotAMessage(got) == got # <<>> /\ Head(got)[1] \in {"ok", "no", "list"}

PrintMessage(c) ==
  \/ /\ pc[Client(c)] = "listened"
     /\ NotAMessage(acc[Client(c)])
     /\ ClientEnds(c, "failed")
  \/ /\ ~NotAMessage(acc[Client(c)])
     /\ CloseEnd(Client(c), c, "listened", "session")

ReceiveBoxMsg(c) ==
  /\ c \in Subs
  /\ \/ BeginOpen(Client(c), c, "readers", "session", "listen_wait")
     \/ EndOpen(Client(c), c, "listen_wait", "listen")
     \/ Read(Client(c), c, "listen")
     \/ ReadEnd(Client(c), c, "listen", "listened")
     \/ PrintMessage(c)

ClientStep(c) ==
  MakeFifo(c) \/ SendRequest(c) \/ WaitResponse(c) \/ Unlink(c) \/ SendMessage(c)
    \/ ReceiveBoxMsg(c)

\* SIGINT: the handler exits and the FIFO keeps its name.
Gone == {"start", "done", "rejected", "failed", "interrupted"}
Interrupt(c) == pc[Client(c)] \notin Gone /\ ClientEnds(c, "interrupted")

-----------------------------------------------------------------------------
(* The main thread of mbroker.                                             *)

CodeReceiver ==
  \/ BeginOpen(Main, Register, "readers", "open", "wait")
  \/ EndOpen(Main, Register, "wait", "receive")
  \/ Read(Main, Register, "receive")
  \/ ReadEnd(Main, Register, "receive", "received")
  \/ CloseEnd(Main, Register, "received", "serve")

Decided(c, granted) ==
  /\ req' = c
  /\ verdict' = [verdict EXCEPT ![c] = IF granted THEN "ok" ELSE "no"]

\* The answer is the same whatever boxes there are.
ServeList(c) ==
  /\ c \in Listers
  /\ req' = c
  /\ verdict' = [verdict EXCEPT ![c] = "list"]
  /\ Goto(Main, "respond")
  /\ UNCHANGED <<MAX_SESSIONS, boxVars>>

ServeManager(c) ==
  /\ c \in Creators \cup Removers
  /\ Decided(c, (c \in Creators) # boxThere)
  /\ boxThere' = (c \in Creators)
  /\ stored' = IF c \in Removers THEN 0 ELSE stored
  /\ Goto(Main, "respond")
  /\ UNCHANGED MAX_SESSIONS

\* mutant: the thread starts whether or not there is a box
ServeAnySession(c) ==
  LET granted == MAX_SESSIONS # 0
  IN  /\ ~IsManager(c)
      /\ Decided(c, granted)
      /\ MAX_SESSIONS' = IF granted THEN MAX_SESSIONS - 1 ELSE MAX_SESSIONS
      /\ pc' = [p \in Processes |-> CASE p = Main -> "respond"
                                      [] p = Thread(c) /\ granted -> "probe"
                                      [] OTHER -> pc[p]]
      /\ UNCHANGED boxVars

ServeSession(c) ==
  LET granted == MAX_SESSIONS # 0 /\ boxThere
  IN  /\ ~IsManager(c)
      /\ Decided(c, granted)
      /\ MAX_SESSIONS' = IF granted THEN MAX_SESSIONS - 1 ELSE MAX_SESSIONS
      /\ pc' = [p \in Processes |-> CASE p = Main -> "respond"
                                      [] p = Thread(c) /\ granted -> "probe"
                                      [] OTHER -> pc[p]]
      /\ UNCHANGED boxVars

\* Only the first request of a reading is looked at; an empty reading has
\* op_code 0, which config_response does not accept.
Serve ==
  /\ pc[Main] = "serve"
  /\ \/ acc[Main] = <<>> /\ BrokerDies
     \/ /\ acc[Main] # <<>>
        /\ LET c == Head(acc[Main]) IN ServeManager(c) \/ ServeSession(c) \/ ServeList(c)
        /\ UNCHANGED <<pipeVars, acc, alive, sent>>

\* mutant: the client's FIFO stays open
SendResponseKeeps ==
  \/ BeginOpen(Main, req, "writers", "respond", "respond_wait")
  \/ EndOpen(Main, req, "respond_wait", "response")
  \/ Send(Main, req, Answer(verdict[req]), "response", "open")

SendResponse ==
  \/ BeginOpen(Main, req, "writers", "respond", "respond_wait")
  \/ EndOpen(Main, req, "respond_wait", "response")
  \/ Send(Main, req, Answer(verdict[req]), "response", "responded")
  \/ CloseEnd(Main, req, "responded", "open")

MainStep == CodeReceiver \/ Serve \/ SendResponse

-----------------------------------------------------------------------------
(* The session threads of mbroker.                                         *)

DoesBoxExist(c) ==
  /\ pc[Thread(c)] = "probe"
  /\ Goto(Thread(c), IF boxThere THEN "follow" ELSE "end")
  /\ UNCHANGED <<pipeVars, acc, Others>>

\* The thread removes its client's FIFO and returns.
EndThread(c) ==
  /\ pc[Thread(c)] = "end"
  /\ linked' = linked \ {c}
  /\ Goto(Thread(c), "done")
  /\ UNCHANGED <<pipe, acc, Others>>

\* write_message: the text starts after the op_code, so that whatever is not
\* a message at its beginning is an empty text.
WriteMessage(c) ==
  /\ pc[Thread(c)] = "store"
  /\ stored' = IF boxThere /\ acc[Thread(c)] # <<>> /\ Head(acc[Thread(c)])[1] = "msg"
               THEN stored + 1 ELSE stored
  /\ Goto(Thread(c), "stored")
  /\ UNCHANGED <<pipeVars, acc, alive, boxThere, mainVars, sent>>

PubThread(c) ==
  /\ c \in Pubs
  /\ \/ BeginOpen(Thread(c), c, "readers", "follow", "follow_wait")
     \/ EndOpen(Thread(c), c, "follow_wait", "take")
     \/ Read(Thread(c), c, "take")
     \/ ReadEnd(Thread(c), c, "take", "store")
     \/ WriteMessage(c)
     \/ CloseEnd(Thread(c), c, "stored", "probe")

\* The first message is sent even if it is empty: its op_code differs.
ReadBox(c) ==
  LET text == IF boxThere /\ stored > 0 THEN stored ELSE IF sent[c] = -1 THEN 0 ELSE sent[c]
  IN  /\ pc[Thread(c)] = "fetch"
      /\ Goto(Thread(c), IF text # sent[c] THEN "tell" ELSE "told")
      /\ sent' = [sent EXCEPT ![c] = text]
      /\ UNCHANGED <<pipeVars, acc, alive, boxVars, mainVars>>

SubThread(c) ==
  /\ c \in Subs
  /\ \/ BeginOpen(Thread(c), c, "writers", "follow", "follow_wait")
     \/ EndOpen(Thread(c), c, "follow_wait", "fetch")
     \/ ReadBox(c)
     \/ Send(Thread(c), c, Message(sent[c]), "tell", "told")
     \/ CloseEnd(Thread(c), c, "told", "probe")

ThreadStep(c) == DoesBoxExist(c) \/ EndThread(c) \/ PubThread(c) \/ SubThread(c)

-----------------------------------------------------------------------------

Init ==
  /\ PipesInit
  /\ pc = [p \in Processes |-> CASE p = Main -> "open"
                                 [] p \in Broker \ {Main} -> "none"
                                 [] OTHER -> "start"]
  /\ acc = [p \in Processes |-> <<>>]
  /\ alive = TRUE
  /\ boxThere = BoxAtStart
  /\ stored = StoredAtStart
  /\ MAX_SESSIONS = MaxSessions
  /\ req = Register
  /\ verdict = [c \in Clients |-> "none"]
  /\ sent = [c \in Clients |-> -1]

\* SIGINT: sig_handler exits.
InterruptBroker == alive /\ BrokerDies

BrokerStep == alive /\ (MainStep \/ \E c \in Clients : ThreadStep(c))

\* Clients come in any order and publish when they like.
Next ==
  \/ BrokerStep
  \/ \E c \in Clients : ClientStep(c) \/ Publish(c)

\* Some may also be interrupted.
NextInterrupted == Next \/ \E c \in Interruptible : Interrupt(c)

\* They come one after the other: none registers while another waits.
Unanswered(c) ==
  pc[Client(c)] \in {"register", "register_wait", "request", "requested", "ask", "ask_wait",
                     "answer", "answered", "leave", "give_up"}
InTurnStep(c) ==
  /\ pc[Client(c)] = "start" => \A d \in Clients : ~Unanswered(d)
  /\ ClientStep(c)

NextInTurn ==
  \/ BrokerStep \/ InterruptBroker
  \/ \E c \in Clients : InTurnStep(c) \/ Publish(c)

\* Each process goes on; nothing makes a publisher's user type.
BrokerFairness ==
  WF_vars(alive /\ MainStep) /\ \A c \in Clients : WF_vars(alive /\ ThreadStep(c))
Fairness == BrokerFairness /\ \A c \in Clients : WF_vars(ClientStep(c))

Spec            == Init /\ [][Next]_vars /\ Fairness
InterruptedSpec == Init /\ [][NextInterrupted]_vars /\ Fairness
InTurnSpec      ==
  Init /\ [][NextInTurn]_vars /\ BrokerFairness /\ \A c \in Clients : WF_vars(InTurnStep(c))

-----------------------------------------------------------------------------
(* Properties.                                                             *)

PipeEnd == [readers : SUBSET Processes, writers : SUBSET Processes, met : SUBSET Processes,
            data : Seq(Clients \cup ({"ok", "no", "list", "rest", "msg"} \X Nat))]

\* The variables are typed, MAX_SESSIONS never goes below zero, and only who
\* has a FIFO open has met its other end.
TypeOK ==
  /\ pipe \in [Fifos -> PipeEnd]
  /\ linked \subseteq Fifos
  /\ stored \in Nat
  /\ MAX_SESSIONS \in 0 .. MaxSessions
  /\ sent \in [Clients -> Nat \cup {-1}]
  /\ \A f \in Fifos : pipe[f].met \subseteq pipe[f].readers \cup pipe[f].writers

\* A client goes on into a session only if Main granted it, however its answer
\* was cut, read by its own thread or mixed with messages; only a broker that
\* died with the answer unsent can make it believe so wrongly.
AcceptedWasGranted ==
  \A c \in Clients : pc[Client(c)] = "session" => verdict[c] = "ok" \/ ~alive

\* A publisher that gives up was refused, although its thread reads from the
\* FIFO its answer comes through.
RejectedWasRefused ==
  \A c \in Pubs : pc[Client(c)] \in {"give_up", "rejected"} => verdict[c] = "no"

\* What ends the broker is a client that was interrupted or failed, or the
\* session of a subscriber, whose thread writes while it is away from its FIFO;
\* never a client that is refused or leaves, nor the removal of a box.
MayKill(c) == pc[Client(c)] \in {"interrupted", "failed"} \/ (c \in Subs /\ verdict[c] = "ok")
DeathHasCause == alive \/ \E c \in Clients : MayKill(c)

\* Every client that sent a request comes to know the answer.
Answered(c) == pc[Client(c)] \in {"session", "done", "rejected"}
ClientAnswered ==
  \A c \in Clients : pc[Client(c)] = "requested" ~> Answered(c)

\* Every manager that sent a request comes to know the answer.
ManagerAnswered ==
  \A c \in Creators \cup Removers \cup Listers :
    pc[Client(c)] = "requested" ~> Answered(c) \/ ~alive

\* Main comes back for the next request.
Listening == pc[Main] \in {"open", "wait"}
MainComesBack == alive /\ ~Listening ~> Listening \/ ~alive

=============================================================================
