------------------------- MODULE SessionPipesProofs -------------------------
(***************************************************************************)
(* Proofs about what passes through the named pipes, for every set of      *)
(* clients: type correctness, that a client goes on into a session only    *)
(* if it was granted, that a publisher gives up only if it was refused,    *)
(* and what can end the broker.                                            *)
(***************************************************************************)
EXTENDS SessionPipes, SequenceTheorems, TLAPS

(***************************************************************************)
(* The inductive invariant.                                                *)
(***************************************************************************)

PreAnswer  == {"start", "register", "register_wait", "request", "requested", "ask", "ask_wait"}
Requesting == {"register_wait", "request", "requested"}
Receiving  == {"ask_wait", "answer", "answered", "listen_wait", "listen", "listened"}
Publishing == {"publish_wait", "publish", "published"}
InSession  == {"session", "listen_wait", "listen", "listened"} \cup Publishing
Over       == {"interrupted", "failed"}
Following  == {"follow_wait", "take", "store", "stored", "fetch", "tell", "told"}
BeforeTake == {"none", "probe", "follow", "follow_wait"}
MainReads  == {"wait", "receive", "received"}
MainWrites == {"respond_wait", "response", "responded"}

Piece == {"ok", "no", "list", "rest", "msg"} \X Nat

PipeType == [readers : SUBSET Processes, writers : SUBSET Processes, met : SUBSET Processes,
             data : Seq(Clients \cup Piece)]

PipesTyped ==
  /\ pipe \in [Fifos -> PipeType]
  /\ pipe[Register].data \in Seq(Clients)
  /\ \A c \in Clients : pipe[c].data \in Seq(Piece)
  /\ linked \subseteq Fifos /\ Register \in linked

RestTyped ==
  /\ pc = [q \in Processes |-> pc[q]]
  /\ acc \in [Processes -> Seq(Clients \cup Piece)]
  /\ acc[Main] \in Seq(Clients)
  /\ \A c \in Clients : acc[Client(c)] \in Seq(Piece) /\ acc[Thread(c)] \in Seq(Piece)
  /\ alive \in BOOLEAN /\ boxThere \in BOOLEAN /\ stored \in Nat
  /\ MAX_SESSIONS \in 0 .. MaxSessions
  /\ req \in Fifos
  /\ verdict \in [Clients -> {"none", "ok", "no", "list"}]
  /\ sent \in [Clients -> Nat \cup {-1}]

\* Who is where: only a publisher publishes, only a granted client has a thread.
Labelled(c) ==
  /\ pc[Client(c)] \in PreAnswer \cup Over \cup InSession
                         \cup {"answer", "answered", "leave", "done", "give_up", "rejected"}
  /\ pc[Client(c)] \in Publishing => c \in Pubs
  /\ pc[Client(c)] \in {"listen_wait", "listen", "listened"} => c \in Subs
  /\ pc[Client(c)] \in InSession \cup {"give_up", "rejected"} => ~IsManager(c)
  /\ pc[Client(c)] \in {"leave", "done"} => IsManager(c)
  /\ pc[Client(c)] = "ask_wait" => acc[Client(c)] = <<>>
  /\ pc[Thread(c)] \in BeforeTake \cup Following \cup {"end", "done"}
  /\ pc[Thread(c)] \in {"take", "store", "stored"} => c \in Pubs
  /\ pc[Thread(c)] \in {"fetch", "tell", "told"} => c \in Subs
  /\ pc[Thread(c)] # "none" => verdict[c] = "ok" /\ ~IsManager(c)
  /\ pc[Thread(c)] = "tell" => sent[c] \in Nat
  /\ verdict[c] = "list" => c \in Listers

\* Who has which end open.
RegisterEnds ==
  /\ \A q \in Processes :
       /\ q \in pipe[Register].readers <=> q = Main /\ alive /\ pc[Main] \in MainReads
       /\ q \in pipe[Register].writers <=> \E c \in Clients : q = Client(c) /\ pc[q] \in Requesting
  /\ pipe[Register].met \subseteq pipe[Register].readers \cup pipe[Register].writers

FifoEnds(c) ==
  /\ \A q \in Processes :
       /\ q \in pipe[c].readers <=>
            \/ q = Client(c) /\ pc[Client(c)] \in Receiving
            \/ q = Thread(c) /\ alive /\ c \in Pubs /\ pc[Thread(c)] \in Following
       /\ q \in pipe[c].writers <=>
            \/ q = Main /\ alive /\ req = c /\ pc[Main] \in MainWrites
            \/ q = Client(c) /\ pc[Client(c)] \in Publishing
            \/ q = Thread(c) /\ alive /\ c \in Subs /\ pc[Thread(c)] \in Following
  /\ pipe[c].met \subseteq pipe[c].readers \cup pipe[c].writers

Cause == \E c \in Clients : MayKill(c)

\* Each request is looked at once, and its client waits for the answer.
HasSent(c)    == pc[Client(c)] \notin {"start", "register", "register_wait", "request"}
NewRequest(c) == verdict[c] = "none" /\ HasSent(c)
Waiting       == pipe[Register].data
RequestsNew ==
  /\ \A i \in DOMAIN Waiting : NewRequest(Waiting[i])
  /\ \A i, j \in DOMAIN Waiting : Waiting[i] = Waiting[j] => i = j
  /\ pc[Main] \in {"receive", "received", "serve"} =>
       \A i \in DOMAIN acc[Main] :
         NewRequest(acc[Main][i]) /\ \A j \in DOMAIN Waiting : acc[Main][i] # Waiting[j]

\* An opening of the register FIFO that met a client brings a request.
HasRequest == Waiting # <<>> \/ (pc[Main] = "receive" /\ acc[Main] # <<>>)
RequestComes ==
  /\ \A c \in Clients : pc[Client(c)] = "requested" => HasRequest
  /\ alive /\ (pc[Main] = "receive" \/ (pc[Main] = "wait" /\ Main \in pipe[Register].met)) =>
       HasRequest \/ Cause \/ \E c \in Clients : pc[Client(c)] \in {"register_wait", "request"}
  /\ alive /\ pc[Main] \in {"received", "serve"} => acc[Main] # <<>> \/ Cause

\* The box stays until Main has answered, and so does the thread.
RequestServed ==
  /\ pc[Main] \in MainReads \cup MainWrites \cup {"open", "serve", "respond"}
  /\ pc[Main] = "wait" => acc[Main] = <<>>
  /\ pc[Main] \in MainWrites \cup {"respond"} =>
       /\ req \in Clients /\ verdict[req] # "none"
       /\ pc[Thread(req)] # "none" => boxThere /\ pc[Thread(req)] \notin {"end", "done"}

\* Before Main opens a client's FIFO nobody writes to it, but the thread of a
\* subscriber.
SubSession(c) == c \in Subs /\ verdict[c] = "ok"
Unheard(c)    == verdict[c] = "none" \/ (pc[Main] = "respond" /\ req = c /\ ~SubSession(c))
Silent(c) ==
  /\ verdict[c] # "none" => HasSent(c)
  /\ verdict[c] = "none" => pipe[c].data = <<>>
  /\ Unheard(c) => /\ pc[Client(c)] \in PreAnswer \cup Over
                   /\ pc[Thread(c)] \in BeforeTake
                   /\ Client(c) \notin pipe[c].met /\ Thread(c) \notin pipe[c].met

\* While Main has it open for writing, whoever reads from it stays.
AnswerAwaited(c) ==
  alive /\ pc[Main] \in MainWrites /\ req = c /\ ~SubSession(c) =>
    /\ pc[Client(c)] \in PreAnswer \cup Over \cup {"answer"}
    /\ pc[Thread(c)] \in BeforeTake \cup {"take"}
    /\ pc[Main] = "response" \/ (pc[Main] = "respond_wait" /\ Main \in pipe[c].met) =>
         pipe[c].readers # {} \/ Cause

NameKept(c) ==
  pc[Client(c)] \notin {"start", "done", "rejected"} /\ pc[Thread(c)] # "done" => c \in linked

\* The client a refusal is for reads it, and nothing before it.
Refusal  == <<"no", 0>>
Seeing(c) == pc[Client(c)] \in {"ask_wait", "answer", "answered"}
RefusalComes(c) ==
  verdict[c] = "no" =>
    /\ Seeing(c) => acc[Client(c)] = <<>> \/ Head(acc[Client(c)]) = Refusal
    /\ pc[Client(c)] \in {"requested", "ask"} \/ (Seeing(c) /\ acc[Client(c)] = <<>>) =>
         pipe[c].data = <<>> \/ Head(pipe[c].data) = Refusal
    /\ alive /\ pc[Client(c)] \in {"requested", "ask", "ask_wait", "answer"} =>
         \/ pc[Main] \in {"respond", "respond_wait", "response"} /\ req = c
         \/ Seeing(c) /\ (acc[Client(c)] # <<>> \/ pipe[c].data # <<>>)
    /\ alive /\ pc[Client(c)] = "answered" => acc[Client(c)] # <<>>

\* A publisher that waits for its answer reads nothing but a grant.
Grant == {<<"ok", 0>>, <<"rest", 0>>}
GrantComes(c) ==
  c \in Pubs /\ verdict[c] = "ok" =>
    /\ pc[Client(c)] \in PreAnswer \cup {"answer", "answered"} =>
         \A i \in DOMAIN pipe[c].data : pipe[c].data[i] \in Grant
    /\ Seeing(c) => \A i \in DOMAIN acc[Client(c)] : acc[Client(c)][i] \in Grant

Decisions(c) ==
  /\ pc[Client(c)] \in InSession => verdict[c] = "ok" \/ ~alive
  /\ c \in Pubs /\ pc[Client(c)] \in {"give_up", "rejected"} => verdict[c] = "no"

ClientInv(c) ==
  /\ Labelled(c) /\ FifoEnds(c) /\ Silent(c) /\ AnswerAwaited(c) /\ NameKept(c)
  /\ RefusalComes(c) /\ GrantComes(c) /\ Decisions(c)

RegisterInv == RegisterEnds /\ RequestsNew /\ RequestComes

PipesInv ==
  /\ PipesTyped /\ RestTyped
  /\ RegisterInv /\ RequestServed
  /\ \A c \in Clients : ClientInv(c)
  /\ OverrunKills \/ DeathHasCause

-----------------------------------------------------------------------------
(* Processes and FIFOs.                                                    *)

\* The processes are different from each other.
LEMMA ProcessFacts ==
  /\ Main \in Processes /\ Main \in Broker
  /\ \A c \in Clients : /\ Client(c) \in Processes /\ Thread(c) \in Processes
                        /\ Client(c) \notin Broker /\ Thread(c) \in Broker
                        /\ Client(c) # Main /\ Thread(c) # Main
  /\ \A c, d \in Clients : /\ Client(c) # Thread(d)
                           /\ Client(c) = Client(d) => c = d
                           /\ Thread(c) = Thread(d) => c = d
BY DEF Main, Client, Thread, Processes, Broker

\* Every process is Main, a client or a thread.
LEMMA ProcessCases ==
  /\ \A q \in Processes : q = Main \/ \E c \in Clients : q = Client(c) \/ q = Thread(c)
  /\ \A q \in Broker : q = Main \/ \E c \in Clients : q = Thread(c)
BY DEF Main, Client, Thread, Processes, Broker

\* No client names the FIFO of mbroker.
LEMMA FifoFacts ==
  /\ Register \in Fifos /\ Register \notin Clients
  /\ \A c \in Clients : c \in Fifos
  /\ \A f \in Fifos : f = Register \/ f \in Clients
BY PipesAssumption DEF Fifos

\* A sequence of some is one of more.
LEMMA SeqOfUnion ==
  \A S, T : Seq(S) \subseteq Seq(S \cup T) /\ Seq(T) \subseteq Seq(S \cup T)
OBVIOUS

\* Where a step leaves the processes.
At(p, label) ==
  /\ pc' = [q \in Processes |-> pc'[q]]
  /\ pc'[p] = label
  /\ \A q \in Processes : q # p => pc'[q] = pc[q]

LEMMA GotoAt ==
  ASSUME NEW p \in Processes, NEW label, RestTyped, Goto(p, label)
  PROVE  At(p, label)
BY DEF RestTyped, Goto, At

\* What each process sees of it.
ClientAt(c, label) ==
  /\ pc' = [q \in Processes |-> pc'[q]]
  /\ pc'[Client(c)] = label
  /\ pc'[Main] = pc[Main]
  /\ \A d \in Clients : pc'[Thread(d)] = pc[Thread(d)]
  /\ \A d \in Clients : d # c => pc'[Client(d)] = pc[Client(d)]
ThreadAt(c, label) ==
  /\ pc' = [q \in Processes |-> pc'[q]]
  /\ pc'[Thread(c)] = label
  /\ pc'[Main] = pc[Main]
  /\ \A d \in Clients : pc'[Client(d)] = pc[Client(d)]
  /\ \A d \in Clients : d # c => pc'[Thread(d)] = pc[Thread(d)]
MainAt(label) ==
  /\ pc' = [q \in Processes |-> pc'[q]]
  /\ pc'[Main] = label
  /\ \A d \in Clients : pc'[Client(d)] = pc[Client(d)] /\ pc'[Thread(d)] = pc[Thread(d)]

LEMMA GotoSeen ==
  ASSUME RestTyped, NEW label
  PROVE  /\ Goto(Main, label) => MainAt(label)
         /\ \A c \in Clients : /\ Goto(Client(c), label) => ClientAt(c, label)
                               /\ Goto(Thread(c), label) => ThreadAt(c, label)
<1>1. Goto(Main, label) => MainAt(label)
  BY GotoAt, ProcessFacts DEF At, MainAt
<1>2. ASSUME NEW c \in Clients PROVE Goto(Client(c), label) => ClientAt(c, label)
  BY GotoAt, ProcessFacts DEF At, ClientAt
<1>3. ASSUME NEW c \in Clients PROVE Goto(Thread(c), label) => ThreadAt(c, label)
  BY GotoAt, ProcessFacts DEF At, ThreadAt
<1> QED BY <1>1, <1>2, <1>3

-----------------------------------------------------------------------------
(* What the operations on pipes do.                                        *)

\* Only FIFO f changes.
OnlyPipe(f) == \A g \in Fifos : g # f => pipe'[g] = pipe[g]

\* What is typed stays typed if one pipe does.
LEMMA PipeAgain ==
  ASSUME PipesTyped, NEW f \in Fifos, OnlyPipe(f), pipe' = [g \in Fifos |-> pipe'[g]],
         pipe'[f] \in PipeType, linked' = linked,
         \/ pipe'[f].data \in {<<>>, pipe[f].data}
         \/ f = Register /\ pipe'[f].data \in Seq(Clients)
         \/ f \in Clients /\ pipe'[f].data \in Seq(Piece)
  PROVE  PipesTyped'
<1>1. \A g \in Fifos : pipe'[g] \in PipeType
  BY DEF PipesTyped, OnlyPipe
<1>2. pipe'[Register].data \in Seq(Clients)
  BY EmptySeq, FifoFacts DEF PipesTyped, OnlyPipe
<1>3. \A c \in Clients : pipe'[c].data \in Seq(Piece)
  BY EmptySeq, FifoFacts DEF PipesTyped, OnlyPipe
<1> QED BY <1>1, <1>2, <1>3 DEF PipesTyped

\* open() of one end.
LEMMA OpenEffect ==
  ASSUME PipesTyped, NEW f \in Fifos, NEW p \in Processes, NEW end \in {"readers", "writers"},
         OpenEnd(p, f, end), linked' = linked
  PROVE  /\ PipesTyped' /\ OnlyPipe(f)
         /\ pipe'[f].readers = IF end = "readers" THEN pipe[f].readers \cup {p} ELSE pipe[f].readers
         /\ pipe'[f].writers = IF end = "writers" THEN pipe[f].writers \cup {p} ELSE pipe[f].writers
         /\ pipe'[f].data = pipe[f].data
         /\ end = "readers" => pipe'[f].met = IF pipe[f].writers = {} THEN pipe[f].met
                                 ELSE pipe[f].met \cup pipe[f].writers \cup {p}
         /\ end = "writers" => pipe'[f].met = IF pipe[f].readers = {} THEN pipe[f].met
                                 ELSE pipe[f].met \cup pipe[f].readers \cup {p}
<1>1. pipe[f] \in PipeType
  BY DEF PipesTyped, PipeType
<1>2. CASE end = "readers"
  <2>1. pipe' = [pipe EXCEPT ![f] =
                   [pipe[f] EXCEPT !.readers = pipe[f].readers \cup {p},
                                   !.met = pipe[f].met \cup pipe[f].writers
                                             \cup {q \in {p} : pipe[f].writers # {}}]]
    BY <1>2 DEF OpenEnd, OtherEnd, PipesTyped, PipeType
  <2>2. /\ OnlyPipe(f)
        /\ pipe'[f] = [pipe[f] EXCEPT !.readers = pipe[f].readers \cup {p},
                                      !.met = pipe[f].met \cup pipe[f].writers
                                                \cup {q \in {p} : pipe[f].writers # {}}]
        /\ pipe' = [g \in Fifos |-> pipe'[g]]
    BY <2>1 DEF OnlyPipe, PipesTyped
  <2>3. /\ pipe'[f].data = pipe[f].data /\ pipe'[f].writers = pipe[f].writers
        /\ pipe'[f].readers = pipe[f].readers \cup {p}
        /\ pipe'[f].met = pipe[f].met \cup pipe[f].writers \cup {q \in {p} : pipe[f].writers # {}}
    BY <2>2, <1>1 DEF PipeType
  <2>4. pipe'[f].met \in SUBSET Processes /\ pipe'[f].readers \in SUBSET Processes
    BY <2>3, <1>1 DEF PipeType
  <2>5. pipe'[f] \in PipeType
    BY <2>2, <2>3, <2>4, <1>1 DEF PipeType
  <2>6. PipesTyped'
    BY <2>2, <2>3, <2>5, PipeAgain
  <2> QED BY <2>2, <2>3, <2>6, <1>2
<1>3. CASE end = "writers"
  <2>1. pipe' = [pipe EXCEPT ![f] =
                   [pipe[f] EXCEPT !.writers = pipe[f].writers \cup {p},
                                   !.met = pipe[f].met \cup pipe[f].readers
                                             \cup {q \in {p} : pipe[f].readers # {}}]]
    BY <1>3 DEF OpenEnd, OtherEnd, PipesTyped, PipeType
  <2>2. /\ OnlyPipe(f)
        /\ pipe'[f] = [pipe[f] EXCEPT !.writers = pipe[f].writers \cup {p},
                                      !.met = pipe[f].met \cup pipe[f].readers
                                                \cup {q \in {p} : pipe[f].readers # {}}]
        /\ pipe' = [g \in Fifos |-> pipe'[g]]
    BY <2>1 DEF OnlyPipe, PipesTyped
  <2>3. /\ pipe'[f].data = pipe[f].data /\ pipe'[f].readers = pipe[f].readers
        /\ pipe'[f].writers = pipe[f].writers \cup {p}
        /\ pipe'[f].met = pipe[f].met \cup pipe[f].readers \cup {q \in {p} : pipe[f].readers # {}}
    BY <2>2, <1>1 DEF PipeType
  <2>4. pipe'[f].met \in SUBSET Processes /\ pipe'[f].writers \in SUBSET Processes
    BY <2>3, <1>1 DEF PipeType
  <2>5. pipe'[f] \in PipeType
    BY <2>2, <2>3, <2>4, <1>1 DEF PipeType
  <2>6. PipesTyped'
    BY <2>2, <2>3, <2>5, PipeAgain
  <2> QED BY <2>2, <2>3, <2>6, <1>3
<1> QED BY <1>2, <1>3

\* What is left of a pipe when the processes ps have closed it.
Closed(f, ps) ==
  /\ pipe'[f].readers = pipe[f].readers \ ps
  /\ pipe'[f].writers = pipe[f].writers \ ps
  /\ pipe'[f].met = pipe[f].met \ ps
  /\ pipe'[f].data = <<>> \/ pipe'[f].data = pipe[f].data
  /\ pipe'[f].readers \cup pipe'[f].writers # {} => pipe'[f].data = pipe[f].data

\* close().
LEMMA CloseEffect ==
  ASSUME PipesTyped, NEW f \in Fifos, NEW p \in Processes, Close(p, f), linked' = linked
  PROVE  PipesTyped' /\ OnlyPipe(f) /\ Closed(f, {p})
<1>1. pipe'[f] = Without(pipe[f], {p}) /\ OnlyPipe(f) /\ pipe' = [g \in Fifos |-> pipe'[g]]
  BY DEF Close, PipesTyped, OnlyPipe
<1>2. Closed(f, {p})
  BY <1>1 DEF Without, Closed
<1>3. pipe[f] \in PipeType
  BY DEF PipesTyped
<1>4. pipe'[f] \in PipeType
  BY <1>1, <1>3, EmptySeq DEF Without, PipeType
<1>5. PipesTyped'
  BY <1>1, <1>2, <1>4, PipeAgain DEF Closed
<1> QED BY <1>1, <1>2, <1>5

\* exit().
LEMMA CloseAllEffect ==
  ASSUME PipesTyped, NEW ps, CloseAll(ps), linked' = linked
  PROVE  PipesTyped' /\ \A f \in Fifos : Closed(f, ps)
<1>1. ASSUME NEW f \in Fifos PROVE Closed(f, ps) /\ pipe'[f] \in PipeType
  <2>1. pipe'[f] = Without(pipe[f], ps)
    BY DEF CloseAll
  <2>2. Closed(f, ps)
    BY <2>1 DEF Without, Closed
  <2>3. pipe[f] \in PipeType
    BY DEF PipesTyped
  <2>4. pipe'[f] \in PipeType
    BY <2>1, <2>3, EmptySeq DEF Without, PipeType
  <2> QED BY <2>2, <2>4
<1>2. pipe'[Register].data \in Seq(Clients)
  BY <1>1, FifoFacts, EmptySeq DEF Closed, PipesTyped
<1>3. ASSUME NEW c \in Clients PROVE pipe'[c].data \in Seq(Piece)
  <2>1. Closed(c, ps) /\ pipe[c].data \in Seq(Piece)
    BY <1>1, FifoFacts DEF PipesTyped
  <2> QED BY <2>1, EmptySeq DEF Closed
<1>4. pipe' = [g \in Fifos |-> pipe'[g]]
  BY DEF CloseAll
<1> QED BY <1>1, <1>2, <1>3, <1>4 DEF PipesTyped

\* Nothing but the contents of FIFO f changes.
OnlyData(f) ==
  /\ OnlyPipe(f)
  /\ pipe'[f].readers = pipe[f].readers /\ pipe'[f].writers = pipe[f].writers
  /\ pipe'[f].met = pipe[f].met

\* write().
LEMMA PutEffect ==
  ASSUME PipesTyped, NEW f \in Fifos, NEW message, Put(f, message), linked' = linked,
         (f = Register /\ message \in Seq(Clients)) \/ (f \in Clients /\ message \in Seq(Piece))
  PROVE  PipesTyped' /\ OnlyData(f) /\ pipe'[f].data = pipe[f].data \o message
<1>1. /\ pipe'[f] = [pipe[f] EXCEPT !.data = pipe[f].data \o message]
      /\ OnlyPipe(f) /\ pipe' = [g \in Fifos |-> pipe'[g]]
  BY DEF Put, PipesTyped, OnlyPipe
<1>2. pipe[f] \in PipeType
  BY DEF PipesTyped
<1>3. OnlyData(f) /\ pipe'[f].data = pipe[f].data \o message
  BY <1>1, <1>2 DEF PipeType, OnlyData
<1>4. message \in Seq(Clients \cup Piece) /\ pipe[f].data \in Seq(Clients \cup Piece)
  BY <1>2, SeqOfUnion DEF PipeType
<1>5. pipe[f].data \o message \in Seq(Clients \cup Piece)
  BY <1>4
<1>6. pipe'[f] \in PipeType
  BY <1>1, <1>2, <1>5 DEF PipeType
<1>7. \/ f = Register /\ pipe'[f].data \in Seq(Clients)
      \/ f \in Clients /\ pipe'[f].data \in Seq(Piece)
  BY <1>3, FifoFacts DEF PipesTyped
<1>8. PipesTyped'
  BY <1>1, <1>6, <1>7, PipeAgain
<1> QED BY <1>3, <1>8

\* read().
LEMMA TakeEffect ==
  ASSUME PipesTyped, NEW f \in Fifos, HasData(f), Take(f), linked' = linked
  PROVE  PipesTyped' /\ OnlyData(f) /\ pipe'[f].data = Tail(pipe[f].data)
<1>1. /\ pipe'[f] = [pipe[f] EXCEPT !.data = Tail(pipe[f].data)]
      /\ OnlyPipe(f) /\ pipe' = [g \in Fifos |-> pipe'[g]]
  BY DEF Take, PipesTyped, OnlyPipe
<1>2. pipe[f] \in PipeType /\ pipe[f].data # <<>>
  BY DEF PipesTyped, HasData
<1>3. OnlyData(f) /\ pipe'[f].data = Tail(pipe[f].data)
  BY <1>1, <1>2 DEF PipeType, OnlyData
<1>4. Tail(pipe[f].data) \in Seq(Clients \cup Piece)
  BY <1>2 DEF PipeType
<1>5. pipe'[f] \in PipeType
  BY <1>1, <1>2, <1>4 DEF PipeType
<1>6. \/ f = Register /\ pipe'[f].data \in Seq(Clients)
      \/ f \in Clients /\ pipe'[f].data \in Seq(Piece)
  BY <1>2, <1>3, FifoFacts DEF PipesTyped
<1>7. PipesTyped'
  BY <1>1, <1>5, <1>6, PipeAgain
<1> QED BY <1>3, <1>7

-----------------------------------------------------------------------------
(* What a step leaves alone.                                               *)

\* Nothing client d depends on changes.
SamePipe(d) ==
  /\ pipe'[d].readers = pipe[d].readers /\ pipe'[d].writers = pipe[d].writers
  /\ pipe'[d].met = pipe[d].met
  /\ \/ pipe'[d].data = pipe[d].data
     \/ pipe'[d].data = <<>> /\ pipe[d].readers = {}
SameClient(d) ==
  /\ pc'[Client(d)] = pc[Client(d)] /\ pc'[Thread(d)] = pc[Thread(d)]
  /\ acc'[Client(d)] = acc[Client(d)]
  /\ verdict'[d] = verdict[d] /\ sent'[d] = sent[d]
  /\ d \in linked => d \in linked'
Addressed(d) == req = d /\ pc[Main] \in MainWrites \cup {"respond"}

LEMMA ClientFrame ==
  ASSUME NEW d \in Clients, ClientInv(d), SamePipe(d), SameClient(d), alive' = alive,
         (pc'[Main] = pc[Main] /\ req' = req) \/ (~Addressed(d) /\ ~Addressed(d)'),
         Cause => Cause'
  PROVE  ClientInv(d)'
<1> USE DEF SameClient, ClientInv
<1>1. Labelled(d)'
  BY DEF Labelled
<1>2. FifoEnds(d)'
  BY DEF FifoEnds, SamePipe, Addressed
<1>3. Silent(d)'
  BY DEF Silent, SamePipe, Unheard, HasSent, SubSession, Addressed
<1>4. AnswerAwaited(d)'
  BY DEF AnswerAwaited, SamePipe, SubSession, Addressed
<1>5. NameKept(d)'
  BY DEF NameKept
<1>6. RefusalComes(d)'
  <2>1. Seeing(d) => pipe'[d].data = pipe[d].data
    <3>1. Seeing(d) => Client(d) \in pipe[d].readers
      BY ProcessFacts DEF FifoEnds, Seeing, Receiving
    <3> QED BY <3>1 DEF SamePipe
  <2> QED BY <2>1 DEF RefusalComes, SamePipe, Seeing, Addressed, MainWrites
<1>7. GrantComes(d)'
  BY DEF GrantComes, SamePipe, Seeing
<1>8. Decisions(d)'
  BY DEF Decisions
<1> QED BY <1>1, <1>2, <1>3, <1>4, <1>5, <1>6, <1>7, <1>8

\* Nothing the register FIFO depends on changes.
LEMMA RegisterFrame ==
  ASSUME PipesTyped, RestTyped, RegisterInv, pipe'[Register] = pipe[Register], alive' = alive,
         verdict' = verdict, pc'[Main] = pc[Main], acc'[Main] = acc[Main], Cause => Cause',
         \A d \in Clients :
           \/ pc'[Client(d)] = pc[Client(d)]
           \/ HasSent(d) /\ HasSent(d)' /\ pc[Client(d)] # "requested"
                /\ pc'[Client(d)] # "requested"
           \/ pc[Client(d)] = "start" /\ pc'[Client(d)] = "register"
  PROVE  RegisterInv'
<1>1. RegisterEnds'
  <2>1. \A d \in Clients : pc'[Client(d)] \in Requesting <=> pc[Client(d)] \in Requesting
    BY DEF HasSent, Requesting
  <2> QED BY <2>1 DEF RegisterEnds, RegisterInv
<1>2. RequestsNew'
  <2>1. \A d \in Clients : NewRequest(d) => NewRequest(d)'
    BY DEF NewRequest, HasSent
  <2>2. \A i \in DOMAIN Waiting : Waiting[i] \in Clients
    BY DEF PipesTyped, Waiting
  <2>3. \A i \in DOMAIN acc[Main] : acc[Main][i] \in Clients
    BY DEF RestTyped
  <2>4. Waiting' = Waiting
    BY DEF Waiting
  <2> QED BY <2>1, <2>2, <2>3, <2>4 DEF RequestsNew, RegisterInv
<1>3. RequestComes'
  <2>1. \A d \in Clients : pc'[Client(d)] \in {"register_wait", "request", "requested"}
                             => pc'[Client(d)] = pc[Client(d)]
    BY DEF HasSent
  <2>2. \A d \in Clients : pc[Client(d)] \in {"register_wait", "request"}
                             => pc'[Client(d)] = pc[Client(d)]
    BY DEF HasSent
  <2> QED BY <2>1, <2>2 DEF RequestComes, RegisterInv, HasRequest, Waiting
<1> QED BY <1>1, <1>2, <1>3 DEF RegisterInv

-----------------------------------------------------------------------------
(* The end of a program.                                                   *)

\* The broker may end where OverrunKills lets it, or with a cause.
LEMMA BrokerDiesStep ==
  ASSUME PipesInv, BrokerDies, OverrunKills \/ Cause
  PROVE  PipesInv'
<1>1. /\ alive' = FALSE /\ linked' = linked /\ pc' = pc /\ acc' = acc
      /\ boxThere' = boxThere /\ stored' = stored /\ MAX_SESSIONS' = MAX_SESSIONS
      /\ req' = req /\ verdict' = verdict /\ sent' = sent /\ CloseAll(Broker)
  BY DEF BrokerDies, boxVars, mainVars
<1>2. PipesTyped' /\ \A f \in Fifos : Closed(f, Broker)
  BY <1>1, CloseAllEffect DEF PipesInv
<1>3. RestTyped'
  BY <1>1 DEF PipesInv, RestTyped
<1>4. RegisterInv'
  <2>1. Closed(Register, Broker)
    BY <1>2, FifoFacts
  <2>2. RegisterEnds'
    BY <2>1, <1>1, ProcessFacts DEF PipesInv, RegisterInv, RegisterEnds, Closed
  <2>3. Waiting' = Waiting \/ (Waiting' = <<>> /\ pipe'[Register].writers = {})
    BY <2>1 DEF Closed, Waiting
  <2>4. \A c \in Clients : pc[Client(c)] = "requested" => Waiting' = Waiting
    BY <2>3, <2>2, <1>1, ProcessFacts DEF RegisterEnds, Requesting
  <2>5. RequestsNew'
    BY <2>3, <1>1 DEF PipesInv, RegisterInv, RequestsNew, NewRequest, HasSent
  <2>6. RequestComes'
    BY <2>4, <1>1 DEF PipesInv, RegisterInv, RequestComes, HasRequest
  <2> QED BY <2>2, <2>5, <2>6 DEF RegisterInv
<1>5. RequestServed'
  BY <1>1 DEF PipesInv, RequestServed
<1>6. ASSUME NEW c \in Clients PROVE ClientInv(c)'
  <2>1. Closed(c, Broker) /\ ClientInv(c)
    BY <1>2, FifoFacts DEF PipesInv
  <2>2. Labelled(c)' /\ NameKept(c)' /\ Decisions(c)' /\ AnswerAwaited(c)'
    BY <2>1, <1>1 DEF ClientInv, Labelled, NameKept, Decisions, AnswerAwaited
  <2>3. FifoEnds(c)'
    BY <2>1, <1>1, ProcessFacts DEF ClientInv, FifoEnds, Closed
  <2>4. Silent(c)'
    BY <2>1, <1>1 DEF ClientInv, Silent, Closed, Unheard, SubSession, HasSent
  <2>5. RefusalComes(c)'
    BY <2>1, <1>1 DEF ClientInv, RefusalComes, Closed, Seeing
  <2>6. GrantComes(c)'
    BY <2>1, <1>1 DEF ClientInv, GrantComes, Closed, Seeing
  <2> QED BY <2>2, <2>3, <2>4, <2>5, <2>6 DEF ClientInv
<1>7. OverrunKills \/ DeathHasCause'
  BY <1>1 DEF DeathHasCause, Cause, MayKill
<1> QED BY <1>2, <1>3, <1>4, <1>5, <1>6, <1>7 DEF PipesInv

\* A client that has its FIFO may fail or be interrupted.
LEMMA ClientEndsStep ==
  ASSUME PipesInv, NEW c \in Clients, NEW how \in Over, ClientEnds(c, how),
         pc[Client(c)] \notin {"start", "done", "rejected"}
  PROVE  PipesInv'
<1>1. /\ alive' = alive /\ linked' = linked /\ acc' = acc
      /\ boxThere' = boxThere /\ stored' = stored /\ MAX_SESSIONS' = MAX_SESSIONS
      /\ req' = req /\ verdict' = verdict /\ sent' = sent
      /\ CloseAll({Client(c)}) /\ Goto(Client(c), how)
  BY DEF ClientEnds, boxVars, mainVars
<1>2. ClientAt(c, how)
  BY <1>1, GotoSeen DEF PipesInv
<1>3. PipesTyped' /\ \A f \in Fifos : Closed(f, {Client(c)})
  BY <1>1, CloseAllEffect DEF PipesInv
<1>4. RestTyped'
  BY <1>1, <1>2 DEF PipesInv, RestTyped, ClientAt
<1>5. Cause'
  BY <1>2 DEF Cause, MayKill, ClientAt, Over
<1>6. RegisterInv'
  <2>1. Closed(Register, {Client(c)})
    BY <1>3, FifoFacts
  <2>2. RegisterEnds'
    <3>1. \A d \in Clients : pc'[Client(d)] \in Requesting
                               <=> d # c /\ pc[Client(d)] \in Requesting
      BY <1>2 DEF ClientAt, Over, Requesting
    <3> QED BY <3>1, <2>1, <1>1, <1>2, ProcessFacts
            DEF PipesInv, RegisterInv, RegisterEnds, Closed, ClientAt
  <2>3. Waiting' = Waiting \/ (Waiting' = <<>> /\ pipe'[Register].writers = {})
    BY <2>1 DEF Closed, Waiting
  <2>4. \A d \in Clients : pc'[Client(d)] = "requested" => Waiting' = Waiting
    BY <2>3, <2>2, ProcessFacts DEF RegisterEnds, Requesting
  <2>5. RequestsNew'
    <3>1. \A d \in Clients : NewRequest(d) => NewRequest(d)'
      BY <1>1, <1>2 DEF NewRequest, HasSent, ClientAt, Over
    <3>2. \A i \in DOMAIN Waiting : Waiting[i] \in Clients
      BY DEF PipesInv, PipesTyped, Waiting
    <3>3. \A i \in DOMAIN acc[Main] : acc[Main][i] \in Clients
      BY DEF PipesInv, RestTyped
    <3> QED BY <3>1, <3>2, <3>3, <2>3, <1>1, <1>2
            DEF PipesInv, RegisterInv, RequestsNew, ClientAt
  <2>6. RequestComes'
    BY <2>4, <1>1, <1>2, <1>5 DEF PipesInv, RegisterInv, RequestComes, HasRequest, ClientAt, Over
  <2> QED BY <2>2, <2>5, <2>6 DEF RegisterInv
<1>7. RequestServed'
  BY <1>1, <1>2, FifoFacts DEF PipesInv, RequestServed, ClientAt
<1>8. ASSUME NEW d \in Clients, d # c PROVE ClientInv(d)'
  <2>1. Closed(d, {Client(c)}) /\ ClientInv(d)
    BY <1>3, FifoFacts DEF PipesInv
  <2>2. Client(c) \notin pipe[d].readers /\ Client(c) \notin pipe[d].writers
        /\ Client(c) \notin pipe[d].met
    BY <2>1, <1>8, ProcessFacts DEF ClientInv, FifoEnds
  <2>3. SamePipe(d)
    BY <2>1, <2>2 DEF Closed, SamePipe
  <2>4. SameClient(d)
    BY <1>1, <1>2, <1>8, ProcessFacts DEF SameClient, ClientAt
  <2> QED BY <2>1, <2>3, <2>4, <1>1, <1>2, <1>5, ClientFrame DEF ClientAt
<1>9. ClientInv(c)'
  <2>1. Closed(c, {Client(c)}) /\ ClientInv(c)
    BY <1>3, FifoFacts DEF PipesInv
  <2>2. /\ pc'[Client(c)] \in Over /\ pc'[Thread(c)] = pc[Thread(c)] /\ pc'[Main] = pc[Main]
        /\ pc'[Client(c)] \notin PreAnswer \cup InSession \cup Receiving \cup Publishing
                                   \cup {"answer", "answered", "leave", "done", "give_up", "rejected"}
    BY <1>2 DEF ClientAt, Over, PreAnswer, InSession, Receiving, Publishing
  <2>3. Labelled(c)' /\ NameKept(c)' /\ Decisions(c)'
    BY <2>1, <2>2, <1>1
    DEF ClientInv, Labelled, NameKept, Decisions, InSession, PreAnswer, Over
  <2>4. FifoEnds(c)'
    BY <2>1, <2>2, <1>1, ProcessFacts DEF ClientInv, FifoEnds, Closed
  <2>5. Silent(c)'
    BY <2>1, <2>2, <1>1 DEF ClientInv, Silent, Closed, Unheard, SubSession, HasSent, Over
  <2>6. AnswerAwaited(c)'
    BY <2>1, <2>2, <1>1, <1>5 DEF ClientInv, AnswerAwaited, SubSession
  <2>7. RefusalComes(c)' /\ GrantComes(c)'
    BY <2>2 DEF RefusalComes, GrantComes, Seeing, PreAnswer, Over
  <2> QED BY <2>3, <2>4, <2>5, <2>6, <2>7 DEF ClientInv
<1>10. OverrunKills \/ DeathHasCause'
  BY <1>5 DEF DeathHasCause, Cause
<1> QED BY <1>3, <1>4, <1>6, <1>7, <1>8, <1>9, <1>10 DEF PipesInv

-----------------------------------------------------------------------------
(* Steps on a client's own FIFO.                                           *)

OthersLinked(c) == \A d \in Clients : d # c /\ d \in linked => d \in linked'

\* What process p read may change, and nothing else that was read.
OnlyRead(p) ==
  /\ acc' = [acc EXCEPT ![p] = acc'[p]]
  /\ acc'[p] \in Seq(Piece)

\* A client's step on its own FIFO keeps the invariant if the client keeps its
\* part of it.
LEMMA ClientLocal ==
  ASSUME PipesInv, NEW c \in Clients, NEW label, ClientAt(c, label), OnlyPipe(c), PipesTyped',
         OnlyRead(Client(c)), OthersLinked(c), UNCHANGED Others,
         pc[Client(c)] \notin Over,
         \/ HasSent(c) /\ HasSent(c)' /\ pc[Client(c)] # "requested" /\ label # "requested"
         \/ pc[Client(c)] = "start" /\ label = "register",
         ClientInv(c)'
  PROVE  PipesInv'
<1>1. /\ alive' = alive /\ boxThere' = boxThere /\ stored' = stored
      /\ MAX_SESSIONS' = MAX_SESSIONS /\ req' = req /\ verdict' = verdict /\ sent' = sent
  BY DEF Others, boxVars, mainVars
<1>2. /\ acc'[Main] = acc[Main]
      /\ \A d \in Clients : /\ acc'[Thread(d)] = acc[Thread(d)]
                            /\ d # c => acc'[Client(d)] = acc[Client(d)]
  BY ProcessFacts DEF OnlyRead, PipesInv, RestTyped
<1>3. RestTyped'
  <2>1. Seq(Piece) \subseteq Seq(Clients \cup Piece)
    BY SeqOfUnion
  <2>2. acc' \in [Processes -> Seq(Clients \cup Piece)]
    BY <2>1, ProcessFacts DEF OnlyRead, PipesInv, RestTyped
  <2>3. acc'[Client(c)] \in Seq(Piece) /\ pc' = [q \in Processes |-> pc'[q]]
    BY DEF OnlyRead, ClientAt
  <2> QED BY <2>2, <2>3, <1>1, <1>2 DEF PipesInv, RestTyped
<1>4. Cause => Cause'
  BY <1>1 DEF Cause, MayKill, ClientAt, Over
<1>5. RegisterInv'
  BY <1>1, <1>2, <1>4, FifoFacts, RegisterFrame DEF PipesInv, OnlyPipe, ClientAt
<1>6. RequestServed'
  BY <1>1, <1>2, FifoFacts DEF PipesInv, RequestServed, ClientAt
<1>7. ASSUME NEW d \in Clients, d # c PROVE ClientInv(d)'
  <2>1. SamePipe(d)
    BY <1>7, FifoFacts DEF OnlyPipe, SamePipe
  <2>2. SameClient(d)
    BY <1>1, <1>2, <1>7 DEF SameClient, ClientAt, OthersLinked
  <2> QED BY <2>1, <2>2, <1>1, <1>4, ClientFrame DEF PipesInv, ClientAt
<1>8. OverrunKills \/ DeathHasCause'
  BY <1>1, <1>4 DEF PipesInv, DeathHasCause, Cause
<1> QED BY <1>3, <1>5, <1>6, <1>7, <1>8 DEF PipesInv

\* The same for the thread of a session.
LEMMA ThreadLocal ==
  ASSUME PipesInv, NEW c \in Clients, NEW label, ThreadAt(c, label), OnlyPipe(c), PipesTyped',
         OnlyRead(Thread(c)), OthersLinked(c),
         UNCHANGED <<alive, boxThere, mainVars>>, stored' \in Nat,
         sent' \in [Clients -> Nat \cup {-1}], \A d \in Clients : d # c => sent'[d] = sent[d],
         RequestServed', ClientInv(c)'
  PROVE  PipesInv'
<1>1. /\ alive' = alive /\ boxThere' = boxThere
      /\ MAX_SESSIONS' = MAX_SESSIONS /\ req' = req /\ verdict' = verdict
  BY DEF mainVars
<1>2. /\ acc'[Main] = acc[Main]
      /\ \A d \in Clients : /\ acc'[Client(d)] = acc[Client(d)]
                            /\ d # c => acc'[Thread(d)] = acc[Thread(d)]
  BY ProcessFacts DEF OnlyRead, PipesInv, RestTyped
<1>3. RestTyped'
  <2>1. Seq(Piece) \subseteq Seq(Clients \cup Piece)
    BY SeqOfUnion
  <2>2. acc' \in [Processes -> Seq(Clients \cup Piece)]
    BY <2>1, ProcessFacts DEF OnlyRead, PipesInv, RestTyped
  <2>3. acc'[Thread(c)] \in Seq(Piece) /\ pc' = [q \in Processes |-> pc'[q]]
    BY DEF OnlyRead, ThreadAt
  <2> QED BY <2>2, <2>3, <1>1, <1>2 DEF PipesInv, RestTyped
<1>4. Cause => Cause'
  BY <1>1 DEF Cause, MayKill, ThreadAt
<1>5. RegisterInv'
  BY <1>1, <1>2, <1>4, FifoFacts, RegisterFrame DEF PipesInv, OnlyPipe, ThreadAt
<1>6. ASSUME NEW d \in Clients, d # c PROVE ClientInv(d)'
  <2>1. SamePipe(d)
    BY <1>6, FifoFacts DEF OnlyPipe, SamePipe
  <2>2. SameClient(d)
    BY <1>1, <1>2, <1>6 DEF SameClient, ThreadAt, OthersLinked
  <2> QED BY <2>1, <2>2, <1>1, <1>4, ClientFrame DEF PipesInv, ThreadAt
<1>7. OverrunKills \/ DeathHasCause'
  BY <1>1, <1>4 DEF PipesInv, DeathHasCause, Cause
<1> QED BY <1>3, <1>5, <1>6, <1>7 DEF PipesInv

\* The same for Main, as it answers a client.
LEMMA MainLocal ==
  ASSUME PipesInv, NEW c \in Clients, req = c, NEW label, MainAt(label), OnlyPipe(c), PipesTyped',
         pc[Main] \notin {"wait", "receive", "received", "serve"},
         label \notin {"wait", "receive", "received", "serve"},
         acc' \in [Processes -> Seq(Clients \cup Piece)], acc'[Main] \in Seq(Clients),
         \A q \in Processes : q # Main => acc'[q] = acc[q],
         OthersLinked(c), UNCHANGED Others,
         RequestServed', ClientInv(c)'
  PROVE  PipesInv'
<1>1. /\ alive' = alive /\ boxThere' = boxThere /\ stored' = stored
      /\ MAX_SESSIONS' = MAX_SESSIONS /\ req' = req /\ verdict' = verdict /\ sent' = sent
  BY DEF Others, boxVars, mainVars
<1>2. \A d \in Clients : acc'[Client(d)] = acc[Client(d)] /\ acc'[Thread(d)] = acc[Thread(d)]
  BY ProcessFacts
<1>3. RestTyped'
  BY <1>1, <1>2 DEF PipesInv, RestTyped, MainAt
<1>4. Cause => Cause'
  BY <1>1 DEF Cause, MayKill, MainAt
<1>5. RegisterInv'
  <2>1. pipe'[Register] = pipe[Register]
    BY FifoFacts DEF OnlyPipe
  <2>2. RegisterEnds'
    <3>1. RegisterEnds /\ pc[Main] \notin MainReads /\ pc'[Main] \notin MainReads
      BY DEF PipesInv, RegisterInv, MainAt, MainReads
    <3>2. \A d \in Clients : pc'[Client(d)] = pc[Client(d)]
      BY DEF MainAt
    <3> QED BY <3>1, <3>2, <2>1, <1>1 DEF RegisterEnds
  <2>3. RequestsNew'
    <3>1. \A d \in Clients : NewRequest(d) => NewRequest(d)'
      BY <1>1 DEF NewRequest, HasSent, MainAt
    <3>2. \A i \in DOMAIN Waiting : Waiting[i] \in Clients
      BY DEF PipesInv, PipesTyped, Waiting
    <3>3. Waiting' = Waiting
      BY <2>1 DEF Waiting
    <3> QED BY <3>1, <3>2, <3>3 DEF PipesInv, RegisterInv, RequestsNew, MainAt
  <2>4. RequestComes'
    BY <2>1, <1>1 DEF PipesInv, RegisterInv, RequestComes, HasRequest, Waiting, MainAt
  <2> QED BY <2>2, <2>3, <2>4 DEF RegisterInv
<1>6. ASSUME NEW d \in Clients, d # c PROVE ClientInv(d)'
  <2>1. SamePipe(d)
    BY <1>6, FifoFacts DEF OnlyPipe, SamePipe
  <2>2. SameClient(d)
    BY <1>1, <1>2, <1>6 DEF SameClient, MainAt, OthersLinked
  <2>3. ~Addressed(d) /\ ~Addressed(d)'
    BY <1>1, <1>6 DEF Addressed
  <2> QED BY <2>1, <2>2, <2>3, <1>1, <1>4, ClientFrame DEF PipesInv
<1>7. OverrunKills \/ DeathHasCause'
  BY <1>1, <1>4 DEF PipesInv, DeathHasCause, Cause
<1> QED BY <1>3, <1>5, <1>6, <1>7 DEF PipesInv

\* exit() of a process that has a reason to.
LEMMA DiesStep ==
  ASSUME PipesInv, NEW p \in Processes, Dies(p),
         p \in Broker => OverrunKills \/ Cause,
         p \notin Broker => pc[p] \notin {"start", "done", "rejected"}
  PROVE  PipesInv'
<1>1. CASE p \in Broker /\ BrokerDies
  BY <1>1, BrokerDiesStep
<1>2. CASE \E c \in Clients : p = Client(c) /\ ClientEnds(c, "failed")
  BY <1>2, ProcessFacts, ClientEndsStep DEF Over
<1> QED BY <1>1, <1>2 DEF Dies

-----------------------------------------------------------------------------
(* Steps on the register FIFO.                                             *)

\* A client's request keeps the invariant if the register FIFO does.
LEMMA RequestLocal ==
  ASSUME PipesInv, NEW c \in Clients, NEW label, ClientAt(c, label), OnlyPipe(Register),
         PipesTyped', OnlyRead(Client(c)), linked' = linked, UNCHANGED Others,
         \/ pc[Client(c)] \in {"register", "register_wait", "request"}
              /\ label \in {"register_wait", "request", "requested"}
         \/ pc[Client(c)] = "requested" /\ label = "ask",
         RegisterInv'
  PROVE  PipesInv'
<1>1. /\ alive' = alive /\ boxThere' = boxThere /\ stored' = stored
      /\ MAX_SESSIONS' = MAX_SESSIONS /\ req' = req /\ verdict' = verdict /\ sent' = sent
  BY DEF Others, boxVars, mainVars
<1>2. /\ acc'[Main] = acc[Main]
      /\ \A d \in Clients : /\ acc'[Thread(d)] = acc[Thread(d)]
                            /\ d # c => acc'[Client(d)] = acc[Client(d)]
  BY ProcessFacts DEF OnlyRead, PipesInv, RestTyped
<1>3. RestTyped'
  <2>1. Seq(Piece) \subseteq Seq(Clients \cup Piece)
    BY SeqOfUnion
  <2>2. acc' \in [Processes -> Seq(Clients \cup Piece)]
    BY <2>1, ProcessFacts DEF OnlyRead, PipesInv, RestTyped
  <2>3. acc'[Client(c)] \in Seq(Piece) /\ pc' = [q \in Processes |-> pc'[q]]
    BY DEF OnlyRead, ClientAt
  <2> QED BY <2>2, <2>3, <1>1, <1>2 DEF PipesInv, RestTyped
<1>4. Cause => Cause'
  BY <1>1 DEF Cause, MayKill, ClientAt
<1>5. RequestServed'
  BY <1>1, <1>2, FifoFacts DEF PipesInv, RequestServed, ClientAt
<1>6. ASSUME NEW d \in Clients PROVE pipe'[d] = pipe[d]
  BY FifoFacts DEF OnlyPipe
<1>7. ASSUME NEW d \in Clients, d # c PROVE ClientInv(d)'
  <2>1. SamePipe(d)
    BY <1>6 DEF SamePipe
  <2>2. SameClient(d)
    BY <1>1, <1>2, <1>7 DEF SameClient, ClientAt
  <2> QED BY <2>1, <2>2, <1>1, <1>4, ClientFrame DEF PipesInv, ClientAt
<1>8. ClientInv(c)'
  <2>1. pc[Client(c)] \in PreAnswer /\ label \in PreAnswer
        /\ label # "ask_wait" /\ label # "start" /\ pc[Client(c)] # "start"
        /\ pc'[Client(c)] = label /\ pc'[Main] = pc[Main] /\ pc'[Thread(c)] = pc[Thread(c)]
    BY DEF PreAnswer, ClientAt
  <2>2. label \notin InSession \cup Receiving \cup Publishing \cup Over
                      \cup {"answer", "answered", "leave", "done", "give_up", "rejected"}
    BY DEF InSession, Receiving, Publishing, Over
  <2>3. pc[Client(c)] \notin Receiving \cup Publishing
    BY DEF Receiving, Publishing
  <2>4. HasSent(c) => HasSent(c)' /\ pc[Client(c)] \in {"requested", "ask"}
    BY <2>1 DEF HasSent
  <2>5. pipe'[c] = pipe[c] /\ ClientInv(c)
    BY <1>6 DEF PipesInv
  <2>6. Labelled(c)' /\ NameKept(c)' /\ Decisions(c)'
    BY <2>1, <2>2, <2>5, <1>1 DEF ClientInv, Labelled, NameKept, Decisions, InSession
  <2>7. FifoEnds(c)'
    BY <2>1, <2>2, <2>3, <2>5, <1>1 DEF ClientInv, FifoEnds
  <2>8. Silent(c)'
    BY <2>1, <2>4, <2>5, <1>1 DEF ClientInv, Silent, Unheard, SubSession
  <2>9. AnswerAwaited(c)'
    BY <2>1, <2>5, <1>1, <1>4 DEF ClientInv, AnswerAwaited, SubSession
  <2>10. RefusalComes(c)'
    BY <2>1, <2>2, <2>4, <2>5, <1>1 DEF ClientInv, Silent, RefusalComes, Seeing
  <2>11. GrantComes(c)'
    BY <2>1, <2>2, <2>5, <1>1 DEF ClientInv, GrantComes, Seeing
  <2> QED BY <2>6, <2>7, <2>8, <2>9, <2>10, <2>11 DEF ClientInv
<1>9. OverrunKills \/ DeathHasCause'
  BY <1>1, <1>4 DEF PipesInv, DeathHasCause, Cause
<1> QED BY <1>3, <1>5, <1>7, <1>8, <1>9 DEF PipesInv

\* So does what Main reads from it.
LEMMA ReceiveLocal ==
  ASSUME PipesInv, NEW label, MainAt(label), OnlyPipe(Register), PipesTyped',
         pc[Main] \in MainReads \cup {"open"}, label \in MainReads \cup {"serve"},
         label = "wait" => acc'[Main] = <<>>,
         acc' \in [Processes -> Seq(Clients \cup Piece)], acc'[Main] \in Seq(Clients),
         \A q \in Processes : q # Main => acc'[q] = acc[q],
         linked' = linked, UNCHANGED Others,
         RegisterInv'
  PROVE  PipesInv'
<1>1. /\ alive' = alive /\ boxThere' = boxThere /\ stored' = stored
      /\ MAX_SESSIONS' = MAX_SESSIONS /\ req' = req /\ verdict' = verdict /\ sent' = sent
  BY DEF Others, boxVars, mainVars
<1>2. \A d \in Clients : acc'[Client(d)] = acc[Client(d)] /\ acc'[Thread(d)] = acc[Thread(d)]
  BY ProcessFacts
<1>3. RestTyped'
  BY <1>1, <1>2 DEF PipesInv, RestTyped, MainAt
<1>4. Cause => Cause'
  BY <1>1 DEF Cause, MayKill, MainAt
<1>5. pc[Main] \notin MainWrites \cup {"respond"} /\ label \notin MainWrites \cup {"respond"}
  BY DEF MainReads, MainWrites
<1>6. RequestServed'
  BY <1>5 DEF RequestServed, MainAt
<1>7. ASSUME NEW d \in Clients PROVE ClientInv(d)'
  <2>1. SamePipe(d)
    BY FifoFacts DEF OnlyPipe, SamePipe
  <2>2. SameClient(d)
    BY <1>1, <1>2 DEF SameClient, MainAt
  <2>3. ~Addressed(d) /\ ~Addressed(d)'
    BY <1>5 DEF Addressed, MainAt
  <2> QED BY <2>1, <2>2, <2>3, <1>1, <1>4, ClientFrame DEF PipesInv
<1>8. OverrunKills \/ DeathHasCause'
  BY <1>1, <1>4 DEF PipesInv, DeathHasCause, Cause
<1> QED BY <1>3, <1>6, <1>7, <1>8 DEF PipesInv

\* The requests stay new while nobody sends or serves one.
LEMMA RequestsKept ==
  ASSUME PipesTyped, RestTyped, RequestsNew, Waiting' = Waiting, verdict' = verdict,
         \A d \in Clients : HasSent(d) => HasSent(d)',
         \/ pc'[Main] = pc[Main] /\ acc'[Main] = acc[Main]
         \/ pc'[Main] \notin {"receive", "received", "serve"}
         \/ pc'[Main] \in {"receive", "received", "serve"} /\ acc'[Main] = acc[Main]
              /\ pc[Main] \in {"receive", "received", "serve"}
         \/ acc'[Main] = <<>>
  PROVE  RequestsNew'
<1>1. \A d \in Clients : NewRequest(d) => NewRequest(d)'
  BY DEF NewRequest
<1>2. /\ \A i \in DOMAIN Waiting : Waiting[i] \in Clients
      /\ \A i \in DOMAIN acc[Main] : acc[Main][i] \in Clients
  BY DEF PipesTyped, RestTyped, Waiting
<1>3. pc'[Main] \in {"receive", "received", "serve"} =>
        \A i \in DOMAIN acc'[Main] :
          NewRequest(acc[Main][i])' /\ \A j \in DOMAIN Waiting : acc'[Main][i] # Waiting[j]
  BY <1>1, <1>2 DEF RequestsNew
<1> QED BY <1>1, <1>2, <1>3 DEF RequestsNew

\* open() of the register FIFO, write() and close(), by a client.
LEMMA OpenRegisterStep ==
  ASSUME PipesInv, NEW c \in Clients,
         BeginOpen(Client(c), Register, "writers", "register", "register_wait")
  PROVE  PipesInv'
<1>1. pc[Client(c)] = "register" /\ Client(c) \in Processes /\ Client(c) \notin Broker
  BY ProcessFacts DEF BeginOpen
<1>2. CASE Dies(Client(c))
  BY <1>1, <1>2, DiesStep
<1>3. CASE /\ OpenEnd(Client(c), Register, "writers") /\ Goto(Client(c), "register_wait")
           /\ acc' = [acc EXCEPT ![Client(c)] = <<>>] /\ UNCHANGED <<linked, Others>>
  <2>1. ClientAt(c, "register_wait")
    BY <1>3, GotoSeen DEF PipesInv
  <2>2. /\ PipesTyped' /\ OnlyPipe(Register)
        /\ pipe'[Register].readers = pipe[Register].readers
        /\ pipe'[Register].writers = pipe[Register].writers \cup {Client(c)}
        /\ pipe'[Register].data = pipe[Register].data
        /\ pipe'[Register].met = IF pipe[Register].readers = {} THEN pipe[Register].met
                   ELSE pipe[Register].met \cup pipe[Register].readers \cup {Client(c)}
    BY <1>1, <1>3, OpenEffect, FifoFacts DEF PipesInv
  <2>3. OnlyRead(Client(c)) /\ acc'[Main] = acc[Main]
    BY <1>1, <1>3, EmptySeq, ProcessFacts DEF OnlyRead, PipesInv, RestTyped
  <2>4. alive' = alive /\ verdict' = verdict
    BY <1>3 DEF Others, mainVars
  <2>5. RegisterEnds'
    <3>1. \A d \in Clients : pc'[Client(d)] \in Requesting
                               <=> d = c \/ pc[Client(d)] \in Requesting
      BY <2>1 DEF ClientAt, Requesting
    <3> QED BY <3>1, <2>1, <2>2, <2>4, ProcessFacts
            DEF PipesInv, RegisterInv, RegisterEnds, ClientAt
  <2>6. RequestsNew'
    <3>1. \A d \in Clients : HasSent(d) => HasSent(d)'
      BY <1>1, <2>1 DEF HasSent, ClientAt
    <3> QED BY <3>1, <2>1, <2>2, <2>3, <2>4, RequestsKept
            DEF PipesInv, RegisterInv, ClientAt, Waiting
  <2>7. RequestComes'
    <3>1. HasRequest' <=> HasRequest
      BY <2>1, <2>2, <2>3 DEF HasRequest, Waiting, ClientAt
    <3>2. Cause => Cause'
      BY <1>1, <2>1, <2>4 DEF Cause, MayKill, ClientAt
    <3> QED BY <3>1, <3>2, <2>1, <2>2, <2>3, <2>4
            DEF PipesInv, RegisterInv, RequestComes, ClientAt
  <2> QED BY <1>1, <1>3, <2>1, <2>2, <2>3, <2>5, <2>6, <2>7, RequestLocal DEF RegisterInv
<1> QED BY <1>2, <1>3 DEF BeginOpen

LEMMA RegisterOpenedStep ==
  ASSUME PipesInv, NEW c \in Clients, EndOpen(Client(c), Register, "register_wait", "request")
  PROVE  PipesInv'
<1>1. pc[Client(c)] = "register_wait" /\ UNCHANGED <<pipeVars, acc, Others>>
  BY DEF EndOpen
<1>2. ClientAt(c, "request")
  BY GotoSeen DEF PipesInv, EndOpen
<1>3. /\ pipe' = pipe /\ linked' = linked /\ acc' = acc /\ alive' = alive /\ verdict' = verdict
      /\ OnlyPipe(Register) /\ OnlyRead(Client(c)) /\ PipesTyped'
  BY <1>1, ProcessFacts
  DEF pipeVars, Others, mainVars, OnlyPipe, OnlyRead, PipesInv, RestTyped, PipesTyped
<1>4. RegisterEnds'
  <2>1. \A d \in Clients : pc'[Client(d)] \in Requesting <=> pc[Client(d)] \in Requesting
    BY <1>1, <1>2 DEF ClientAt, Requesting
  <2> QED BY <2>1, <1>2, <1>3, ProcessFacts DEF PipesInv, RegisterInv, RegisterEnds, ClientAt
<1>5. RequestsNew'
  <2>1. \A d \in Clients : HasSent(d) => HasSent(d)'
    BY <1>1, <1>2 DEF HasSent, ClientAt
  <2> QED BY <2>1, <1>2, <1>3, RequestsKept DEF PipesInv, RegisterInv, ClientAt, Waiting
<1>6. RequestComes'
  <2>1. HasRequest' <=> HasRequest
    BY <1>2, <1>3 DEF HasRequest, Waiting, ClientAt
  <2>2. Cause => Cause'
    BY <1>1, <1>2, <1>3 DEF Cause, MayKill, ClientAt
  <2> QED BY <1>1, <2>1, <2>2, <1>2, <1>3 DEF PipesInv, RegisterInv, RequestComes, ClientAt
<1> QED BY <1>1, <1>2, <1>3, <1>4, <1>5, <1>6, RequestLocal DEF RegisterInv

LEMMA SendRequestStep ==
  ASSUME PipesInv, NEW c \in Clients,
         Send(Client(c), Register, <<c>>, "request", "requested")
  PROVE  PipesInv'
<1>1. pc[Client(c)] = "request" /\ Client(c) \in Processes /\ Client(c) \notin Broker
  BY ProcessFacts DEF Send
<1>2. CASE Dies(Client(c))
  BY <1>1, <1>2, DiesStep
<1>3. CASE Put(Register, <<c>>) /\ Goto(Client(c), "requested") /\ UNCHANGED <<linked, acc, Others>>
  <2>1. ClientAt(c, "requested")
    BY <1>3, GotoSeen DEF PipesInv
  <2>2. <<c>> \in Seq(Clients)
    OBVIOUS
  <2>3. PipesTyped' /\ OnlyData(Register) /\ Waiting' = Waiting \o <<c>>
    BY <1>3, <2>2, PutEffect, FifoFacts DEF PipesInv, Waiting
  <2>4. OnlyRead(Client(c)) /\ acc' = acc
    BY <1>1, <1>3, ProcessFacts DEF OnlyRead, PipesInv, RestTyped
  <2>5. alive' = alive /\ verdict' = verdict /\ linked' = linked
    BY <1>3 DEF Others, mainVars
  <2>6. RegisterEnds'
    <3>1. \A d \in Clients : pc'[Client(d)] \in Requesting <=> pc[Client(d)] \in Requesting
      BY <1>1, <2>1 DEF ClientAt, Requesting
    <3> QED BY <3>1, <2>1, <2>3, <2>5, ProcessFacts
            DEF PipesInv, RegisterInv, RegisterEnds, ClientAt, OnlyData
  <2>7. RequestsNew'
    <3> DEFINE n == Len(Waiting)
    <3>1. Waiting \in Seq(Clients) /\ n \in Nat /\ DOMAIN Waiting = 1 .. n
      BY DEF PipesInv, PipesTyped, Waiting
    <3>2. /\ DOMAIN Waiting' = 1 .. n + 1
          /\ \A i \in 1 .. n : Waiting'[i] = Waiting[i]
          /\ Waiting'[n + 1] = c
      BY <2>3, <3>1
    <3>3. \A d \in Clients : NewRequest(d) => NewRequest(d)' /\ d # c
      BY <1>1, <2>1, <2>5 DEF NewRequest, HasSent, ClientAt
    <3>4. NewRequest(c)'
      BY <1>1, <2>1, <2>5 DEF NewRequest, HasSent, ClientAt, PipesInv, ClientInv, Silent
    <3>5. /\ \A i \in 1 .. n : Waiting[i] \in Clients /\ NewRequest(Waiting[i])
          /\ \A i, j \in 1 .. n : Waiting[i] = Waiting[j] => i = j
      BY <3>1 DEF PipesInv, RegisterInv, RequestsNew
    <3>6. pc[Main] \in {"receive", "received", "serve"} =>
            \A i \in DOMAIN acc[Main] :
               /\ acc[Main][i] \in Clients /\ NewRequest(acc[Main][i])
               /\ \A j \in 1 .. n : acc[Main][i] # Waiting[j]
      BY <3>1 DEF PipesInv, RegisterInv, RequestsNew, RestTyped
    <3> HIDE DEF n
    <3>7. \A i \in DOMAIN Waiting' : i \in 1 .. n \/ i = n + 1
      BY <3>1, <3>2
    <3>8. \A i \in DOMAIN Waiting' : NewRequest(Waiting[i])'
      BY <3>2, <3>3, <3>4, <3>5, <3>7
    <3>9. \A i, j \in DOMAIN Waiting' : Waiting'[i] = Waiting'[j] => i = j
      BY <3>2, <3>3, <3>5, <3>7
    <3>10. pc'[Main] \in {"receive", "received", "serve"} =>
             \A i \in DOMAIN acc'[Main] :
               NewRequest(acc[Main][i])' /\ \A j \in DOMAIN Waiting' : acc'[Main][i] # Waiting'[j]
      BY <3>2, <3>3, <3>6, <3>7, <2>1, <2>4 DEF ClientAt
    <3> QED BY <3>8, <3>9, <3>10 DEF RequestsNew
  <2>8. RequestComes'
    <3>1. HasRequest'
      <4>1. Waiting' # <<>>
        BY <2>3 DEF PipesInv, PipesTyped, Waiting
      <4> QED BY <4>1 DEF HasRequest
    <3>2. Cause => Cause'
      BY <1>1, <2>1, <2>5 DEF Cause, MayKill, ClientAt
    <3> QED BY <3>1, <3>2, <2>1, <2>4, <2>5
            DEF PipesInv, RegisterInv, RequestComes, ClientAt
  <2> QED BY <1>1, <1>3, <2>1, <2>3, <2>4, <2>5, <2>6, <2>7, <2>8, RequestLocal
          DEF RegisterInv, OnlyData
<1> QED BY <1>2, <1>3 DEF Send

LEMMA CloseRegisterStep ==
  ASSUME PipesInv, NEW c \in Clients, CloseEnd(Client(c), Register, "requested", "ask")
  PROVE  PipesInv'
<1>1. /\ pc[Client(c)] = "requested" /\ Close(Client(c), Register)
      /\ UNCHANGED <<linked, acc, Others>> /\ Client(c) \in Processes
  BY ProcessFacts DEF CloseEnd
<1>2. ClientAt(c, "ask")
  BY GotoSeen DEF PipesInv, CloseEnd
<1>3. PipesTyped' /\ OnlyPipe(Register) /\ Closed(Register, {Client(c)})
  BY <1>1, CloseEffect, FifoFacts DEF PipesInv
<1>4. /\ linked' = linked /\ acc' = acc /\ alive' = alive /\ verdict' = verdict
      /\ OnlyRead(Client(c))
  BY <1>1, ProcessFacts DEF Others, mainVars, OnlyRead, PipesInv, RestTyped
<1>5. RegisterEnds'
  <2>1. \A d \in Clients : pc'[Client(d)] \in Requesting <=> d # c /\ pc[Client(d)] \in Requesting
    BY <1>1, <1>2 DEF ClientAt, Requesting
  <2> QED BY <2>1, <1>2, <1>3, <1>4, ProcessFacts
          DEF PipesInv, RegisterInv, RegisterEnds, ClientAt, Closed
<1>6. Waiting' = Waiting \/ (Waiting' = <<>> /\ pipe'[Register].readers \cup pipe'[Register].writers = {})
  BY <1>3 DEF Closed, Waiting
<1>7. /\ \A d \in Clients : pc'[Client(d)] = "requested" => Waiting' = Waiting
      /\ alive /\ pc[Main] \in MainReads => Waiting' = Waiting
  BY <1>2, <1>4, <1>5, <1>6, ProcessFacts DEF RegisterEnds, Requesting, ClientAt
<1>8. RequestsNew'
  <2>1. \A d \in Clients : NewRequest(d) => NewRequest(d)'
    BY <1>1, <1>2, <1>4 DEF NewRequest, HasSent, ClientAt
  <2>2. /\ \A i \in DOMAIN Waiting : Waiting[i] \in Clients
        /\ \A i \in DOMAIN acc[Main] : acc[Main][i] \in Clients
    BY DEF PipesInv, PipesTyped, RestTyped, Waiting
  <2> QED BY <2>1, <2>2, <1>2, <1>4, <1>6 DEF PipesInv, RegisterInv, RequestsNew, ClientAt
<1>9. RequestComes'
  <2>1. Cause => Cause'
    BY <1>1, <1>2, <1>4 DEF Cause, MayKill, ClientAt
  <2>2. HasRequest
    BY <1>1 DEF PipesInv, RegisterInv, RequestComes
  <2>3. \A d \in Clients : pc'[Client(d)] = "requested" => HasRequest'
    BY <1>2, <1>4, <1>7, <2>2 DEF HasRequest, ClientAt
  <2>4. alive /\ pc[Main] \in {"wait", "receive"} => HasRequest'
    BY <1>2, <1>4, <1>7, <2>2 DEF HasRequest, ClientAt, MainReads
  <2> QED BY <2>1, <2>3, <2>4, <1>2, <1>4 DEF PipesInv, RegisterInv, RequestComes, ClientAt
<1> QED BY <1>1, <1>2, <1>3, <1>4, <1>5, <1>8, <1>9, RequestLocal DEF RegisterInv

-----------------------------------------------------------------------------
(* The steps of a client.                                                  *)

\* What no step of a client changes.
LEMMA ClientKeeps ==
  ASSUME PipesInv, NEW c \in Clients, UNCHANGED Others
  PROVE  /\ alive' = alive /\ boxThere' = boxThere /\ stored' = stored
         /\ MAX_SESSIONS' = MAX_SESSIONS /\ req' = req /\ verdict' = verdict /\ sent' = sent
         /\ linked' = linked => OthersLinked(c)
         /\ acc' = acc => OnlyRead(Client(c)) /\ OnlyRead(Thread(c))
         /\ pipe' = pipe /\ linked' = linked => PipesTyped' /\ OnlyPipe(c)
BY ProcessFacts
DEF Others, boxVars, mainVars, OthersLinked, OnlyRead, OnlyPipe, PipesInv, RestTyped, PipesTyped

\* mkfifo().
LEMMA MakeFifoStep ==
  ASSUME PipesInv, NEW c \in Clients, MakeFifo(c)
  PROVE  PipesInv'
<1>1. /\ pc[Client(c)] = "start" /\ linked' = linked \cup {c} /\ pipe' = pipe /\ acc' = acc
      /\ UNCHANGED Others
  BY DEF MakeFifo
<1>2. ClientAt(c, "register")
  BY GotoSeen DEF PipesInv, MakeFifo
<1>3. /\ alive' = alive /\ req' = req /\ verdict' = verdict /\ sent' = sent
      /\ OnlyRead(Client(c))
  BY <1>1, ClientKeeps
<1>4. PipesTyped' /\ OnlyPipe(c) /\ OthersLinked(c)
  BY <1>1, FifoFacts DEF PipesInv, PipesTyped, OnlyPipe, OthersLinked
<1>5. /\ pc'[Client(c)] = "register" /\ pc'[Thread(c)] = pc[Thread(c)] /\ pc'[Main] = pc[Main]
      /\ c \in linked'
  BY <1>1, <1>2 DEF ClientAt
<1>6. ClientInv(c)
  BY DEF PipesInv
<1>7. ClientInv(c)'
  <2>1. FifoEnds(c)'
    BY <1>1, <1>3, <1>5, <1>6 DEF ClientInv, FifoEnds, Receiving, Publishing
  <2>2. Cause => Cause'
    BY <1>1, <1>2, <1>3 DEF Cause, MayKill, ClientAt
  <2>3. Labelled(c)' /\ NameKept(c)' /\ Decisions(c)'
    BY <1>1, <1>3, <1>5, <1>6
    DEF ClientInv, Labelled, NameKept, Decisions, PreAnswer, InSession, Publishing
  <2>4. Silent(c)' /\ AnswerAwaited(c)'
    BY <1>1, <1>3, <1>5, <1>6, <2>2
    DEF ClientInv, Silent, AnswerAwaited, Unheard, SubSession, HasSent, PreAnswer
  <2>5. RefusalComes(c)' /\ GrantComes(c)'
    BY <1>1, <1>3, <1>5, <1>6
    DEF ClientInv, RefusalComes, GrantComes, Seeing, PreAnswer
  <2> QED BY <2>1, <2>3, <2>4, <2>5 DEF ClientInv
<1> QED BY <1>1, <1>2, <1>3, <1>4, <1>7, ClientLocal DEF Over

\* open() of its own FIFO, for the answer.
LEMMA OpenAnswerStep ==
  ASSUME PipesInv, NEW c \in Clients, BeginOpen(Client(c), c, "readers", "ask", "ask_wait")
  PROVE  PipesInv'
<1>1. pc[Client(c)] = "ask" /\ Client(c) \in Processes /\ Client(c) \notin Broker /\ c \in Fifos
  BY ProcessFacts, FifoFacts DEF BeginOpen
<1>2. CASE Dies(Client(c))
  BY <1>1, <1>2, DiesStep
<1>3. CASE /\ OpenEnd(Client(c), c, "readers") /\ Goto(Client(c), "ask_wait")
           /\ acc' = [acc EXCEPT ![Client(c)] = <<>>] /\ UNCHANGED <<linked, Others>>
  <2>1. ClientAt(c, "ask_wait")
    BY <1>3, GotoSeen DEF PipesInv
  <2>2. /\ PipesTyped' /\ OnlyPipe(c)
        /\ pipe'[c].readers = pipe[c].readers \cup {Client(c)}
        /\ pipe'[c].writers = pipe[c].writers
        /\ pipe'[c].data = pipe[c].data
        /\ pipe'[c].met = IF pipe[c].writers = {} THEN pipe[c].met
                          ELSE pipe[c].met \cup pipe[c].writers \cup {Client(c)}
    BY <1>1, <1>3, OpenEffect DEF PipesInv
  <2>3. OnlyRead(Client(c)) /\ acc'[Client(c)] = <<>>
    BY <1>1, <1>3, EmptySeq DEF OnlyRead, PipesInv, RestTyped
  <2>4. /\ alive' = alive /\ req' = req /\ verdict' = verdict /\ sent' = sent
        /\ OthersLinked(c) /\ linked' = linked
    BY <1>3, ClientKeeps
  <2>5. /\ pc'[Client(c)] = "ask_wait" /\ pc'[Thread(c)] = pc[Thread(c)] /\ pc'[Main] = pc[Main]
    BY <2>1 DEF ClientAt
  <2>6. ClientInv(c)
    BY DEF PipesInv
  <2>7. ClientInv(c)'
    <3>1. FifoEnds(c)'
      BY <1>1, <2>2, <2>4, <2>5, <2>6, ProcessFacts DEF ClientInv, FifoEnds, Receiving, Publishing
    <3>2. Unheard(c) => pipe[c].writers = {}
      <4>1. Unheard(c) => pc[Thread(c)] = "none" \/ c \notin Subs
        BY <2>6 DEF ClientInv, Labelled, Unheard, SubSession
      <4>2. Unheard(c) => ~(req = c /\ pc[Main] \in MainWrites)
        BY DEF Unheard, PipesInv, RequestServed, MainWrites
      <4>3. \A q \in pipe[c].writers : q \in Processes
        BY <1>1 DEF PipesInv, PipesTyped, PipeType
      <4>4. ASSUME Unheard(c), NEW q \in pipe[c].writers PROVE FALSE
        <5>1. \/ q = Main /\ req = c /\ pc[Main] \in MainWrites
              \/ q = Client(c) /\ pc[Client(c)] \in Publishing
              \/ q = Thread(c) /\ c \in Subs /\ pc[Thread(c)] \in Following
          BY <2>6, <4>3 DEF ClientInv, FifoEnds
        <5> QED BY <5>1, <1>1, <4>1, <4>2, <4>4 DEF Publishing, Following
      <4> QED BY <4>4
    <3>3. Labelled(c)' /\ NameKept(c)' /\ Decisions(c)'
      BY <1>1, <2>3, <2>4, <2>5, <2>6
      DEF ClientInv, Labelled, NameKept, Decisions, PreAnswer, InSession, Publishing
    <3>4. Silent(c)' /\ AnswerAwaited(c)'
      BY <1>1, <2>2, <2>4, <2>5, <2>6, <3>2
      DEF ClientInv, Silent, AnswerAwaited, Unheard, SubSession, HasSent, PreAnswer
    <3>5. RefusalComes(c)' /\ GrantComes(c)'
      BY <1>1, <2>2, <2>3, <2>4, <2>5, <2>6
      DEF ClientInv, RefusalComes, GrantComes, Seeing, PreAnswer
    <3> QED BY <3>1, <3>3, <3>4, <3>5 DEF ClientInv
  <2> QED BY <1>1, <1>3, <2>1, <2>2, <2>3, <2>4, <2>5, <2>7, ClientLocal DEF Over, HasSent
<1> QED BY <1>2, <1>3 DEF BeginOpen

\* The opening returns.
LEMMA AnswerOpenedStep ==
  ASSUME PipesInv, NEW c \in Clients, EndOpen(Client(c), c, "ask_wait", "answer")
  PROVE  PipesInv'
<1>1. /\ pc[Client(c)] = "ask_wait" /\ Client(c) \in pipe[c].met
      /\ pipe' = pipe /\ linked' = linked /\ acc' = acc /\ UNCHANGED Others
  BY DEF EndOpen, Opened, pipeVars
<1>2. ClientAt(c, "answer")
  BY GotoSeen DEF PipesInv, EndOpen
<1>3. /\ alive' = alive /\ req' = req /\ verdict' = verdict /\ sent' = sent
      /\ OthersLinked(c) /\ OnlyRead(Client(c)) /\ PipesTyped' /\ OnlyPipe(c)
  BY <1>1, ClientKeeps
<1>4. pc'[Client(c)] = "answer" /\ pc'[Thread(c)] = pc[Thread(c)] /\ pc'[Main] = pc[Main]
  BY <1>2 DEF ClientAt
<1>5. ClientInv(c) /\ ~Unheard(c)
  BY <1>1 DEF PipesInv, ClientInv, Silent
<1>6. ClientInv(c)'
  <2>1. FifoEnds(c)'
    BY <1>1, <1>3, <1>4, <1>5 DEF ClientInv, FifoEnds, Receiving, Publishing
  <2>2. Labelled(c)' /\ NameKept(c)' /\ Decisions(c)'
    BY <1>1, <1>3, <1>4, <1>5
    DEF ClientInv, Labelled, NameKept, Decisions, PreAnswer, InSession, Publishing
  <2>3. Cause => Cause'
    BY <1>1, <1>2, <1>3 DEF Cause, MayKill, ClientAt
  <2>4. Silent(c)' /\ AnswerAwaited(c)'
    BY <1>1, <1>3, <1>4, <1>5, <2>3
    DEF ClientInv, Silent, AnswerAwaited, Unheard, SubSession, HasSent, PreAnswer
  <2>5. RefusalComes(c)' /\ GrantComes(c)'
    BY <1>1, <1>3, <1>4, <1>5 DEF ClientInv, RefusalComes, GrantComes, Seeing, PreAnswer
  <2> QED BY <2>1, <2>2, <2>4, <2>5 DEF ClientInv
<1> QED BY <1>1, <1>2, <1>3, <1>4, <1>6, ClientLocal DEF Over, HasSent

\* What read() leaves of the sequences it moves a piece between.
LEMMA MovedPiece ==
  ASSUME NEW S, NEW got \in Seq(S), NEW data \in Seq(S), data # <<>>
  PROVE  /\ Append(got, Head(data)) \in Seq(S) /\ Append(got, Head(data)) # <<>>
         /\ Head(Append(got, Head(data))) = IF got = <<>> THEN Head(data) ELSE Head(got)
         /\ \A T : (\A i \in DOMAIN data : data[i] \in T) =>
              /\ \A i \in DOMAIN Tail(data) : Tail(data)[i] \in T
              /\ (\A i \in DOMAIN got : got[i] \in T) =>
                   \A i \in DOMAIN Append(got, Head(data)) : Append(got, Head(data))[i] \in T
<1>1. /\ Head(data) \in S /\ Head(data) = data[1] /\ 1 \in DOMAIN data
      /\ Tail(data) \in Seq(S)
      /\ \A i \in DOMAIN Tail(data) : i + 1 \in DOMAIN data /\ Tail(data)[i] = data[i + 1]
  OBVIOUS
<1> DEFINE more == Append(got, Head(data))
<1>2. /\ more \in Seq(S) /\ more # <<>>
      /\ \A i \in DOMAIN more : \/ i \in DOMAIN got /\ more[i] = got[i]
                                \/ more[i] = Head(data)
  BY <1>1
<1>3. Head(more) = IF got = <<>> THEN Head(data) ELSE Head(got)
  BY <1>1
<1> HIDE DEF more
<1>4. ASSUME NEW T, \A i \in DOMAIN data : data[i] \in T
      PROVE  /\ \A i \in DOMAIN Tail(data) : Tail(data)[i] \in T
             /\ (\A i \in DOMAIN got : got[i] \in T) => \A i \in DOMAIN more : more[i] \in T
  BY <1>1, <1>2, <1>4
<1> QED BY <1>2, <1>3, <1>4 DEF more

\* read() of an answer.
LEMMA ReadAnswerStep ==
  ASSUME PipesInv, NEW c \in Clients, Read(Client(c), c, "answer")
  PROVE  PipesInv'
<1>1. pc[Client(c)] = "answer" /\ Client(c) \in Processes /\ Client(c) \notin Broker
      /\ c \in Fifos /\ HasData(c)
  BY ProcessFacts, FifoFacts DEF Read
<1>2. CASE Dies(Client(c))
  BY <1>1, <1>2, DiesStep
<1>3. CASE /\ Take(c) /\ UNCHANGED <<linked, pc, Others>>
           /\ acc' = [acc EXCEPT ![Client(c)] = Append(@, Head(pipe[c].data))]
  <2>1. ClientAt(c, "answer")
    BY <1>1, <1>3, ProcessFacts DEF ClientAt, PipesInv, RestTyped
  <2>2. PipesTyped' /\ OnlyData(c) /\ pipe'[c].data = Tail(pipe[c].data) /\ OnlyPipe(c)
    BY <1>1, <1>3, TakeEffect DEF PipesInv, OnlyData
  <2>3. /\ pipe[c].data \in Seq(Piece) /\ pipe[c].data # <<>> /\ acc[Client(c)] \in Seq(Piece)
        /\ acc'[Client(c)] = Append(acc[Client(c)], Head(pipe[c].data))
    BY <1>1, <1>3 DEF PipesInv, PipesTyped, RestTyped, HasData
  <2>4. /\ acc'[Client(c)] \in Seq(Piece) /\ acc'[Client(c)] # <<>>
        /\ Head(acc'[Client(c)]) = IF acc[Client(c)] = <<>> THEN Head(pipe[c].data)
                                   ELSE Head(acc[Client(c)])
    BY <2>3, MovedPiece
  <2>5. OnlyRead(Client(c))
    BY <1>3, <2>4, <1>1 DEF OnlyRead, PipesInv, RestTyped
  <2>6. /\ alive' = alive /\ req' = req /\ verdict' = verdict /\ sent' = sent
        /\ OthersLinked(c) /\ linked' = linked /\ pc' = pc
    BY <1>3, ClientKeeps
  <2>7. ClientInv(c)
    BY DEF PipesInv
  <2>8. ClientInv(c)'
    <3>1. FifoEnds(c)'
      BY <2>2, <2>6, <2>7 DEF ClientInv, FifoEnds, OnlyData
    <3>2. Labelled(c)' /\ NameKept(c)' /\ Decisions(c)'
      BY <1>1, <2>6, <2>7
      DEF ClientInv, Labelled, NameKept, Decisions
    <3>3. Silent(c)' /\ AnswerAwaited(c)'
      BY <1>1, <2>2, <2>6, <2>7
      DEF ClientInv, Silent, AnswerAwaited, Unheard, SubSession, HasSent, PreAnswer, Over,
          OnlyData, Cause, MayKill
    <3>4. RefusalComes(c)'
      BY <1>1, <2>3, <2>4, <2>6, <2>7 DEF ClientInv, RefusalComes, Seeing
    <3>5. GrantComes(c)'
      BY <1>1, <2>2, <2>3, <2>6, <2>7, MovedPiece
      DEF ClientInv, GrantComes, Seeing
    <3> QED BY <3>1, <3>2, <3>3, <3>4, <3>5 DEF ClientInv
  <2> QED BY <1>1, <1>3, <2>1, <2>2, <2>5, <2>6, <2>8, ClientLocal DEF Over, HasSent
<1> QED BY <1>2, <1>3 DEF Read

\* The end of an answer.
LEMMA AnswerEndStep ==
  ASSUME PipesInv, NEW c \in Clients, ReadEnd(Client(c), c, "answer", "answered")
  PROVE  PipesInv'
<1>1. /\ pc[Client(c)] = "answer" /\ pipe[c].data = <<>> /\ pipe[c].writers = {}
      /\ pipe' = pipe /\ linked' = linked /\ acc' = acc /\ UNCHANGED Others
  BY DEF ReadEnd, AtEnd, pipeVars
<1>2. ClientAt(c, "answered")
  BY GotoSeen DEF PipesInv, ReadEnd
<1>3. /\ alive' = alive /\ req' = req /\ verdict' = verdict /\ sent' = sent
      /\ OthersLinked(c) /\ OnlyRead(Client(c)) /\ PipesTyped' /\ OnlyPipe(c)
  BY <1>1, ClientKeeps
<1>4. pc'[Client(c)] = "answered" /\ pc'[Thread(c)] = pc[Thread(c)] /\ pc'[Main] = pc[Main]
  BY <1>2 DEF ClientAt
<1>5. ClientInv(c) /\ ~Unheard(c)
  BY <1>1 DEF PipesInv, ClientInv, Silent, PreAnswer, Over
<1>6. ~(alive /\ req = c /\ pc[Main] \in MainWrites)
  BY <1>1, <1>5, ProcessFacts DEF ClientInv, FifoEnds
<1>7. ClientInv(c)'
  <2>1. FifoEnds(c)'
    BY <1>1, <1>3, <1>4, <1>5 DEF ClientInv, FifoEnds, Receiving, Publishing
  <2>2. Labelled(c)' /\ NameKept(c)' /\ Decisions(c)'
    BY <1>1, <1>3, <1>4, <1>5
    DEF ClientInv, Labelled, NameKept, Decisions, PreAnswer, InSession, Publishing
  <2>3. Silent(c)' /\ AnswerAwaited(c)'
    BY <1>1, <1>3, <1>4, <1>5, <1>6
    DEF ClientInv, Silent, AnswerAwaited, Unheard, SubSession, HasSent
  <2>4. RefusalComes(c)'
    <3>1. alive /\ verdict[c] = "no" => acc[Client(c)] # <<>>
      BY <1>1, <1>5, <1>6
      DEF ClientInv, RefusalComes, Unheard, SubSession, MainWrites
    <3> QED BY <1>1, <1>3, <1>4, <1>5, <3>1 DEF ClientInv, RefusalComes, Seeing
  <2>5. GrantComes(c)'
    BY <1>1, <1>3, <1>4, <1>5 DEF ClientInv, GrantComes, Seeing, PreAnswer
  <2> QED BY <2>1, <2>2, <2>3, <2>4, <2>5 DEF ClientInv
<1> QED BY <1>1, <1>2, <1>3, <1>4, <1>7, ClientLocal DEF Over, HasSent

\* The decision: the return code is looked at.
LEMMA DecideStep ==
  ASSUME PipesInv, NEW c \in Clients, Decide(c)
  PROVE  PipesInv'
<1> DEFINE next == CASE IsManager(c) -> "leave"
                     [] ~IsManager(c) /\ CodeIsZero(acc[Client(c)]) -> "session"
                     [] OTHER -> "give_up"
<1>1. /\ pc[Client(c)] = "answered" /\ Close(Client(c), c) /\ linked' = linked /\ acc' = acc
      /\ UNCHANGED Others /\ Client(c) \in Processes /\ c \in Fifos
  BY ProcessFacts, FifoFacts DEF Decide
<1>2. ClientAt(c, next)
  BY GotoSeen DEF PipesInv, Decide
<1>3. /\ next \in {"leave", "session", "give_up"}
      /\ next = "leave" <=> IsManager(c)
      /\ next = "session" => CodeIsZero(acc[Client(c)])
      /\ next = "give_up" => ~CodeIsZero(acc[Client(c)])
  OBVIOUS
<1> HIDE DEF next
<1>4. PipesTyped' /\ OnlyPipe(c) /\ Closed(c, {Client(c)})
  BY <1>1, CloseEffect DEF PipesInv
<1>5. /\ alive' = alive /\ req' = req /\ verdict' = verdict /\ sent' = sent
      /\ OthersLinked(c) /\ OnlyRead(Client(c))
  BY <1>1, ClientKeeps
<1>6. pc'[Client(c)] = next /\ pc'[Thread(c)] = pc[Thread(c)] /\ pc'[Main] = pc[Main]
  BY <1>2 DEF ClientAt
<1>7. ClientInv(c) /\ ~Unheard(c) /\ verdict[c] \in {"ok", "no", "list"}
  BY <1>1 DEF PipesInv, RestTyped, ClientInv, Silent, Unheard, PreAnswer, Over
<1>8. ~(alive /\ req = c /\ pc[Main] \in MainWrites /\ ~SubSession(c))
  BY <1>1, <1>7 DEF ClientInv, AnswerAwaited, PreAnswer, Over
<1>9. next = "session" => verdict[c] = "ok" \/ ~alive
  <2>1. verdict[c] = "list" => next # "session"
    BY <1>3, <1>7 DEF ClientInv, Labelled, IsManager
  <2>2. alive /\ verdict[c] = "no" => ~CodeIsZero(acc[Client(c)])
    BY <1>1, <1>7 DEF ClientInv, RefusalComes, Seeing, Refusal, CodeIsZero
  <2> QED BY <2>1, <2>2, <1>3, <1>7
<1>10. c \in Pubs /\ next = "give_up" => verdict[c] = "no"
  <2>1. verdict[c] = "list" => next # "give_up"
    BY <1>3, <1>7 DEF ClientInv, Labelled, IsManager
  <2>2. c \in Pubs /\ verdict[c] = "ok" => CodeIsZero(acc[Client(c)])
    <3>1. acc[Client(c)] \in Seq(Piece)
      BY DEF PipesInv, RestTyped
    <3>2. acc[Client(c)] # <<>> =>
            1 \in DOMAIN acc[Client(c)] /\ Head(acc[Client(c)]) = acc[Client(c)][1]
      BY <3>1
    <3> QED BY <1>1, <1>7, <3>2 DEF ClientInv, GrantComes, Seeing, Grant, CodeIsZero
  <2> QED BY <2>1, <2>2, <1>3, <1>7
<1>11. ClientInv(c)'
  <2>1. FifoEnds(c)'
    BY <1>1, <1>3, <1>4, <1>5, <1>6, <1>7, ProcessFacts
    DEF ClientInv, FifoEnds, Receiving, Publishing, Closed
  <2>2. Labelled(c)' /\ NameKept(c)' /\ Decisions(c)'
    BY <1>1, <1>3, <1>5, <1>6, <1>7, <1>9, <1>10
    DEF ClientInv, Labelled, NameKept, Decisions, PreAnswer, InSession, Publishing
  <2>3. Silent(c)' /\ AnswerAwaited(c)'
    BY <1>1, <1>3, <1>5, <1>6, <1>7, <1>8
    DEF ClientInv, Silent, AnswerAwaited, Unheard, SubSession, HasSent
  <2>4. RefusalComes(c)' /\ GrantComes(c)'
    BY <1>3, <1>6 DEF RefusalComes, GrantComes, Seeing, PreAnswer
  <2> QED BY <2>1, <2>2, <2>3, <2>4 DEF ClientInv
<1> QED BY <1>1, <1>2, <1>3, <1>4, <1>5, <1>6, <1>11, ClientLocal DEF Over, HasSent

\* A manager or a refused client unlinks its FIFO.
LEMMA UnlinkStep ==
  ASSUME PipesInv, NEW c \in Clients, Unlink(c)
  PROVE  PipesInv'
<1> DEFINE next == IF pc[Client(c)] = "leave" THEN "done" ELSE "rejected"
<1>1. /\ pc[Client(c)] \in {"leave", "give_up"} /\ linked' = linked \ {c}
      /\ pipe' = pipe /\ acc' = acc /\ UNCHANGED Others
  BY DEF Unlink
<1>2. ClientAt(c, next)
  BY GotoSeen DEF PipesInv, Unlink
<1>3. /\ alive' = alive /\ req' = req /\ verdict' = verdict /\ sent' = sent
      /\ OnlyRead(Client(c))
  BY <1>1, ClientKeeps
<1>4. PipesTyped' /\ OnlyPipe(c) /\ OthersLinked(c)
  BY <1>1, FifoFacts DEF PipesInv, PipesTyped, OnlyPipe, OthersLinked
<1>5. pc'[Client(c)] = next /\ pc'[Thread(c)] = pc[Thread(c)] /\ pc'[Main] = pc[Main]
  BY <1>2 DEF ClientAt
<1>6. ClientInv(c) /\ ~Unheard(c)
  BY <1>1 DEF PipesInv, ClientInv, Silent, PreAnswer, Over
<1>7. next \in {"done", "rejected"}
  OBVIOUS
<1>8. ClientInv(c)'
  <2>1. FifoEnds(c)'
    BY <1>1, <1>3, <1>5, <1>6, <1>7 DEF ClientInv, FifoEnds, Receiving, Publishing
  <2>2. Labelled(c)' /\ NameKept(c)' /\ Decisions(c)'
    BY <1>1, <1>3, <1>5, <1>6
    DEF ClientInv, Labelled, NameKept, Decisions, PreAnswer, InSession, Publishing
  <2>3. Silent(c)' /\ AnswerAwaited(c)'
    BY <1>1, <1>3, <1>5, <1>6, <1>7
    DEF ClientInv, Silent, AnswerAwaited, Unheard, SubSession, HasSent, PreAnswer, Over
  <2>4. RefusalComes(c)' /\ GrantComes(c)'
    BY <1>5, <1>7 DEF RefusalComes, GrantComes, Seeing, PreAnswer
  <2> QED BY <2>1, <2>2, <2>3, <2>4 DEF ClientInv
<1> QED BY <1>1, <1>2, <1>3, <1>4, <1>5, <1>7, <1>8, ClientLocal DEF Over, HasSent

\* A step within a session keeps the invariant if it opens and closes what its
\* labels say.
LEMMA SessionLocal ==
  ASSUME PipesInv, NEW c \in Clients, NEW label \in InSession, ClientAt(c, label),
         pc[Client(c)] \in InSession, OnlyPipe(c), PipesTyped', OnlyRead(Client(c)),
         linked' = linked, UNCHANGED Others,
         label \in Publishing => c \in Pubs,
         label \in {"listen_wait", "listen", "listened"} => c \in Subs,
         FifoEnds(c)'
  PROVE  PipesInv'
<1>1. /\ alive' = alive /\ req' = req /\ verdict' = verdict /\ sent' = sent
      /\ OthersLinked(c)
  BY ClientKeeps
<1>2. pc'[Client(c)] = label /\ pc'[Thread(c)] = pc[Thread(c)] /\ pc'[Main] = pc[Main]
  BY DEF ClientAt
<1>3. ASSUME NEW l \in InSession
      PROVE  l \notin PreAnswer \cup Over \cup {"answer", "answered", "leave", "done",
                                                "give_up", "rejected"}
  BY DEF InSession, PreAnswer, Over, Publishing
<1>4. ASSUME NEW l \in InSession
      PROVE  l \notin {"start", "register", "register_wait", "request", "requested", "ask",
                       "ask_wait"}
  BY DEF InSession, Publishing
<1>5. ClientInv(c) /\ ~Unheard(c)
  BY <1>3 DEF PipesInv, ClientInv, Silent
<1>6. ClientInv(c)'
  <2>1. Labelled(c)' /\ NameKept(c)' /\ Decisions(c)'
    BY <1>1, <1>2, <1>3, <1>4, <1>5 DEF ClientInv, Labelled, NameKept, Decisions
  <2>2. Silent(c)' /\ AnswerAwaited(c)'
    BY <1>1, <1>2, <1>3, <1>4, <1>5
    DEF ClientInv, Silent, AnswerAwaited, Unheard, SubSession, HasSent
  <2>3. RefusalComes(c)' /\ GrantComes(c)'
    BY <1>2, <1>3, <1>4 DEF RefusalComes, GrantComes, Seeing
  <2> QED BY <2>1, <2>2, <2>3 DEF ClientInv
<1>7. /\ pc[Client(c)] \notin Over /\ pc[Client(c)] # "requested" /\ label # "requested"
      /\ HasSent(c) /\ HasSent(c)'
  BY <1>2, <1>3, <1>4 DEF HasSent
<1> QED BY <1>1, <1>6, <1>7, ClientLocal

\* An opening in a session.
LEMMA SessionOpenStep ==
  ASSUME PipesInv, NEW c \in Clients,
         \/ c \in Pubs /\ BeginOpen(Client(c), c, "writers", "session", "publish_wait")
         \/ c \in Subs /\ BeginOpen(Client(c), c, "readers", "session", "listen_wait")
  PROVE  PipesInv'
<1>1. /\ pc[Client(c)] = "session" /\ Client(c) \in Processes /\ Client(c) \notin Broker
      /\ c \in Fifos /\ ClientInv(c)
  BY ProcessFacts, FifoFacts DEF BeginOpen, PipesInv
<1>2. CASE Dies(Client(c))
  BY <1>1, <1>2, DiesStep
<1>3. ASSUME ~Dies(Client(c)), c \in Pubs,
             BeginOpen(Client(c), c, "writers", "session", "publish_wait")
      PROVE  PipesInv'
  <2>1. /\ OpenEnd(Client(c), c, "writers") /\ Goto(Client(c), "publish_wait")
        /\ acc' = [acc EXCEPT ![Client(c)] = <<>>] /\ linked' = linked /\ UNCHANGED Others
    BY <1>3 DEF BeginOpen
  <2>2. ClientAt(c, "publish_wait")
    BY <2>1, GotoSeen DEF PipesInv
  <2>3. /\ PipesTyped' /\ OnlyPipe(c)
        /\ pipe'[c].readers = pipe[c].readers
        /\ pipe'[c].writers = pipe[c].writers \cup {Client(c)}
        /\ pipe'[c].met = IF pipe[c].readers = {} THEN pipe[c].met
                          ELSE pipe[c].met \cup pipe[c].readers \cup {Client(c)}
    BY <1>1, <2>1, OpenEffect DEF PipesInv
  <2>4. OnlyRead(Client(c))
    BY <1>1, <2>1, EmptySeq DEF OnlyRead, PipesInv, RestTyped
  <2>5. alive' = alive /\ req' = req
    BY <2>1, ClientKeeps
  <2>6. FifoEnds(c)'
    BY <1>1, <2>2, <2>3, <2>5, ProcessFacts
    DEF ClientInv, FifoEnds, ClientAt, Publishing, Receiving
  <2> QED BY <1>1, <1>3, <2>1, <2>2, <2>3, <2>4, <2>6, SessionLocal DEF InSession, Publishing
<1>4. ASSUME ~Dies(Client(c)), c \in Subs,
             BeginOpen(Client(c), c, "readers", "session", "listen_wait")
      PROVE  PipesInv'
  <2>1. /\ OpenEnd(Client(c), c, "readers") /\ Goto(Client(c), "listen_wait")
        /\ acc' = [acc EXCEPT ![Client(c)] = <<>>] /\ linked' = linked /\ UNCHANGED Others
    BY <1>4 DEF BeginOpen
  <2>2. ClientAt(c, "listen_wait")
    BY <2>1, GotoSeen DEF PipesInv
  <2>3. /\ PipesTyped' /\ OnlyPipe(c)
        /\ pipe'[c].readers = pipe[c].readers \cup {Client(c)}
        /\ pipe'[c].writers = pipe[c].writers
        /\ pipe'[c].met = IF pipe[c].writers = {} THEN pipe[c].met
                          ELSE pipe[c].met \cup pipe[c].writers \cup {Client(c)}
    BY <1>1, <2>1, OpenEffect DEF PipesInv
  <2>4. OnlyRead(Client(c))
    BY <1>1, <2>1, EmptySeq DEF OnlyRead, PipesInv, RestTyped
  <2>5. alive' = alive /\ req' = req
    BY <2>1, ClientKeeps
  <2>6. FifoEnds(c)'
    BY <1>1, <2>2, <2>3, <2>5, ProcessFacts
    DEF ClientInv, FifoEnds, ClientAt, Publishing, Receiving
  <2> QED BY <1>1, <1>4, <2>1, <2>2, <2>3, <2>4, <2>6, SessionLocal DEF InSession, Publishing
<1> QED BY <1>2, <1>3, <1>4

\* The opening returns, or a reading ends.
LEMMA SessionMoveStep ==
  ASSUME PipesInv, NEW c \in Clients,
         \/ EndOpen(Client(c), c, "publish_wait", "publish")
         \/ EndOpen(Client(c), c, "listen_wait", "listen")
         \/ ReadEnd(Client(c), c, "listen", "listened")
  PROVE  PipesInv'
<1>1. PICK label \in {"publish", "listen", "listened"} :
        /\ label = "publish" => pc[Client(c)] = "publish_wait"
        /\ label = "listen" => pc[Client(c)] = "listen_wait"
        /\ label = "listened" => pc[Client(c)] = "listen"
        /\ Goto(Client(c), label)
        /\ pipe' = pipe /\ linked' = linked /\ acc' = acc /\ UNCHANGED Others
  BY DEF EndOpen, ReadEnd, pipeVars
<1>2. ClientAt(c, label)
  BY <1>1, GotoSeen DEF PipesInv
<1>3. alive' = alive /\ req' = req /\ OnlyRead(Client(c)) /\ PipesTyped' /\ OnlyPipe(c)
  BY <1>1, ClientKeeps
<1>4. ClientInv(c)
  BY DEF PipesInv
<1>5. /\ label \in InSession /\ pc[Client(c)] \in InSession
      /\ label \in Publishing <=> pc[Client(c)] \in Publishing
      /\ label \in Receiving <=> pc[Client(c)] \in Receiving
      /\ label \in {"listen_wait", "listen", "listened"}
           <=> pc[Client(c)] \in {"listen_wait", "listen", "listened"}
  BY <1>1 DEF InSession, Publishing, Receiving
<1>6. FifoEnds(c)'
  BY <1>1, <1>2, <1>3, <1>4, <1>5 DEF ClientInv, FifoEnds, ClientAt
<1>7. /\ label \in Publishing => c \in Pubs
      /\ label \in {"listen_wait", "listen", "listened"} => c \in Subs
  BY <1>4, <1>5 DEF ClientInv, Labelled
<1> QED BY <1>1, <1>2, <1>3, <1>5, <1>6, <1>7, SessionLocal

\* A message published, or a piece of one read.
LEMMA SessionDataStep ==
  ASSUME PipesInv, NEW c \in Clients,
         \/ Send(Client(c), c, Message(1), "publish", "published")
         \/ Read(Client(c), c, "listen")
  PROVE  PipesInv'
<1>1. /\ Client(c) \in Processes /\ Client(c) \notin Broker /\ c \in Fifos /\ ClientInv(c)
      /\ pc[Client(c)] \in {"publish", "listen"}
  BY ProcessFacts, FifoFacts DEF Send, Read, PipesInv
<1>2. CASE Dies(Client(c))
  BY <1>1, <1>2, DiesStep
<1>3. ASSUME ~Dies(Client(c)), Send(Client(c), c, Message(1), "publish", "published")
      PROVE  PipesInv'
  <2>1. /\ pc[Client(c)] = "publish" /\ Put(c, Message(1)) /\ Goto(Client(c), "published")
        /\ linked' = linked /\ acc' = acc /\ UNCHANGED Others
    BY <1>3 DEF Send
  <2>2. ClientAt(c, "published")
    BY <2>1, GotoSeen DEF PipesInv
  <2>3. Message(1) \in Seq(Piece)
    BY DEF Message, Piece
  <2>4. PipesTyped' /\ OnlyData(c) /\ OnlyPipe(c)
    BY <1>1, <2>1, <2>3, PutEffect DEF PipesInv, OnlyData
  <2>5. alive' = alive /\ req' = req /\ OnlyRead(Client(c))
    BY <2>1, ClientKeeps
  <2>6. FifoEnds(c)'
    BY <1>1, <2>1, <2>2, <2>4, <2>5
    DEF ClientInv, FifoEnds, ClientAt, Publishing, Receiving, OnlyData
  <2>7. c \in Pubs
    BY <1>1, <2>1 DEF ClientInv, Labelled, Publishing
  <2> QED BY <2>1, <2>2, <2>4, <2>5, <2>6, <2>7, SessionLocal DEF InSession, Publishing
<1>4. ASSUME ~Dies(Client(c)), Read(Client(c), c, "listen")
      PROVE  PipesInv'
  <2>1. /\ pc[Client(c)] = "listen" /\ HasData(c) /\ Take(c) /\ pc' = pc
        /\ acc' = [acc EXCEPT ![Client(c)] = Append(acc[Client(c)], Head(pipe[c].data))]
        /\ linked' = linked /\ UNCHANGED Others
    BY <1>4 DEF Read
  <2>2. ClientAt(c, "listen")
    BY <2>1, ProcessFacts DEF ClientAt, PipesInv, RestTyped
  <2>3. PipesTyped' /\ OnlyData(c) /\ OnlyPipe(c)
    BY <1>1, <2>1, TakeEffect DEF PipesInv, OnlyData
  <2>4. Append(acc[Client(c)], Head(pipe[c].data)) \in Seq(Piece)
    BY <2>1, MovedPiece DEF PipesInv, PipesTyped, RestTyped, HasData
  <2>5. OnlyRead(Client(c))
    BY <1>1, <2>1, <2>4 DEF OnlyRead, PipesInv, RestTyped
  <2>6. alive' = alive /\ req' = req
    BY <2>1, ClientKeeps
  <2>7. FifoEnds(c)'
    BY <1>1, <2>1, <2>3, <2>6 DEF ClientInv, FifoEnds, OnlyData
  <2>8. c \in Subs
    BY <1>1, <2>1 DEF ClientInv, Labelled
  <2> QED BY <2>1, <2>2, <2>3, <2>5, <2>7, <2>8, SessionLocal DEF InSession, Publishing
<1> QED BY <1>2, <1>3, <1>4

\* A closing in a session.
LEMMA SessionCloseStep ==
  ASSUME PipesInv, NEW c \in Clients,
         \/ CloseEnd(Client(c), c, "published", "session")
         \/ CloseEnd(Client(c), c, "listened", "session")
  PROVE  PipesInv'
<1>1. /\ pc[Client(c)] \in {"published", "listened"} /\ Close(Client(c), c)
      /\ Goto(Client(c), "session") /\ linked' = linked /\ acc' = acc /\ UNCHANGED Others
      /\ Client(c) \in Processes /\ c \in Fifos /\ ClientInv(c)
  BY ProcessFacts, FifoFacts DEF CloseEnd, PipesInv
<1>2. ClientAt(c, "session")
  BY <1>1, GotoSeen DEF PipesInv
<1>3. PipesTyped' /\ OnlyPipe(c) /\ Closed(c, {Client(c)})
  BY <1>1, CloseEffect DEF PipesInv
<1>4. alive' = alive /\ req' = req /\ OnlyRead(Client(c))
  BY <1>1, ClientKeeps
<1>5. FifoEnds(c)'
  BY <1>1, <1>2, <1>3, <1>4, ProcessFacts
  DEF ClientInv, FifoEnds, ClientAt, Publishing, Receiving, Closed
<1> QED BY <1>1, <1>2, <1>3, <1>4, <1>5, SessionLocal DEF InSession, Publishing

\* Every step of a client.
LEMMA ClientsStep ==
  ASSUME PipesInv, NEW c \in Clients, ClientStep(c) \/ Publish(c)
  PROVE  PipesInv'
<1>1. CASE MakeFifo(c)
  BY <1>1, MakeFifoStep
<1>2. CASE SendRequest(c)
  BY <1>2, OpenRegisterStep, RegisterOpenedStep, SendRequestStep, CloseRegisterStep
  DEF SendRequest
<1>3. CASE WaitResponse(c)
  BY <1>3, OpenAnswerStep, AnswerOpenedStep, ReadAnswerStep, AnswerEndStep, DecideStep
  DEF WaitResponse
<1>4. CASE Unlink(c)
  BY <1>4, UnlinkStep
<1>5. CASE Publish(c)
  BY <1>5, SessionOpenStep DEF Publish
<1>6. CASE SendMessage(c)
  BY <1>6, SessionMoveStep, SessionDataStep, SessionCloseStep DEF SendMessage
<1>7. CASE ReceiveBoxMsg(c)
  <2>1. CASE pc[Client(c)] = "listened" /\ ClientEnds(c, "failed")
    BY <2>1, ClientEndsStep DEF Over
  <2> QED BY <1>7, <2>1, SessionOpenStep, SessionMoveStep, SessionDataStep, SessionCloseStep
          DEF ReceiveBoxMsg, PrintMessage
<1> QED BY <1>1, <1>2, <1>3, <1>4, <1>5, <1>6, <1>7 DEF ClientStep

-----------------------------------------------------------------------------
(* The steps of Main.                                                      *)

\* open() of the register FIFO, by Main.
LEMMA MainOpensStep ==
  ASSUME PipesInv, alive, BeginOpen(Main, Register, "readers", "open", "wait")
  PROVE  PipesInv'
<1>1. /\ pc[Main] = "open" /\ OpenEnd(Main, Register, "readers") /\ Goto(Main, "wait")
      /\ acc' = [acc EXCEPT ![Main] = <<>>] /\ linked' = linked /\ UNCHANGED Others
  BY DEF BeginOpen, PipesInv, PipesTyped
<1>2. MainAt("wait")
  BY <1>1, GotoSeen DEF PipesInv
<1>3. /\ PipesTyped' /\ OnlyPipe(Register)
      /\ pipe'[Register].readers = pipe[Register].readers \cup {Main}
      /\ pipe'[Register].writers = pipe[Register].writers
      /\ pipe'[Register].data = pipe[Register].data
      /\ pipe'[Register].met = IF pipe[Register].writers = {} THEN pipe[Register].met
                 ELSE pipe[Register].met \cup pipe[Register].writers \cup {Main}
  BY <1>1, OpenEffect, FifoFacts, ProcessFacts DEF PipesInv
<1>4. /\ acc' \in [Processes -> Seq(Clients \cup Piece)] /\ acc'[Main] \in Seq(Clients)
      /\ acc'[Main] = <<>> /\ \A q \in Processes : q # Main => acc'[q] = acc[q]
  BY <1>1, EmptySeq, ProcessFacts DEF PipesInv, RestTyped
<1>5. alive' = alive /\ verdict' = verdict
  BY <1>1 DEF Others, mainVars
<1>6. RegisterEnds'
  BY <1>2, <1>3, <1>5, ProcessFacts DEF PipesInv, RegisterInv, RegisterEnds, MainAt, MainReads
<1>7. RequestsNew'
  BY <1>2, <1>3, <1>4, <1>5, RequestsKept DEF PipesInv, RegisterInv, MainAt, Waiting, HasSent
<1>8. RequestComes'
  <2>1. \A c \in Clients : pc'[Client(c)] = "requested" => HasRequest'
    BY <1>1, <1>2, <1>3 DEF PipesInv, RegisterInv, RequestComes, HasRequest, Waiting, MainAt
  <2>2. Main \in pipe'[Register].met => \E c \in Clients : pc[Client(c)] \in Requesting
    <3>1. Main \notin pipe[Register].met
      BY <1>1, ProcessFacts DEF PipesInv, RegisterInv, RegisterEnds, MainReads
    <3>2. pipe[Register].writers # {} => \E c \in Clients : pc[Client(c)] \in Requesting
      <4>1. pipe[Register].writers \subseteq Processes
        BY FifoFacts DEF PipesInv, PipesTyped, PipeType
      <4> QED BY <4>1 DEF PipesInv, RegisterInv, RegisterEnds
    <3> QED BY <3>1, <3>2, <1>3
  <2>3. Main \in pipe'[Register].met =>
          HasRequest' \/ \E c \in Clients : pc'[Client(c)] \in {"register_wait", "request"}
    BY <2>1, <2>2, <1>2 DEF Requesting, MainAt
  <2> QED BY <2>1, <2>3, <1>2, <1>5 DEF RequestComes, MainAt
<1> QED BY <1>1, <1>2, <1>3, <1>4, <1>6, <1>7, <1>8, ReceiveLocal DEF RegisterInv, MainReads

LEMMA MainOpenedStep ==
  ASSUME PipesInv, alive, EndOpen(Main, Register, "wait", "receive")
  PROVE  PipesInv'
<1>1. /\ pc[Main] = "wait" /\ Main \in pipe[Register].met /\ Goto(Main, "receive")
      /\ pipe' = pipe /\ linked' = linked /\ acc' = acc /\ UNCHANGED Others
  BY DEF EndOpen, Opened, pipeVars
<1>2. MainAt("receive")
  BY <1>1, GotoSeen DEF PipesInv
<1>3. /\ PipesTyped' /\ OnlyPipe(Register) /\ alive' = alive /\ verdict' = verdict
      /\ acc' \in [Processes -> Seq(Clients \cup Piece)] /\ acc'[Main] \in Seq(Clients)
  BY <1>1 DEF PipesInv, PipesTyped, RestTyped, OnlyPipe, Others, mainVars
<1>4. acc[Main] = <<>>
  BY <1>1 DEF PipesInv, RequestServed
<1>5. RegisterEnds'
  BY <1>1, <1>2, <1>3 DEF PipesInv, RegisterInv, RegisterEnds, MainAt, MainReads
<1>6. RequestsNew'
  BY <1>1, <1>2, <1>3, <1>4, RequestsKept DEF PipesInv, RegisterInv, MainAt, Waiting, HasSent
<1>7. RequestComes'
  <2>1. HasRequest => HasRequest'
    BY <1>1 DEF HasRequest, Waiting
  <2>2. Cause => Cause'
    BY <1>2, <1>3 DEF Cause, MayKill, MainAt
  <2> QED BY <1>1, <1>2, <1>3, <2>1, <2>2 DEF PipesInv, RegisterInv, RequestComes, MainAt
<1> QED BY <1>1, <1>2, <1>3, <1>5, <1>6, <1>7, ReceiveLocal DEF RegisterInv, MainReads

\* read() of a request.
LEMMA MainReadsStep ==
  ASSUME PipesInv, alive, Read(Main, Register, "receive")
  PROVE  PipesInv'
<1>1. pc[Main] = "receive" /\ HasData(Register)
  BY DEF Read
<1>2. CASE OverrunKills /\ Dies(Main)
  BY <1>2, DiesStep, ProcessFacts
<1>3. CASE /\ Take(Register) /\ UNCHANGED <<linked, pc, Others>>
           /\ acc' = [acc EXCEPT ![Main] = Append(@, Head(pipe[Register].data))]
  <2>1. MainAt("receive")
    BY <1>1, <1>3, ProcessFacts DEF MainAt, PipesInv, RestTyped
  <2>2. PipesTyped' /\ OnlyData(Register) /\ OnlyPipe(Register) /\ Waiting' = Tail(Waiting)
    BY <1>1, <1>3, TakeEffect, FifoFacts DEF PipesInv, OnlyData, Waiting
  <2>3. Waiting \in Seq(Clients) /\ Waiting # <<>> /\ acc[Main] \in Seq(Clients)
    BY <1>1 DEF PipesInv, PipesTyped, RestTyped, Waiting, HasData
  <2>4. Append(acc[Main], Head(Waiting)) \in Seq(Clients)
    BY <2>3
  <2>5. Append(acc[Main], Head(Waiting)) \in Seq(Clients \cup Piece)
    BY <2>4, SeqOfUnion
  <2>6. /\ acc' \in [Processes -> Seq(Clients \cup Piece)]
        /\ acc'[Main] = Append(acc[Main], Head(Waiting))
        /\ \A q \in Processes : q # Main => acc'[q] = acc[q]
    BY <1>3, <2>5, ProcessFacts DEF PipesInv, RestTyped, Waiting
  <2>7. alive' = alive /\ verdict' = verdict /\ linked' = linked
    BY <1>3 DEF Others, mainVars
  <2>8. RegisterEnds'
    BY <1>1, <2>1, <2>2, <2>7
    DEF PipesInv, RegisterInv, RegisterEnds, MainAt, MainReads, OnlyData
  <2>9. RequestsNew'
    <3>1. \A d \in Clients : NewRequest(d) => NewRequest(d)'
      BY <2>1, <2>7 DEF NewRequest, HasSent, MainAt
    <3>2. /\ \A i \in DOMAIN Waiting : Waiting[i] \in Clients /\ NewRequest(Waiting[i])
          /\ \A i, j \in DOMAIN Waiting : Waiting[i] = Waiting[j] => i = j
          /\ \A i \in DOMAIN acc[Main] :
               /\ acc[Main][i] \in Clients /\ NewRequest(acc[Main][i])
               /\ \A j \in DOMAIN Waiting : acc[Main][i] # Waiting[j]
      BY <1>1, <2>3 DEF PipesInv, RegisterInv, RequestsNew
    <3>3. \A i \in DOMAIN Waiting' :
             i + 1 \in DOMAIN Waiting /\ i + 1 # 1 /\ Waiting'[i] = Waiting[i + 1] /\ i \in Nat
      BY <2>2, <2>3
    <3>4. \A i \in DOMAIN acc'[Main] : \/ i \in DOMAIN acc[Main] /\ acc'[Main][i] = acc[Main][i]
                                       \/ acc'[Main][i] = Waiting[1]
      BY <2>3, <2>6
    <3>5. 1 \in DOMAIN Waiting
      BY <2>3
    <3>6. \A i \in DOMAIN Waiting' : NewRequest(Waiting[i])'
      BY <3>1, <3>2, <3>3
    <3>7. \A i, j \in DOMAIN Waiting' : Waiting'[i] = Waiting'[j] => i = j
      <4> TAKE i, j \in DOMAIN Waiting'
      <4>1. Waiting'[i] = Waiting'[j] => i + 1 = j + 1
        BY <3>2, <3>3
      <4> QED BY <4>1, <3>3
    <3>8. \A i \in DOMAIN acc'[Main] : NewRequest(acc[Main][i])'
      BY <3>1, <3>2, <3>4, <3>5
    <3>9. \A i \in DOMAIN acc'[Main] : \A j \in DOMAIN Waiting' : acc'[Main][i] # Waiting'[j]
      BY <3>2, <3>3, <3>4, <3>5
    <3> QED BY <3>6, <3>7, <3>8, <3>9 DEF RequestsNew
  <2>10. RequestComes'
    <3>1. acc'[Main] # <<>>
      BY <2>3, <2>6
    <3> QED BY <1>1, <2>1, <3>1 DEF RequestComes, HasRequest, MainAt
  <2> QED BY <1>1, <1>3, <2>1, <2>2, <2>4, <2>6, <2>7, <2>8, <2>9, <2>10, ReceiveLocal
          DEF RegisterInv, MainReads
<1> QED BY <1>2, <1>3 DEF Read

\* The end of the requests, and close().
LEMMA MainReadEndStep ==
  ASSUME PipesInv, alive, ReadEnd(Main, Register, "receive", "received")
  PROVE  PipesInv'
<1>1. /\ pc[Main] = "receive" /\ Waiting = <<>> /\ pipe[Register].writers = {}
      /\ Goto(Main, "received")
      /\ pipe' = pipe /\ linked' = linked /\ acc' = acc /\ UNCHANGED Others
  BY DEF ReadEnd, AtEnd, pipeVars, Waiting
<1>2. MainAt("received")
  BY <1>1, GotoSeen DEF PipesInv
<1>3. /\ PipesTyped' /\ OnlyPipe(Register) /\ alive' = alive /\ verdict' = verdict
      /\ acc' \in [Processes -> Seq(Clients \cup Piece)] /\ acc'[Main] \in Seq(Clients)
  BY <1>1 DEF PipesInv, PipesTyped, RestTyped, OnlyPipe, Others, mainVars
<1>4. RegisterEnds'
  BY <1>1, <1>2, <1>3 DEF PipesInv, RegisterInv, RegisterEnds, MainAt, MainReads
<1>5. RequestsNew'
  BY <1>1, <1>2, <1>3, RequestsKept DEF PipesInv, RegisterInv, MainAt, Waiting, HasSent
<1>6. RequestComes'
  <2>1. \A c \in Clients : pc[Client(c)] \notin Requesting
    BY <1>1, ProcessFacts DEF PipesInv, RegisterInv, RegisterEnds
  <2>2. acc[Main] # <<>> \/ Cause
    BY <1>1, <2>1 DEF PipesInv, RegisterInv, RequestComes, HasRequest, Requesting
  <2>3. Cause => Cause'
    BY <1>2, <1>3 DEF Cause, MayKill, MainAt
  <2> QED BY <1>1, <1>2, <2>1, <2>2, <2>3 DEF RequestComes, MainAt, Requesting
<1> QED BY <1>1, <1>2, <1>3, <1>4, <1>5, <1>6, ReceiveLocal DEF RegisterInv, MainReads

LEMMA MainClosesStep ==
  ASSUME PipesInv, alive, CloseEnd(Main, Register, "received", "serve")
  PROVE  PipesInv'
<1>1. /\ pc[Main] = "received" /\ Close(Main, Register) /\ Goto(Main, "serve")
      /\ linked' = linked /\ acc' = acc /\ UNCHANGED Others
  BY DEF CloseEnd
<1>2. MainAt("serve")
  BY <1>1, GotoSeen DEF PipesInv
<1>3. PipesTyped' /\ OnlyPipe(Register) /\ Closed(Register, {Main})
  BY <1>1, CloseEffect, FifoFacts, ProcessFacts DEF PipesInv
<1>4. /\ alive' = alive /\ verdict' = verdict
      /\ acc' \in [Processes -> Seq(Clients \cup Piece)] /\ acc'[Main] \in Seq(Clients)
  BY <1>1 DEF PipesInv, RestTyped, Others, mainVars
<1>5. RegisterEnds'
  BY <1>1, <1>2, <1>3, <1>4, ProcessFacts
  DEF PipesInv, RegisterInv, RegisterEnds, MainAt, MainReads, Closed
<1>6. Waiting' = Waiting \/ (Waiting' = <<>> /\ pipe'[Register].writers = {})
  BY <1>3 DEF Closed, Waiting
<1>7. RequestsNew'
  <2>1. \A d \in Clients : NewRequest(d) => NewRequest(d)'
    BY <1>2, <1>4 DEF NewRequest, HasSent, MainAt
  <2>2. /\ \A i \in DOMAIN Waiting : Waiting[i] \in Clients
        /\ \A i \in DOMAIN acc[Main] : acc[Main][i] \in Clients
    BY DEF PipesInv, PipesTyped, RestTyped, Waiting
  <2> QED BY <2>1, <2>2, <1>1, <1>2, <1>6 DEF PipesInv, RegisterInv, RequestsNew, MainAt
<1>8. RequestComes'
  <2>1. Cause => Cause'
    BY <1>2, <1>4 DEF Cause, MayKill, MainAt
  <2>2. \A c \in Clients : pc'[Client(c)] = "requested" => Waiting' = Waiting
    BY <1>5, <1>6, ProcessFacts DEF RegisterEnds, Requesting
  <2> QED BY <1>1, <1>2, <1>4, <2>1, <2>2
          DEF PipesInv, RegisterInv, RequestComes, HasRequest, MainAt
<1> QED BY <1>1, <1>2, <1>3, <1>4, <1>5, <1>7, <1>8, ReceiveLocal DEF RegisterInv, MainReads

\* A request is served: its client is known to be new.
LEMMA ServeStep ==
  ASSUME PipesInv, alive, Serve
  PROVE  PipesInv'
<1>1. pc[Main] = "serve"
  BY DEF Serve
<1>2. CASE acc[Main] = <<>> /\ BrokerDies
  <2>1. Cause
    BY <1>1, <1>2 DEF PipesInv, RegisterInv, RequestComes
  <2> QED BY <1>2, <2>1, BrokerDiesStep
<1>3. ASSUME acc[Main] # <<>>, NEW c \in Clients, c = Head(acc[Main]),
             ServeManager(c) \/ ServeSession(c) \/ ServeList(c),
             UNCHANGED <<pipeVars, acc, alive, sent>>
      PROVE  PipesInv'
  <2>1. /\ NewRequest(c) /\ \A i \in DOMAIN Waiting : Waiting[i] # c
    <3>1. acc[Main] \in Seq(Clients)
      BY DEF PipesInv, RestTyped
    <3>2. 1 \in DOMAIN acc[Main] /\ acc[Main][1] = c
      BY <3>1, <1>3
    <3> QED BY <3>2, <1>1 DEF PipesInv, RegisterInv, RequestsNew
  <2>2. ClientInv(c) /\ pc[Thread(c)] = "none" /\ verdict[c] = "none" /\ HasSent(c)
        /\ pipe[c].data = <<>> /\ pc[Client(c)] \in PreAnswer \cup Over
    BY <2>1 DEF NewRequest, PipesInv, ClientInv, Labelled, Silent, Unheard
  <2>3. /\ pipe' = pipe /\ linked' = linked /\ acc' = acc /\ alive' = alive /\ sent' = sent
        /\ req' = c
    BY <1>3 DEF pipeVars, ServeManager, ServeSession, ServeList, Decided
  <2>4. PICK v \in {"ok", "no", "list"} : verdict' = [verdict EXCEPT ![c] = v]
    BY <1>3 DEF ServeManager, ServeSession, ServeList, Decided
  <2>5. /\ verdict' \in [Clients -> {"none", "ok", "no", "list"}]
        /\ verdict'[c] = v /\ \A d \in Clients : d # c => verdict'[d] = verdict[d]
    BY <2>4 DEF PipesInv, RestTyped
  <2>6. v = "list" => c \in Listers
    <3>1. ServeManager(c) \/ ServeSession(c) => v # "list"
      BY <2>4, <2>5 DEF ServeManager, ServeSession, Decided, PipesInv, RestTyped
    <3> QED BY <3>1, <1>3 DEF ServeList
  <2>7. /\ pc' = [q \in Processes |-> pc'[q]]
        /\ pc'[Main] = "respond"
        /\ \A d \in Clients : pc'[Client(d)] = pc[Client(d)]
        /\ \A d \in Clients : d # c => pc'[Thread(d)] = pc[Thread(d)]
        /\ pc'[Thread(c)] \in {"none", "probe"}
        /\ pc'[Thread(c)] = "probe" => v = "ok" /\ ~IsManager(c) /\ boxThere'
    <3>1. CASE ServeManager(c) \/ ServeList(c)
      <4>1. MainAt("respond")
        BY <3>1, GotoSeen DEF ServeManager, ServeList, PipesInv
      <4> QED BY <4>1, <2>2 DEF MainAt
    <3>2. CASE ServeSession(c)
      <4> DEFINE granted == MAX_SESSIONS # 0 /\ boxThere
      <4>1. pc' = [p \in Processes |-> CASE p = Main -> "respond"
                                         [] p = Thread(c) /\ granted -> "probe"
                                         [] OTHER -> pc[p]]
        BY <3>2 DEF ServeSession
      <4>2. /\ ~IsManager(c) /\ boxThere' = boxThere
            /\ v = IF granted THEN "ok" ELSE "no"
        BY <3>2, <2>4, <2>5 DEF ServeSession, Decided, boxVars, PipesInv, RestTyped
      <4> HIDE DEF granted
      <4>3. /\ pc'[Main] = "respond"
            /\ \A d \in Clients : pc'[Client(d)] = pc[Client(d)]
            /\ \A d \in Clients : d # c => pc'[Thread(d)] = pc[Thread(d)]
            /\ pc'[Thread(c)] = IF granted THEN "probe" ELSE "none"
        BY <4>1, <2>2, ProcessFacts
      <4>4. granted => boxThere
        BY DEF granted
      <4> QED BY <4>1, <4>2, <4>3, <4>4
    <3> QED BY <1>3, <3>1, <3>2
  <2>8. boxThere' \in BOOLEAN /\ stored' \in Nat /\ MAX_SESSIONS' \in 0 .. MaxSessions
    <3>1. /\ boxThere \in BOOLEAN /\ stored \in Nat /\ MAX_SESSIONS \in 0 .. MaxSessions
          /\ MaxSessions \in Nat
      BY SessionPipesAssumption DEF PipesInv, RestTyped
    <3>2. CASE ServeManager(c)
      BY <3>1, <3>2 DEF ServeManager
    <3>3. CASE ServeSession(c)
      <4>1. boxThere' = boxThere /\ stored' = stored
        BY <3>3 DEF ServeSession, boxVars
      <4>2. MAX_SESSIONS' = MAX_SESSIONS \/ (MAX_SESSIONS # 0 /\ MAX_SESSIONS' = MAX_SESSIONS - 1)
        BY <3>3 DEF ServeSession
      <4> QED BY <3>1, <4>1, <4>2
    <3>4. CASE ServeList(c)
      BY <3>1, <3>4 DEF ServeList, boxVars
    <3> QED BY <1>3, <3>2, <3>3, <3>4
  <2>9. PipesTyped' /\ RestTyped'
    BY <2>3, <2>5, <2>7, <2>8, FifoFacts DEF PipesInv, PipesTyped, RestTyped
  <2>10. Cause => Cause'
    BY <2>2, <2>5, <2>7 DEF Cause, MayKill
  <2>11. RegisterInv'
    <3>1. RegisterEnds'
      BY <1>1, <2>3, <2>7, ProcessFacts DEF PipesInv, RegisterInv, RegisterEnds, MainReads
    <3>2. RequestsNew'
      <4>1. \A d \in Clients : NewRequest(d) /\ d # c => NewRequest(d)'
        BY <2>5, <2>7 DEF NewRequest, HasSent
      <4>2. \A i \in DOMAIN Waiting : Waiting[i] \in Clients
        BY DEF PipesInv, PipesTyped, Waiting
      <4>3. Waiting' = Waiting
        BY <2>3 DEF Waiting
      <4> QED BY <4>1, <4>2, <4>3, <2>1, <2>7 DEF PipesInv, RegisterInv, RequestsNew
    <3>3. RequestComes'
      BY <1>1, <2>3, <2>7 DEF PipesInv, RegisterInv, RequestComes, HasRequest, Waiting
    <3> QED BY <3>1, <3>2, <3>3 DEF RegisterInv
  <2>12. RequestServed'
    BY <2>3, <2>5, <2>7 DEF RequestServed
  <2>13. ASSUME NEW d \in Clients, d # c PROVE ClientInv(d)'
    <3>1. SamePipe(d)
      BY <2>3 DEF SamePipe
    <3>2. SameClient(d)
      BY <2>3, <2>5, <2>7, <2>13 DEF SameClient
    <3>3. ~Addressed(d) /\ ~Addressed(d)'
      BY <1>1, <2>3, <2>13 DEF Addressed, MainWrites
    <3> QED BY <3>1, <3>2, <3>3, <2>3, <2>10, ClientFrame DEF PipesInv
  <2>14. ClientInv(c)'
    <3>1. Unheard(c)
      BY <2>2 DEF Unheard
    <3>2. FifoEnds(c)'
      BY <1>1, <2>2, <2>3, <2>7, ProcessFacts
      DEF ClientInv, FifoEnds, MainWrites, Following
    <3>3. Labelled(c)' /\ NameKept(c)' /\ Decisions(c)'
      BY <2>2, <2>3, <2>5, <2>6, <2>7
      DEF ClientInv, Labelled, NameKept, Decisions, BeforeTake, PreAnswer, Over, InSession,
          Publishing
    <3>4. Silent(c)' /\ AnswerAwaited(c)'
      BY <2>2, <2>3, <2>5, <2>7, <3>1
      DEF ClientInv, Silent, AnswerAwaited, Unheard, HasSent, BeforeTake, MainWrites
    <3>5. RefusalComes(c)' /\ GrantComes(c)'
      BY <2>2, <2>3, <2>5, <2>7
      DEF ClientInv, Labelled, RefusalComes, GrantComes, Seeing, PreAnswer, Over
    <3> QED BY <3>2, <3>3, <3>4, <3>5 DEF ClientInv
  <2>15. OverrunKills \/ DeathHasCause'
    BY <2>3 DEF DeathHasCause
  <2> QED BY <2>9, <2>11, <2>12, <2>13, <2>14, <2>15 DEF PipesInv
<1>4. acc[Main] # <<>> => Head(acc[Main]) \in Clients
  BY DEF PipesInv, RestTyped
<1> QED BY <1>2, <1>3, <1>4 DEF Serve

\* open() of the client's FIFO, which still has its name: its client waits for
\* the answer and its thread has not ended.
LEMMA RespondStep ==
  ASSUME PipesInv, alive, BeginOpen(Main, req, "writers", "respond", "respond_wait")
  PROVE  PipesInv'
<1>1. pc[Main] = "respond" /\ req \in Clients /\ verdict[req] # "none"
  BY DEF BeginOpen, PipesInv, RequestServed
<1>2. PICK c \in Clients : c = req
  BY <1>1
<1>3. ClientInv(c) /\ c \in Fifos
  BY FifoFacts DEF PipesInv
<1>4. SubSession(c) \/ Unheard(c)
  BY <1>1, <1>2 DEF Unheard
<1>5. CASE req \notin linked /\ Dies(Main)
  <2>1. Unheard(c) => c \in linked
    <3>1. pc[Client(c)] # "start"
      BY <1>1, <1>2, <1>3 DEF ClientInv, Silent, HasSent
    <3>2. Unheard(c) => pc[Client(c)] \notin {"done", "rejected"} /\ pc[Thread(c)] # "done"
      BY <1>3 DEF ClientInv, Silent, PreAnswer, Over, BeforeTake
    <3> QED BY <3>1, <3>2, <1>3 DEF ClientInv, NameKept
  <2>2. Cause
    BY <1>2, <1>4, <1>5, <2>1 DEF SubSession, Cause, MayKill
  <2> QED BY <1>5, <2>2, DiesStep, ProcessFacts
<1>6. CASE /\ OpenEnd(Main, req, "writers") /\ Goto(Main, "respond_wait")
           /\ acc' = [acc EXCEPT ![Main] = <<>>] /\ UNCHANGED <<linked, Others>>
  <2>1. MainAt("respond_wait")
    BY <1>6, GotoSeen DEF PipesInv
  <2>2. /\ PipesTyped' /\ OnlyPipe(c)
        /\ pipe'[c].readers = pipe[c].readers
        /\ pipe'[c].writers = pipe[c].writers \cup {Main}
        /\ pipe'[c].data = pipe[c].data
        /\ pipe'[c].met = IF pipe[c].readers = {} THEN pipe[c].met
                          ELSE pipe[c].met \cup pipe[c].readers \cup {Main}
    BY <1>2, <1>3, <1>6, OpenEffect, ProcessFacts DEF PipesInv
  <2>3. /\ acc' \in [Processes -> Seq(Clients \cup Piece)] /\ acc'[Main] \in Seq(Clients)
        /\ \A q \in Processes : q # Main => acc'[q] = acc[q]
        /\ acc'[Client(c)] = acc[Client(c)]
    BY <1>6, EmptySeq, ProcessFacts DEF PipesInv, RestTyped
  <2>4. /\ alive' = alive /\ req' = req /\ verdict' = verdict /\ sent' = sent
        /\ boxThere' = boxThere /\ OthersLinked(c) /\ linked' = linked
    BY <1>6, ClientKeeps
  <2>5. /\ pc'[Main] = "respond_wait"
        /\ pc'[Client(c)] = pc[Client(c)] /\ pc'[Thread(c)] = pc[Thread(c)]
    BY <2>1 DEF MainAt
  <2>6. RequestServed'
    BY <1>1, <2>4, <2>1 DEF PipesInv, RequestServed, MainAt, MainWrites
  <2>7. Main \notin pipe[c].met
    BY <1>1, <1>3, ProcessFacts DEF ClientInv, FifoEnds, MainWrites
  <2>8. ClientInv(c)'
    <3>1. FifoEnds(c)'
      BY <1>1, <1>2, <1>3, <2>2, <2>4, <2>5, ProcessFacts DEF ClientInv, FifoEnds, MainWrites
    <3>2. Labelled(c)' /\ NameKept(c)' /\ Decisions(c)'
      BY <1>3, <2>3, <2>4, <2>5 DEF ClientInv, Labelled, NameKept, Decisions
    <3>3. Silent(c)'
      BY <1>1, <1>2, <1>3, <2>4, <2>5 DEF ClientInv, Silent, Unheard, HasSent
    <3>4. AnswerAwaited(c)'
      BY <1>1, <1>2, <1>3, <1>4, <2>2, <2>4, <2>5, <2>7
      DEF ClientInv, Silent, AnswerAwaited, SubSession
    <3>5. RefusalComes(c)'
      BY <1>1, <1>2, <1>3, <2>2, <2>3, <2>4, <2>5 DEF ClientInv, RefusalComes, Seeing
    <3>6. GrantComes(c)'
      BY <1>3, <2>2, <2>3, <2>4, <2>5 DEF ClientInv, GrantComes, Seeing
    <3> QED BY <3>1, <3>2, <3>3, <3>4, <3>5, <3>6 DEF ClientInv
  <2> QED BY <1>1, <1>2, <1>6, <2>1, <2>2, <2>3, <2>4, <2>6, <2>8, MainLocal
<1> QED BY <1>5, <1>6 DEF BeginOpen

\* The opening returns: somebody reads.
LEMMA RespondOpenedStep ==
  ASSUME PipesInv, alive, EndOpen(Main, req, "respond_wait", "response")
  PROVE  PipesInv'
<1>1. /\ pc[Main] = "respond_wait" /\ Main \in pipe[req].met /\ Goto(Main, "response")
      /\ pipe' = pipe /\ linked' = linked /\ acc' = acc /\ UNCHANGED Others
  BY DEF EndOpen, Opened, pipeVars
<1>2. PICK c \in Clients : c = req
  BY <1>1 DEF PipesInv, RequestServed, MainWrites
<1>3. MainAt("response")
  BY <1>1, GotoSeen DEF PipesInv
<1>4. /\ alive' = alive /\ req' = req /\ verdict' = verdict /\ sent' = sent
      /\ boxThere' = boxThere /\ OthersLinked(c) /\ PipesTyped' /\ OnlyPipe(c)
  BY <1>1, ClientKeeps
<1>5. /\ acc' \in [Processes -> Seq(Clients \cup Piece)] /\ acc'[Main] \in Seq(Clients)
  BY <1>1 DEF PipesInv, RestTyped
<1>6. /\ pc'[Main] = "response"
      /\ pc'[Client(c)] = pc[Client(c)] /\ pc'[Thread(c)] = pc[Thread(c)]
  BY <1>3 DEF MainAt
<1>7. RequestServed'
  BY <1>1, <1>3, <1>4 DEF PipesInv, RequestServed, MainAt, MainWrites
<1>8. ClientInv(c) /\ verdict[c] # "none"
  BY <1>1, <1>2 DEF PipesInv, RequestServed, MainWrites
<1>9. ClientInv(c)'
  <2>1. FifoEnds(c)'
    BY <1>1, <1>4, <1>6, <1>8 DEF ClientInv, FifoEnds, MainWrites
  <2>2. Labelled(c)' /\ NameKept(c)' /\ Decisions(c)'
    BY <1>1, <1>4, <1>6, <1>8 DEF ClientInv, Labelled, NameKept, Decisions
  <2>3. Silent(c)'
    BY <1>1, <1>4, <1>6, <1>8 DEF ClientInv, Silent, Unheard, HasSent
  <2>4. Cause => Cause'
    BY <1>3, <1>4 DEF Cause, MayKill, MainAt
  <2>5. AnswerAwaited(c)'
    BY <1>1, <1>2, <1>4, <1>6, <1>8, <2>4 DEF ClientInv, AnswerAwaited, SubSession, MainWrites
  <2>6. RefusalComes(c)' /\ GrantComes(c)'
    BY <1>1, <1>4, <1>6, <1>8 DEF ClientInv, RefusalComes, GrantComes, Seeing
  <2> QED BY <2>1, <2>2, <2>3, <2>5, <2>6 DEF ClientInv
<1> QED BY <1>1, <1>2, <1>3, <1>4, <1>5, <1>7, <1>9, MainLocal

\* What write() leaves at the head of a sequence.
LEMMA PutPiece ==
  ASSUME NEW S, NEW data \in Seq(S), NEW message \in Seq(S), message # <<>>
  PROVE  /\ data \o message # <<>>
         /\ Head(data \o message) = IF data = <<>> THEN Head(message) ELSE Head(data)
<1>1. /\ Len(message) > 0 /\ Len(data \o message) = Len(data) + Len(message)
      /\ Len(data) \in Nat /\ Len(message) \in Nat /\ data \o message \in Seq(S)
  OBVIOUS
<1>2. data \o message # <<>> /\ Head(data \o message) = (data \o message)[1]
  BY <1>1
<1>3. CASE data = <<>>
  BY <1>1, <1>2, <1>3
<1>4. CASE data # <<>>
  BY <1>1, <1>2, <1>4
<1> QED BY <1>2, <1>3, <1>4

\* The answer is sent.
LEMMA AnswerStep ==
  ASSUME PipesInv, alive, Send(Main, req, Answer(verdict[req]), "response", "responded")
  PROVE  PipesInv'
<1>1. pc[Main] = "response" /\ req \in Clients /\ verdict[req] # "none"
  BY DEF Send, PipesInv, RequestServed, MainWrites
<1>2. PICK c \in Clients : c = req
  BY <1>1
<1>3. ClientInv(c) /\ c \in Fifos /\ verdict[c] \in {"ok", "no", "list"}
  BY <1>1, <1>2, FifoFacts DEF PipesInv, RestTyped
<1>4. CASE ~CanWrite(req) /\ Dies(Main)
  <2>1. Cause
    BY <1>1, <1>2, <1>3, <1>4
    DEF CanWrite, ClientInv, AnswerAwaited, SubSession, Cause, MayKill, MainWrites
  <2> QED BY <1>4, <2>1, DiesStep, ProcessFacts
<1>5. CASE /\ CanWrite(req) /\ Put(req, Answer(verdict[req])) /\ Goto(Main, "responded")
           /\ UNCHANGED <<linked, acc, Others>>
  <2>1. MainAt("responded")
    BY <1>5, GotoSeen DEF PipesInv
  <2>2. PICK v \in {"ok", "no", "list"} : v = verdict[c]
    BY <1>3
  <2>3. /\ Answer(v) \in Seq(Piece) /\ Answer(v) # <<>> /\ Head(Answer(v)) = <<v, 0>>
        /\ v = "ok" => \A i \in DOMAIN Answer(v) : Answer(v)[i] \in Grant
    BY DEF Answer, Piece, Grant
  <2>4. PipesTyped' /\ OnlyData(c) /\ OnlyPipe(c) /\ pipe'[c].data = pipe[c].data \o Answer(v)
    BY <1>2, <1>3, <1>5, <2>2, <2>3, PutEffect DEF PipesInv, OnlyData
  <2>5. pipe[c].data \in Seq(Piece)
    BY DEF PipesInv, PipesTyped
  <2>6. /\ pipe'[c].data # <<>>
        /\ Head(pipe'[c].data) = IF pipe[c].data = <<>> THEN <<v, 0>> ELSE Head(pipe[c].data)
    BY <2>3, <2>4, <2>5, PutPiece
  <2>7. v = "ok" /\ (\A i \in DOMAIN pipe[c].data : pipe[c].data[i] \in Grant) =>
          \A i \in DOMAIN pipe'[c].data : pipe'[c].data[i] \in Grant
    <3>1. \A i \in DOMAIN pipe'[c].data :
             \/ i \in DOMAIN pipe[c].data /\ pipe'[c].data[i] = pipe[c].data[i]
             \/ \E j \in DOMAIN Answer(v) : pipe'[c].data[i] = Answer(v)[j]
      <4> DEFINE old == pipe[c].data
      <4> DEFINE more == Answer(v)
      <4>1. old \in Seq(Piece) /\ more \in Seq(Piece) /\ pipe'[c].data = old \o more
        BY <2>3, <2>4, <2>5
      <4> HIDE DEF old, more
      <4>2. \A i \in DOMAIN (old \o more) :
               \/ i \in DOMAIN old /\ (old \o more)[i] = old[i]
               \/ i - Len(old) \in DOMAIN more /\ (old \o more)[i] = more[i - Len(old)]
        BY <4>1
      <4> QED BY <4>1, <4>2 DEF old, more
    <3> QED BY <2>3, <3>1
  <2>8. /\ alive' = alive /\ req' = req /\ verdict' = verdict /\ sent' = sent
        /\ boxThere' = boxThere /\ OthersLinked(c) /\ linked' = linked /\ acc' = acc
    BY <1>5, ClientKeeps
  <2>9. /\ acc' \in [Processes -> Seq(Clients \cup Piece)] /\ acc'[Main] \in Seq(Clients)
    BY <2>8 DEF PipesInv, RestTyped
  <2>10. /\ pc'[Main] = "responded"
         /\ pc'[Client(c)] = pc[Client(c)] /\ pc'[Thread(c)] = pc[Thread(c)]
    BY <2>1 DEF MainAt
  <2>11. RequestServed'
    BY <1>1, <2>1, <2>8 DEF PipesInv, RequestServed, MainAt, MainWrites
  <2>12. ClientInv(c)'
    <3>1. FifoEnds(c)'
      BY <1>1, <1>3, <2>4, <2>8, <2>10 DEF ClientInv, FifoEnds, MainWrites, OnlyData
    <3>2. Labelled(c)' /\ NameKept(c)' /\ Decisions(c)'
      BY <1>3, <2>8, <2>10 DEF ClientInv, Labelled, NameKept, Decisions
    <3>3. Silent(c)' /\ AnswerAwaited(c)'
      BY <1>1, <1>2, <1>3, <2>8, <2>10
      DEF ClientInv, Silent, AnswerAwaited, Unheard, SubSession, HasSent, MainWrites
    <3>4. v = "no" => pc[Client(c)] \notin {"requested", "ask"}
      <4>1. v = "no" => pc[Thread(c)] = "none" /\ ~SubSession(c)
        BY <1>3, <2>2 DEF ClientInv, Labelled, SubSession
      <4>2. PICK q \in pipe[c].readers : TRUE
        BY <1>2, <1>5 DEF CanWrite
      <4>3. q \in Processes
        BY <4>2, <1>3 DEF PipesInv, PipesTyped, PipeType
      <4>4. pc[Client(c)] \in Receiving \/ pc[Thread(c)] \in Following
        BY <4>2, <4>3, <1>3 DEF ClientInv, FifoEnds
      <4> QED BY <4>1, <4>4 DEF Receiving, Following
    <3>5. RefusalComes(c)'
      BY <1>1, <1>3, <2>2, <2>6, <2>8, <2>10, <3>4
      DEF ClientInv, RefusalComes, Seeing, Refusal
    <3>6. GrantComes(c)'
      BY <1>3, <2>2, <2>7, <2>8, <2>10 DEF ClientInv, GrantComes, Seeing
    <3> QED BY <3>1, <3>2, <3>3, <3>5, <3>6 DEF ClientInv
  <2> QED BY <1>1, <1>2, <1>5, <2>1, <2>4, <2>8, <2>9, <2>11, <2>12, MainLocal
<1> QED BY <1>4, <1>5 DEF Send

\* close() of the client's FIFO.
LEMMA RespondedStep ==
  ASSUME PipesInv, alive, CloseEnd(Main, req, "responded", "open")
  PROVE  PipesInv'
<1>1. /\ pc[Main] = "responded" /\ Close(Main, req) /\ Goto(Main, "open")
      /\ linked' = linked /\ acc' = acc /\ UNCHANGED Others
  BY DEF CloseEnd
<1>2. PICK c \in Clients : c = req
  BY <1>1 DEF PipesInv, RequestServed, MainWrites
<1>3. ClientInv(c) /\ c \in Fifos /\ verdict[c] # "none"
  BY <1>1, <1>2, FifoFacts DEF PipesInv, RequestServed, MainWrites
<1>4. MainAt("open")
  BY <1>1, GotoSeen DEF PipesInv
<1>5. PipesTyped' /\ OnlyPipe(c) /\ Closed(c, {Main})
  BY <1>1, <1>2, <1>3, CloseEffect, ProcessFacts DEF PipesInv
<1>6. /\ alive' = alive /\ req' = req /\ verdict' = verdict /\ sent' = sent /\ OthersLinked(c)
  BY <1>1, ClientKeeps
<1>7. /\ acc' \in [Processes -> Seq(Clients \cup Piece)] /\ acc'[Main] \in Seq(Clients)
  BY <1>1 DEF PipesInv, RestTyped
<1>8. /\ pc'[Main] = "open"
      /\ pc'[Client(c)] = pc[Client(c)] /\ pc'[Thread(c)] = pc[Thread(c)]
  BY <1>4 DEF MainAt
<1>9. RequestServed'
  BY <1>8 DEF RequestServed, MainWrites
<1>10. ClientInv(c)'
  <2>1. FifoEnds(c)'
    BY <1>3, <1>5, <1>6, <1>8, ProcessFacts DEF ClientInv, FifoEnds, MainWrites, Closed
  <2>2. Labelled(c)' /\ NameKept(c)' /\ Decisions(c)'
    BY <1>1, <1>3, <1>6, <1>8 DEF ClientInv, Labelled, NameKept, Decisions
  <2>3. Silent(c)' /\ AnswerAwaited(c)'
    BY <1>3, <1>5, <1>6, <1>8
    DEF ClientInv, Silent, AnswerAwaited, Unheard, HasSent, Closed, MainWrites
  <2>4. Seeing(c) => pipe'[c].data = pipe[c].data
    <3>1. Seeing(c) => Client(c) \in pipe'[c].readers
      BY <1>3, <1>5, ProcessFacts DEF ClientInv, FifoEnds, Seeing, Receiving, Closed
    <3> QED BY <3>1, <1>5 DEF Closed
  <2>5. RefusalComes(c)'
    BY <1>1, <1>3, <1>5, <1>6, <1>8, <2>4 DEF ClientInv, RefusalComes, Seeing, Closed
  <2>6. GrantComes(c)'
    BY <1>1, <1>3, <1>5, <1>6, <1>8 DEF ClientInv, GrantComes, Seeing, Closed
  <2> QED BY <2>1, <2>2, <2>3, <2>5, <2>6 DEF ClientInv
<1> QED BY <1>1, <1>2, <1>4, <1>5, <1>6, <1>7, <1>9, <1>10, MainLocal

-----------------------------------------------------------------------------
(* The steps of a session's thread.                                        *)

\* Whose thread it is.
LEMMA ThreadFacts ==
  ASSUME PipesInv, NEW c \in Clients, pc[Thread(c)] # "none"
  PROVE  /\ verdict[c] = "ok"
         /\ pc[Client(c)] \notin {"start", "register", "register_wait", "request"}
         /\ c \in Subs => SubSession(c) /\ c \notin Pubs /\ Cause
         /\ c \in Pubs /\ pc[Thread(c)] # "done" => c \in linked
         /\ pc[Main] = "respond" /\ req = c => boxThere /\ pc[Thread(c)] \notin {"end", "done"}
         /\ pc[Main] \in MainWrites /\ req = c => boxThere /\ pc[Thread(c)] \notin {"end", "done"}
<1>1. ClientInv(c)
  BY DEF PipesInv
<1>2. /\ verdict[c] = "ok" /\ ~IsManager(c)
      /\ pc[Client(c)] \notin {"start", "register", "register_wait", "request"}
  BY <1>1 DEF ClientInv, Labelled, Silent, HasSent
<1>3. c \in Subs => SubSession(c) /\ c \notin Pubs /\ Cause
  BY <1>2, SessionPipesAssumption DEF SubSession, Cause, MayKill
<1>4. c \in Pubs => pc[Client(c)] \notin {"done", "rejected"}
  BY <1>1, <1>2 DEF ClientInv, Labelled, Decisions
<1>5. c \in Pubs /\ pc[Thread(c)] # "done" => c \in linked
  BY <1>1, <1>2, <1>4 DEF ClientInv, NameKept
<1>6. pc[Main] = "respond" /\ req = c => boxThere /\ pc[Thread(c)] \notin {"end", "done"}
  BY DEF PipesInv, RequestServed
<1>7. pc[Main] \in MainWrites /\ req = c => boxThere /\ pc[Thread(c)] \notin {"end", "done"}
  BY DEF PipesInv, RequestServed
<1> QED BY <1>2, <1>3, <1>5, <1>6, <1>7

\* A step of a subscriber's thread keeps the invariant if it opens and closes
\* what its labels say.
LEMMA SubThreadLocal ==
  ASSUME PipesInv, NEW c \in Clients, c \in Subs, NEW label, ThreadAt(c, label),
         label \in {"probe", "follow_wait", "fetch", "tell", "told"},
         pc[Thread(c)] \in Following \cup {"follow"},
         OnlyPipe(c), PipesTyped', OnlyRead(Thread(c)), linked' = linked,
         UNCHANGED <<alive, boxVars, mainVars>>,
         sent' \in [Clients -> Nat \cup {-1}], \A d \in Clients : d # c => sent'[d] = sent[d],
         label = "tell" => sent'[c] \in Nat,
         FifoEnds(c)'
  PROVE  PipesInv'
<1>1. /\ alive' = alive /\ boxThere' = boxThere /\ stored' = stored
      /\ req' = req /\ verdict' = verdict /\ UNCHANGED <<alive, boxThere, mainVars>>
  BY DEF boxVars, mainVars
<1>2. pc[Thread(c)] \notin {"none", "end", "done"} /\ ClientInv(c)
  BY DEF Following, PipesInv
<1>3. verdict[c] = "ok" /\ SubSession(c) /\ c \notin Pubs
  BY <1>2, ThreadFacts
<1>4. /\ pc'[Thread(c)] = label /\ pc'[Client(c)] = pc[Client(c)] /\ pc'[Main] = pc[Main]
      /\ acc'[Client(c)] = acc[Client(c)] /\ acc'[Main] = acc[Main]
  BY ProcessFacts DEF ThreadAt, OnlyRead, PipesInv, RestTyped
<1>5. RequestServed'
  <2>1. \A d \in Clients : \/ pc'[Thread(d)] = pc[Thread(d)]
                           \/ pc'[Thread(d)] \notin {"end", "done"} /\ pc[Thread(d)] # "none"
    BY <1>2 DEF ThreadAt
  <2> QED BY <1>1, <1>4, <2>1 DEF PipesInv, RequestServed
<1>6. ClientInv(c)'
  <2>1. Labelled(c)' /\ NameKept(c)' /\ Decisions(c)'
    BY <1>1, <1>2, <1>3, <1>4
    DEF ClientInv, Labelled, NameKept, Decisions, BeforeTake, Following
  <2>2. Silent(c)' /\ AnswerAwaited(c)' /\ RefusalComes(c)' /\ GrantComes(c)'
    BY <1>1, <1>2, <1>3, <1>4
    DEF ClientInv, Silent, AnswerAwaited, RefusalComes, GrantComes, Unheard, SubSession, HasSent
  <2> QED BY <2>1, <2>2 DEF ClientInv
<1>7. OthersLinked(c) /\ stored' \in Nat
  BY <1>1 DEF OthersLinked, PipesInv, RestTyped
<1> QED BY <1>1, <1>5, <1>6, <1>7, ThreadLocal

\* For a publisher's thread, which reads where the answer passes, more has to
\* be known.
LEMMA PubThreadLocal ==
  ASSUME PipesInv, NEW c \in Clients, c \in Pubs, NEW label, ThreadAt(c, label),
         label \in {"probe", "follow_wait", "take", "store", "stored"},
         pc[Thread(c)] \in Following \cup {"follow"},
         OnlyPipe(c), PipesTyped', OnlyRead(Thread(c)), linked' = linked,
         UNCHANGED <<alive, boxThere, mainVars, sent>>, stored' \in Nat,
         (\A i \in DOMAIN pipe[c].data : pipe[c].data[i] \in Grant) =>
           \A i \in DOMAIN pipe'[c].data : pipe'[c].data[i] \in Grant,
         FifoEnds(c)', Silent(c)', AnswerAwaited(c)'
  PROVE  PipesInv'
<1>1. /\ alive' = alive /\ boxThere' = boxThere /\ sent' = sent
      /\ req' = req /\ verdict' = verdict /\ UNCHANGED <<alive, boxThere, mainVars>>
  BY DEF mainVars
<1>2. pc[Thread(c)] \notin {"none", "end", "done"} /\ ClientInv(c)
  BY DEF Following, PipesInv
<1>3. verdict[c] = "ok"
  BY <1>2, ThreadFacts
<1>4. /\ pc'[Thread(c)] = label /\ pc'[Client(c)] = pc[Client(c)] /\ pc'[Main] = pc[Main]
      /\ acc'[Client(c)] = acc[Client(c)] /\ acc'[Main] = acc[Main]
  BY ProcessFacts DEF ThreadAt, OnlyRead, PipesInv, RestTyped
<1>5. RequestServed'
  <2>1. \A d \in Clients : \/ pc'[Thread(d)] = pc[Thread(d)]
                           \/ pc'[Thread(d)] \notin {"end", "done"} /\ pc[Thread(d)] # "none"
    BY <1>2 DEF ThreadAt
  <2> QED BY <1>1, <1>4, <2>1 DEF PipesInv, RequestServed
<1>6. ClientInv(c)'
  <2>1. Labelled(c)' /\ NameKept(c)' /\ Decisions(c)'
    BY <1>1, <1>2, <1>3, <1>4
    DEF ClientInv, Labelled, NameKept, Decisions, BeforeTake, Following
  <2>2. RefusalComes(c)'
    BY <1>1, <1>3 DEF RefusalComes
  <2>3. GrantComes(c)'
    BY <1>1, <1>2, <1>4 DEF ClientInv, GrantComes, Seeing
  <2> QED BY <2>1, <2>2, <2>3 DEF ClientInv
<1>7. /\ OthersLinked(c) /\ sent' \in [Clients -> Nat \cup {-1}]
      /\ \A d \in Clients : d # c => sent'[d] = sent[d]
  BY <1>1 DEF OthersLinked, PipesInv, RestTyped
<1> QED BY <1>1, <1>5, <1>6, <1>7, ThreadLocal

\* Is there a box?
LEMMA ProbeStep ==
  ASSUME PipesInv, NEW c \in Clients, DoesBoxExist(c)
  PROVE  PipesInv'
<1> DEFINE next == IF boxThere THEN "follow" ELSE "end"
<1>1. /\ pc[Thread(c)] = "probe" /\ pipe' = pipe /\ linked' = linked /\ acc' = acc
      /\ UNCHANGED Others
  BY DEF DoesBoxExist, pipeVars
<1>2. ThreadAt(c, next)
  BY GotoSeen DEF PipesInv, DoesBoxExist
<1>3. next \in {"follow", "end"} /\ (boxThere => next = "follow")
  OBVIOUS
<1> HIDE DEF next
<1>4. /\ alive' = alive /\ boxThere' = boxThere /\ stored' = stored /\ req' = req
      /\ verdict' = verdict /\ sent' = sent /\ OthersLinked(c) /\ OnlyRead(Thread(c))
      /\ PipesTyped' /\ OnlyPipe(c) /\ UNCHANGED <<alive, boxThere, mainVars>>
      /\ stored' \in Nat /\ sent' \in [Clients -> Nat \cup {-1}]
  BY <1>1, ClientKeeps DEF Others, mainVars, PipesInv, RestTyped
<1>5. pc'[Thread(c)] = next /\ pc'[Client(c)] = pc[Client(c)] /\ pc'[Main] = pc[Main]
  BY <1>2 DEF ThreadAt
<1>6. ClientInv(c) /\ verdict[c] = "ok"
      /\ (pc[Main] \in MainWrites \cup {"respond"} /\ req = c => next = "follow")
  BY <1>1, <1>3, ThreadFacts DEF PipesInv
<1>7. RequestServed'
  BY <1>2, <1>3, <1>1, <1>4, <1>6 DEF PipesInv, RequestServed, ThreadAt
<1>8. ClientInv(c)'
  <2>1. FifoEnds(c)'
    BY <1>1, <1>3, <1>4, <1>5, <1>6 DEF ClientInv, FifoEnds, Following
  <2>2. Labelled(c)' /\ NameKept(c)' /\ Decisions(c)'
    BY <1>1, <1>3, <1>4, <1>5, <1>6 DEF ClientInv, Labelled, NameKept, Decisions, BeforeTake
  <2>3. Cause => Cause'
    BY <1>2, <1>4 DEF Cause, MayKill, ThreadAt
  <2>4. Silent(c)' /\ AnswerAwaited(c)'
    BY <1>1, <1>3, <1>4, <1>5, <1>6, <2>3
    DEF ClientInv, Silent, AnswerAwaited, Unheard, SubSession, HasSent, BeforeTake
  <2>5. RefusalComes(c)' /\ GrantComes(c)'
    BY <1>1, <1>4, <1>5, <1>6 DEF ClientInv, RefusalComes, GrantComes, Seeing
  <2> QED BY <2>1, <2>2, <2>4, <2>5 DEF ClientInv
<1> QED BY <1>2, <1>4, <1>7, <1>8, ThreadLocal

\* There is none: the thread unlinks the FIFO and ends.
LEMMA EndThreadStep ==
  ASSUME PipesInv, NEW c \in Clients, EndThread(c)
  PROVE  PipesInv'
<1>1. /\ pc[Thread(c)] = "end" /\ pipe' = pipe /\ linked' = linked \ {c} /\ acc' = acc
      /\ UNCHANGED Others
  BY DEF EndThread
<1>2. ThreadAt(c, "done")
  BY GotoSeen DEF PipesInv, EndThread
<1>3. /\ alive' = alive /\ boxThere' = boxThere /\ stored' = stored /\ req' = req
      /\ verdict' = verdict /\ sent' = sent /\ OnlyRead(Thread(c))
      /\ UNCHANGED <<alive, boxThere, mainVars>>
      /\ stored' \in Nat /\ sent' \in [Clients -> Nat \cup {-1}]
  BY <1>1, ClientKeeps DEF Others, mainVars, PipesInv, RestTyped
<1>4. PipesTyped' /\ OnlyPipe(c) /\ OthersLinked(c)
  BY <1>1, FifoFacts DEF PipesInv, PipesTyped, OnlyPipe, OthersLinked
<1>5. pc'[Thread(c)] = "done" /\ pc'[Client(c)] = pc[Client(c)] /\ pc'[Main] = pc[Main]
  BY <1>2 DEF ThreadAt
<1>6. /\ ClientInv(c) /\ verdict[c] = "ok"
      /\ ~(pc[Main] \in MainWrites \cup {"respond"} /\ req = c)
  BY <1>1, ThreadFacts DEF PipesInv
<1>7. RequestServed'
  BY <1>2, <1>1, <1>3, <1>6 DEF PipesInv, RequestServed, ThreadAt
<1>8. ClientInv(c)'
  <2>1. FifoEnds(c)'
    BY <1>1, <1>3, <1>5, <1>6 DEF ClientInv, FifoEnds, Following
  <2>2. Labelled(c)' /\ NameKept(c)' /\ Decisions(c)'
    BY <1>1, <1>3, <1>5, <1>6 DEF ClientInv, Labelled, NameKept, Decisions
  <2>3. Silent(c)' /\ AnswerAwaited(c)'
    BY <1>1, <1>3, <1>5, <1>6
    DEF ClientInv, Silent, AnswerAwaited, Unheard, SubSession, HasSent
  <2>4. RefusalComes(c)' /\ GrantComes(c)'
    BY <1>1, <1>3, <1>5, <1>6 DEF ClientInv, RefusalComes, GrantComes, Seeing
  <2> QED BY <2>1, <2>2, <2>3, <2>4 DEF ClientInv
<1> QED BY <1>2, <1>3, <1>4, <1>7, <1>8, ThreadLocal

\* open() of a subscriber's FIFO.
LEMMA SubOpenStep ==
  ASSUME PipesInv, alive, NEW c \in Clients, c \in Subs,
         BeginOpen(Thread(c), c, "writers", "follow", "follow_wait")
  PROVE  PipesInv'
<1>1. pc[Thread(c)] = "follow" /\ Thread(c) \in Processes /\ Thread(c) \in Broker /\ c \in Fifos
      /\ ClientInv(c)
  BY ProcessFacts, FifoFacts DEF BeginOpen, PipesInv
<1>2. c \notin Pubs /\ Cause
  BY <1>1, ThreadFacts
<1>3. CASE Dies(Thread(c))
  BY <1>1, <1>2, <1>3, DiesStep
<1>4. CASE /\ OpenEnd(Thread(c), c, "writers") /\ Goto(Thread(c), "follow_wait")
           /\ acc' = [acc EXCEPT ![Thread(c)] = <<>>] /\ UNCHANGED <<linked, Others>>
  <2>1. ThreadAt(c, "follow_wait")
    BY <1>4, GotoSeen DEF PipesInv
  <2>2. /\ PipesTyped' /\ OnlyPipe(c)
        /\ pipe'[c].readers = pipe[c].readers
        /\ pipe'[c].writers = pipe[c].writers \cup {Thread(c)}
        /\ pipe'[c].met = IF pipe[c].readers = {} THEN pipe[c].met
                          ELSE pipe[c].met \cup pipe[c].readers \cup {Thread(c)}
    BY <1>1, <1>4, OpenEffect DEF PipesInv
  <2>3. OnlyRead(Thread(c))
    BY <1>1, <1>4, EmptySeq DEF OnlyRead, PipesInv, RestTyped
  <2>4. /\ alive' = alive /\ req' = req /\ sent' = sent /\ linked' = linked
        /\ UNCHANGED <<alive, boxVars, mainVars>> /\ sent' \in [Clients -> Nat \cup {-1}]
    BY <1>4, ClientKeeps DEF Others, PipesInv, RestTyped
  <2>5. /\ pc'[Thread(c)] = "follow_wait" /\ pc'[Client(c)] = pc[Client(c)]
        /\ pc'[Main] = pc[Main]
    BY <2>1 DEF ThreadAt
  <2>6. FifoEnds(c)'
    BY <1>1, <1>2, <2>2, <2>4, <2>5, ProcessFacts DEF ClientInv, FifoEnds, Following
  <2> QED BY <1>1, <2>1, <2>2, <2>3, <2>4, <2>6, SubThreadLocal
<1> QED BY <1>3, <1>4 DEF BeginOpen

\* The opening returns, or the box is read.
LEMMA SubMoveStep ==
  ASSUME PipesInv, NEW c \in Clients, c \in Subs,
         EndOpen(Thread(c), c, "follow_wait", "fetch") \/ ReadBox(c)
  PROVE  PipesInv'
<1>1. PICK label \in {"fetch", "tell", "told"} :
        /\ Goto(Thread(c), label)
        /\ pc[Thread(c)] \in {"follow_wait", "fetch"}
        /\ label = "tell" => sent'[c] \in Nat
        /\ sent' \in [Clients -> Nat \cup {-1}] /\ \A d \in Clients : d # c => sent'[d] = sent[d]
        /\ pipe' = pipe /\ linked' = linked /\ acc' = acc
        /\ UNCHANGED <<alive, boxVars, mainVars>>
  <2>1. CASE EndOpen(Thread(c), c, "follow_wait", "fetch")
    BY <2>1 DEF EndOpen, pipeVars, Others, PipesInv, RestTyped
  <2>2. CASE ReadBox(c)
    <3>1. PICK text : /\ Goto(Thread(c), IF text # sent[c] THEN "tell" ELSE "told")
                      /\ text = IF boxThere /\ stored > 0 THEN stored
                                ELSE IF sent[c] = -1 THEN 0 ELSE sent[c]
                      /\ sent' = [sent EXCEPT ![c] = text]
      BY <2>2 DEF ReadBox
    <3>2. text \in Nat
      BY <3>1 DEF PipesInv, RestTyped
    <3>3. /\ pc[Thread(c)] = "fetch" /\ pipe' = pipe /\ linked' = linked /\ acc' = acc
          /\ UNCHANGED <<alive, boxVars, mainVars>>
      BY <2>2 DEF ReadBox, pipeVars
    <3>4. /\ sent' \in [Clients -> Nat \cup {-1}] /\ sent'[c] \in Nat
          /\ \A d \in Clients : d # c => sent'[d] = sent[d]
      BY <3>1, <3>2 DEF PipesInv, RestTyped
    <3> QED BY <3>1, <3>3, <3>4
  <2> QED BY <2>1, <2>2
<1>2. ThreadAt(c, label)
  BY <1>1, GotoSeen DEF PipesInv
<1>3. OnlyPipe(c) /\ PipesTyped' /\ OnlyRead(Thread(c)) /\ alive' = alive /\ req' = req
  BY <1>1, ProcessFacts
  DEF OnlyPipe, OnlyRead, PipesInv, PipesTyped, RestTyped, mainVars
<1>4. /\ pc'[Thread(c)] = label /\ pc'[Client(c)] = pc[Client(c)] /\ pc'[Main] = pc[Main]
  BY <1>2 DEF ThreadAt
<1>5. FifoEnds(c)'
  <2>1. ClientInv(c)
    BY DEF PipesInv
  <2>2. pc[Thread(c)] \in Following /\ label \in Following
    BY <1>1 DEF Following
  <2> QED BY <1>1, <1>3, <1>4, <2>1, <2>2 DEF ClientInv, FifoEnds
<1>6. pc[Thread(c)] \in Following
  BY <1>1 DEF Following
<1> QED BY <1>1, <1>2, <1>3, <1>5, <1>6, SubThreadLocal

\* write() of a message.
LEMMA SubTellStep ==
  ASSUME PipesInv, alive, NEW c \in Clients, c \in Subs,
         Send(Thread(c), c, Message(sent[c]), "tell", "told")
  PROVE  PipesInv'
<1>1. pc[Thread(c)] = "tell" /\ Thread(c) \in Processes /\ Thread(c) \in Broker /\ c \in Fifos
      /\ ClientInv(c)
  BY ProcessFacts, FifoFacts DEF Send, PipesInv
<1>2. Cause /\ sent[c] \in Nat
  BY <1>1, ThreadFacts DEF ClientInv, Labelled
<1>3. CASE Dies(Thread(c))
  BY <1>1, <1>2, <1>3, DiesStep
<1>4. CASE /\ Put(c, Message(sent[c])) /\ Goto(Thread(c), "told")
           /\ UNCHANGED <<linked, acc, Others>>
  <2>1. ThreadAt(c, "told")
    BY <1>4, GotoSeen DEF PipesInv
  <2>2. Message(sent[c]) \in Seq(Piece)
    BY <1>2 DEF Message, Piece
  <2>3. PipesTyped' /\ OnlyData(c)
    BY <1>1, <1>4, <2>2, PutEffect DEF PipesInv
  <2>4. /\ alive' = alive /\ req' = req /\ sent' = sent /\ linked' = linked
        /\ UNCHANGED <<alive, boxVars, mainVars>> /\ sent' \in [Clients -> Nat \cup {-1}]
        /\ OnlyRead(Thread(c))
    BY <1>4, ClientKeeps DEF Others, PipesInv, RestTyped
  <2>5. /\ pc'[Thread(c)] = "told" /\ pc'[Client(c)] = pc[Client(c)] /\ pc'[Main] = pc[Main]
    BY <2>1 DEF ThreadAt
  <2>6. FifoEnds(c)'
    BY <1>1, <2>3, <2>4, <2>5 DEF ClientInv, FifoEnds, Following, OnlyData
  <2>7. pc[Thread(c)] \in Following /\ OnlyPipe(c)
    BY <1>1, <2>3 DEF Following, OnlyData
  <2> QED BY <2>1, <2>3, <2>4, <2>6, <2>7, SubThreadLocal
<1> QED BY <1>3, <1>4 DEF Send

\* close() of a subscriber's FIFO.
LEMMA SubCloseStep ==
  ASSUME PipesInv, NEW c \in Clients, c \in Subs, CloseEnd(Thread(c), c, "told", "probe")
  PROVE  PipesInv'
<1>1. /\ pc[Thread(c)] = "told" /\ Close(Thread(c), c) /\ Goto(Thread(c), "probe")
      /\ linked' = linked /\ acc' = acc /\ UNCHANGED Others
      /\ Thread(c) \in Processes /\ c \in Fifos /\ ClientInv(c)
  BY ProcessFacts, FifoFacts DEF CloseEnd, PipesInv
<1>2. ThreadAt(c, "probe")
  BY <1>1, GotoSeen DEF PipesInv
<1>3. PipesTyped' /\ OnlyPipe(c) /\ Closed(c, {Thread(c)})
  BY <1>1, CloseEffect DEF PipesInv
<1>4. /\ alive' = alive /\ req' = req /\ sent' = sent /\ OnlyRead(Thread(c))
      /\ UNCHANGED <<alive, boxVars, mainVars>> /\ sent' \in [Clients -> Nat \cup {-1}]
  BY <1>1, ClientKeeps DEF Others, PipesInv, RestTyped
<1>5. /\ pc'[Thread(c)] = "probe" /\ pc'[Client(c)] = pc[Client(c)] /\ pc'[Main] = pc[Main]
  BY <1>2 DEF ThreadAt
<1>6. FifoEnds(c)'
  BY <1>1, <1>3, <1>4, <1>5, ProcessFacts DEF ClientInv, FifoEnds, Following, Closed
<1>7. pc[Thread(c)] \in Following
  BY <1>1 DEF Following
<1> QED BY <1>1, <1>2, <1>3, <1>4, <1>6, <1>7, SubThreadLocal

\* What the steps of a publisher's thread leave alone.
LEMMA PubThreadKeeps ==
  ASSUME PipesInv, NEW c \in Clients, UNCHANGED Others
  PROVE  /\ UNCHANGED <<alive, boxThere, mainVars, sent>>
         /\ alive' = alive /\ req' = req /\ verdict' = verdict /\ stored' \in Nat
         /\ acc' = acc => OnlyRead(Thread(c))
         /\ pipe' = pipe /\ linked' = linked => PipesTyped' /\ OnlyPipe(c)
BY ClientKeeps DEF Others, boxVars, mainVars, PipesInv, RestTyped

\* open() of a publisher's FIFO, which has its name until the thread ends.
LEMMA PubOpenStep ==
  ASSUME PipesInv, alive, NEW c \in Clients, c \in Pubs,
         BeginOpen(Thread(c), c, "readers", "follow", "follow_wait")
  PROVE  PipesInv'
<1>1. pc[Thread(c)] = "follow" /\ Thread(c) \in Processes /\ c \in Fifos /\ ClientInv(c)
  BY ProcessFacts, FifoFacts DEF BeginOpen, PipesInv
<1>2. verdict[c] = "ok" /\ c \notin Subs /\ c \in linked
  BY <1>1, ThreadFacts
<1>3. /\ OpenEnd(Thread(c), c, "readers") /\ Goto(Thread(c), "follow_wait")
      /\ acc' = [acc EXCEPT ![Thread(c)] = <<>>] /\ linked' = linked /\ UNCHANGED Others
  BY <1>2 DEF BeginOpen
<1>4. ThreadAt(c, "follow_wait")
  BY <1>3, GotoSeen DEF PipesInv
<1>5. /\ PipesTyped' /\ OnlyPipe(c)
      /\ pipe'[c].readers = pipe[c].readers \cup {Thread(c)}
      /\ pipe'[c].writers = pipe[c].writers
      /\ pipe'[c].data = pipe[c].data
      /\ pipe'[c].met = IF pipe[c].writers = {} THEN pipe[c].met
                        ELSE pipe[c].met \cup pipe[c].writers \cup {Thread(c)}
  BY <1>1, <1>3, OpenEffect DEF PipesInv
<1>6. OnlyRead(Thread(c))
  BY <1>1, <1>3, EmptySeq DEF OnlyRead, PipesInv, RestTyped
<1>7. /\ UNCHANGED <<alive, boxThere, mainVars, sent>>
      /\ alive' = alive /\ req' = req /\ verdict' = verdict /\ stored' \in Nat
  BY <1>3, PubThreadKeeps
<1>8. /\ pc'[Thread(c)] = "follow_wait" /\ pc'[Client(c)] = pc[Client(c)]
      /\ pc'[Main] = pc[Main]
  BY <1>4 DEF ThreadAt
<1>9. FifoEnds(c)'
  <2>1. pc[Thread(c)] \notin Following /\ pc'[Thread(c)] \in Following
    BY <1>1, <1>8 DEF Following
  <2>2. FifoEnds(c)
    BY <1>1 DEF ClientInv
  <2> QED BY <1>2, <1>5, <1>7, <1>8, <2>1, <2>2, ProcessFacts DEF FifoEnds
<1>10. Unheard(c) => pipe[c].writers = {}
  <2>1. Unheard(c) => pc[Client(c)] \notin Publishing /\ pc[Main] \notin MainWrites
    <3>1. Unheard(c) => pc[Client(c)] \in PreAnswer \cup Over
      BY <1>1 DEF ClientInv, Silent
    <3>2. \A l \in PreAnswer \cup Over : l \notin Publishing
      BY DEF PreAnswer, Over, Publishing
    <3> QED BY <1>2, <3>1, <3>2 DEF Unheard, MainWrites
  <2>2. \A q \in pipe[c].writers : q \in Processes
    BY <1>1 DEF PipesInv, PipesTyped, PipeType
  <2>3. ASSUME Unheard(c), NEW q \in pipe[c].writers PROVE FALSE
    <3>1. \/ q = Main /\ pc[Main] \in MainWrites
          \/ q = Client(c) /\ pc[Client(c)] \in Publishing
          \/ q = Thread(c) /\ c \in Subs
      BY <1>1, <2>2 DEF ClientInv, FifoEnds
    <3> QED BY <1>2, <2>1, <2>3, <3>1
  <2> QED BY <2>3
<1>11. Silent(c)' /\ AnswerAwaited(c)'
  <2>1. Silent(c)'
    BY <1>1, <1>2, <1>5, <1>7, <1>8, <1>10
    DEF ClientInv, Silent, Unheard, SubSession, HasSent, BeforeTake
  <2>2. AnswerAwaited(c)'
    BY <1>1, <1>2, <1>5, <1>7, <1>8 DEF ClientInv, AnswerAwaited, SubSession, BeforeTake
  <2> QED BY <2>1, <2>2
<1> QED BY <1>1, <1>3, <1>4, <1>5, <1>6, <1>7, <1>9, <1>11, PubThreadLocal

\* The opening returns, or the reading is over.
LEMMA PubMoveStep ==
  ASSUME PipesInv, NEW c \in Clients, c \in Pubs,
         \/ EndOpen(Thread(c), c, "follow_wait", "take")
         \/ ReadEnd(Thread(c), c, "take", "store")
         \/ WriteMessage(c)
  PROVE  PipesInv'
<1>1. PICK label \in {"take", "store", "stored"} :
        /\ Goto(Thread(c), label)
        /\ \/ pc[Thread(c)] = "follow_wait" /\ label = "take" /\ Thread(c) \in pipe[c].met
           \/ pc[Thread(c)] = "take" /\ label = "store" /\ pipe[c].writers = {}
           \/ pc[Thread(c)] = "store" /\ label = "stored"
        /\ pipe' = pipe /\ linked' = linked /\ acc' = acc
        /\ UNCHANGED <<alive, boxThere, mainVars, sent>> /\ stored' \in Nat
  <2>1. CASE EndOpen(Thread(c), c, "follow_wait", "take")
    BY <2>1, PubThreadKeeps DEF EndOpen, Opened, pipeVars
  <2>2. CASE ReadEnd(Thread(c), c, "take", "store")
    BY <2>2, PubThreadKeeps DEF ReadEnd, AtEnd, pipeVars
  <2>3. CASE WriteMessage(c)
    BY <2>3 DEF WriteMessage, pipeVars, PipesInv, RestTyped
  <2> QED BY <2>1, <2>2, <2>3
<1>2. ThreadAt(c, label)
  BY <1>1, GotoSeen DEF PipesInv
<1>3. /\ OnlyPipe(c) /\ PipesTyped' /\ OnlyRead(Thread(c))
      /\ alive' = alive /\ req' = req /\ verdict' = verdict
  BY <1>1, ProcessFacts
  DEF OnlyPipe, OnlyRead, PipesInv, PipesTyped, RestTyped, mainVars
<1>4. /\ pc'[Thread(c)] = label /\ pc'[Client(c)] = pc[Client(c)] /\ pc'[Main] = pc[Main]
  BY <1>2 DEF ThreadAt
<1>5. ClientInv(c) /\ ~Unheard(c)
  BY <1>1 DEF PipesInv, ClientInv, Silent, BeforeTake
<1>6. FifoEnds(c)'
  <2>1. pc[Thread(c)] \in Following /\ label \in Following
    BY <1>1 DEF Following
  <2> QED BY <1>1, <1>3, <1>4, <1>5, <2>1 DEF ClientInv, FifoEnds
<1>7. Silent(c)'
  BY <1>1, <1>3, <1>4, <1>5 DEF ClientInv, Silent, Unheard, SubSession, HasSent
<1>8. AnswerAwaited(c)'
  <2>1. Cause => Cause'
    BY <1>2, <1>3 DEF Cause, MayKill, ThreadAt
  <2>2. CASE label = "take"
    BY <1>1, <1>3, <1>4, <1>5, <2>1, <2>2 DEF ClientInv, AnswerAwaited, SubSession
  <2>3. CASE label = "store"
    <3>1. ~(alive /\ req = c /\ pc[Main] \in MainWrites)
      BY <1>1, <1>5, <2>3, ProcessFacts DEF ClientInv, FifoEnds
    <3> QED BY <1>3, <1>4, <3>1 DEF AnswerAwaited
  <2>4. CASE label = "stored"
    <3>1. ~(alive /\ req = c /\ pc[Main] \in MainWrites /\ ~SubSession(c))
      BY <1>1, <1>5, <2>4 DEF ClientInv, AnswerAwaited, BeforeTake
    <3> QED BY <1>3, <1>4, <3>1 DEF AnswerAwaited, SubSession
  <2> QED BY <2>2, <2>3, <2>4
<1>9. pc[Thread(c)] \in Following
  BY <1>1 DEF Following
<1> QED BY <1>1, <1>2, <1>3, <1>6, <1>7, <1>8, <1>9, PubThreadLocal

\* read() by a publisher's thread: of the answer, or of a message.
LEMMA PubTakeStep ==
  ASSUME PipesInv, NEW c \in Clients, c \in Pubs, Read(Thread(c), c, "take")
  PROVE  PipesInv'
<1>1. pc[Thread(c)] = "take" /\ Thread(c) \in Processes /\ c \in Fifos /\ HasData(c)
      /\ ClientInv(c)
  BY ProcessFacts, FifoFacts DEF Read, PipesInv
<1>2. CASE OverrunKills /\ Dies(Thread(c))
  BY <1>1, <1>2, DiesStep, ProcessFacts
<1>3. CASE /\ Take(c) /\ UNCHANGED <<linked, pc, Others>>
           /\ acc' = [acc EXCEPT ![Thread(c)] = Append(@, Head(pipe[c].data))]
  <2>1. ThreadAt(c, "take")
    BY <1>1, <1>3, ProcessFacts DEF ThreadAt, PipesInv, RestTyped
  <2>2. PipesTyped' /\ OnlyData(c) /\ pipe'[c].data = Tail(pipe[c].data) /\ OnlyPipe(c)
    BY <1>1, <1>3, TakeEffect DEF PipesInv, OnlyData
  <2>3. /\ pipe[c].data \in Seq(Piece) /\ pipe[c].data # <<>> /\ acc[Thread(c)] \in Seq(Piece)
        /\ acc'[Thread(c)] = Append(acc[Thread(c)], Head(pipe[c].data))
    BY <1>1, <1>3 DEF PipesInv, PipesTyped, RestTyped, HasData
  <2>4. acc'[Thread(c)] \in Seq(Piece)
    BY <2>3, MovedPiece
  <2>5. OnlyRead(Thread(c))
    BY <1>3, <2>4, <1>1 DEF OnlyRead, PipesInv, RestTyped
  <2>6. (\A i \in DOMAIN pipe[c].data : pipe[c].data[i] \in Grant) =>
          \A i \in DOMAIN pipe'[c].data : pipe'[c].data[i] \in Grant
    BY <2>2, <2>3, MovedPiece
  <2>7. /\ UNCHANGED <<alive, boxThere, mainVars, sent>> /\ linked' = linked /\ pc' = pc
        /\ alive' = alive /\ req' = req /\ verdict' = verdict /\ stored' \in Nat
    BY <1>3, PubThreadKeeps
  <2>8. ~Unheard(c)
    BY <1>1 DEF ClientInv, Silent, BeforeTake
  <2>9. FifoEnds(c)' /\ Silent(c)' /\ AnswerAwaited(c)'
    <3>1. FifoEnds(c)'
      BY <1>1, <2>2, <2>7 DEF ClientInv, FifoEnds, OnlyData
    <3>2. Silent(c)'
      BY <1>1, <2>7, <2>8 DEF ClientInv, Silent, Unheard, SubSession, HasSent
    <3>3. AnswerAwaited(c)'
      BY <1>1, <2>2, <2>7 DEF ClientInv, AnswerAwaited, SubSession, OnlyData, Cause, MayKill
    <3> QED BY <3>1, <3>2, <3>3
  <2>10. pc[Thread(c)] \in Following
    BY <1>1 DEF Following
  <2> QED BY <1>1, <2>1, <2>2, <2>5, <2>6, <2>7, <2>9, <2>10, PubThreadLocal
<1> QED BY <1>2, <1>3 DEF Read

\* close() of a publisher's FIFO.
LEMMA PubCloseStep ==
  ASSUME PipesInv, NEW c \in Clients, c \in Pubs, CloseEnd(Thread(c), c, "stored", "probe")
  PROVE  PipesInv'
<1>1. /\ pc[Thread(c)] = "stored" /\ Close(Thread(c), c) /\ Goto(Thread(c), "probe")
      /\ linked' = linked /\ acc' = acc /\ UNCHANGED Others
      /\ Thread(c) \in Processes /\ c \in Fifos /\ ClientInv(c)
  BY ProcessFacts, FifoFacts DEF CloseEnd, PipesInv
<1>2. ThreadAt(c, "probe")
  BY <1>1, GotoSeen DEF PipesInv
<1>3. PipesTyped' /\ OnlyPipe(c) /\ Closed(c, {Thread(c)})
  BY <1>1, CloseEffect DEF PipesInv
<1>4. /\ UNCHANGED <<alive, boxThere, mainVars, sent>> /\ OnlyRead(Thread(c))
      /\ alive' = alive /\ req' = req /\ verdict' = verdict /\ stored' \in Nat
  BY <1>1, PubThreadKeeps
<1>5. /\ pc'[Thread(c)] = "probe" /\ pc'[Client(c)] = pc[Client(c)] /\ pc'[Main] = pc[Main]
  BY <1>2 DEF ThreadAt
<1>6. FifoEnds(c)'
  BY <1>1, <1>3, <1>4, <1>5, ProcessFacts DEF ClientInv, FifoEnds, Following, Closed
<1>7. ~Unheard(c) /\ ~(alive /\ req = c /\ pc[Main] \in MainWrites /\ ~SubSession(c))
  BY <1>1 DEF ClientInv, Silent, AnswerAwaited, BeforeTake
<1>8. Silent(c)' /\ AnswerAwaited(c)'
  BY <1>1, <1>4, <1>5, <1>7
  DEF ClientInv, Silent, AnswerAwaited, Unheard, SubSession, HasSent
<1>9. (\A i \in DOMAIN pipe[c].data : pipe[c].data[i] \in Grant) =>
        \A i \in DOMAIN pipe'[c].data : pipe'[c].data[i] \in Grant
  BY <1>3 DEF Closed
<1>10. pc[Thread(c)] \in Following
  BY <1>1 DEF Following
<1> QED BY <1>1, <1>2, <1>3, <1>4, <1>6, <1>8, <1>9, <1>10, PubThreadLocal

\* Every step of a thread keeps the invariant.
LEMMA ThreadsStep ==
  ASSUME PipesInv, alive, NEW c \in Clients, ThreadStep(c)
  PROVE  PipesInv'
<1>1. CASE DoesBoxExist(c) BY <1>1, ProbeStep
<1>2. CASE EndThread(c) BY <1>2, EndThreadStep
<1>3. CASE PubThread(c)
  <2>1. c \in Pubs
    BY <1>3 DEF PubThread
  <2>2. CASE BeginOpen(Thread(c), c, "readers", "follow", "follow_wait")
    BY <2>1, <2>2, PubOpenStep
  <2>3. CASE Read(Thread(c), c, "take") BY <2>1, <2>3, PubTakeStep
  <2>4. CASE CloseEnd(Thread(c), c, "stored", "probe") BY <2>1, <2>4, PubCloseStep
  <2> QED BY <1>3, <2>1, <2>2, <2>3, <2>4, PubMoveStep DEF PubThread
<1>4. CASE SubThread(c)
  <2>1. c \in Subs
    BY <1>4 DEF SubThread
  <2>2. CASE BeginOpen(Thread(c), c, "writers", "follow", "follow_wait")
    BY <2>1, <2>2, SubOpenStep
  <2>3. CASE Send(Thread(c), c, Message(sent[c]), "tell", "told") BY <2>1, <2>3, SubTellStep
  <2>4. CASE CloseEnd(Thread(c), c, "told", "probe") BY <2>1, <2>4, SubCloseStep
  <2> QED BY <1>4, <2>1, <2>2, <2>3, <2>4, SubMoveStep DEF SubThread
<1> QED BY <1>1, <1>2, <1>3, <1>4 DEF ThreadStep

-----------------------------------------------------------------------------
(* The theorems.                                                           *)

\* Every step of Main keeps the invariant.
LEMMA MainStepKeeps ==
  ASSUME PipesInv, alive, MainStep
  PROVE  PipesInv'
<1>1. CASE CodeReceiver
  BY <1>1, MainOpensStep, MainOpenedStep, MainReadsStep, MainReadEndStep, MainClosesStep
  DEF CodeReceiver
<1>2. CASE Serve
  BY <1>2, ServeStep
<1>3. CASE SendResponse
  BY <1>3, RespondStep, RespondOpenedStep, AnswerStep, RespondedStep DEF SendResponse
<1> QED BY <1>1, <1>2, <1>3 DEF MainStep

\* The invariant holds when the broker has started and nobody came.
LEMMA PipesStart == Init => PipesInv
<1> SUFFICES ASSUME Init PROVE PipesInv
  OBVIOUS
<1>1. /\ pipe = [f \in Fifos |-> EmptyPipe] /\ linked = {Register}
      /\ pc = [p \in Processes |-> pc[p]] /\ pc[Main] = "open"
      /\ \A c \in Clients : pc[Thread(c)] = "none" /\ pc[Client(c)] = "start"
  BY ProcessFacts DEF Init, PipesInit
<1>2. /\ acc = [p \in Processes |-> <<>>] /\ alive = TRUE /\ boxThere = BoxAtStart
      /\ stored = StoredAtStart /\ MAX_SESSIONS = MaxSessions /\ req = Register
      /\ verdict = [c \in Clients |-> "none"] /\ sent = [c \in Clients |-> -1]
  BY DEF Init
<1>3. \A f \in Fifos : /\ pipe[f].readers = {} /\ pipe[f].writers = {} /\ pipe[f].met = {}
                        /\ pipe[f].data = <<>> /\ pipe[f] \in PipeType
  BY <1>1, EmptySeq DEF EmptyPipe, PipeType
<1>4. PipesTyped
  BY <1>1, <1>3, EmptySeq, FifoFacts DEF PipesTyped
<1>5. RestTyped
  <2>1. /\ acc \in [Processes -> Seq(Clients \cup Piece)] /\ acc[Main] \in Seq(Clients)
        /\ \A c \in Clients : acc[Client(c)] \in Seq(Piece) /\ acc[Thread(c)] \in Seq(Piece)
    BY <1>2, EmptySeq, ProcessFacts
  <2>2. /\ alive \in BOOLEAN /\ boxThere \in BOOLEAN /\ stored \in Nat
        /\ MAX_SESSIONS \in 0 .. MaxSessions
    BY <1>2, SessionPipesAssumption
  <2>3. /\ req \in Fifos /\ verdict \in [Clients -> {"none", "ok", "no", "list"}]
        /\ sent \in [Clients -> Nat \cup {-1}]
    BY <1>2, FifoFacts
  <2> QED BY <1>1, <2>1, <2>2, <2>3 DEF RestTyped
<1>6. RegisterInv
  <2>1. /\ pipe[Register].readers = {} /\ pipe[Register].writers = {} /\ pipe[Register].met = {}
        /\ Waiting = <<>>
    BY <1>3, FifoFacts DEF Waiting
  <2>2. RegisterEnds
    BY <1>1, <2>1 DEF RegisterEnds, MainReads, Requesting
  <2>3. RequestsNew
    BY <1>1, <2>1 DEF RequestsNew
  <2>4. RequestComes
    BY <1>1 DEF RequestComes
  <2> QED BY <2>2, <2>3, <2>4 DEF RegisterInv
<1>7. RequestServed
  BY <1>1 DEF RequestServed, MainWrites, MainReads
<1>8. ASSUME NEW c \in Clients PROVE ClientInv(c)
  <2>1. /\ pc[Main] = "open" /\ pc[Thread(c)] = "none" /\ pc[Client(c)] = "start"
        /\ verdict[c] = "none" /\ pipe[c].data = <<>>
        /\ pipe[c].readers = {} /\ pipe[c].writers = {} /\ pipe[c].met = {}
    BY <1>1, <1>2, <1>3, FifoFacts
  <2>2. Labelled(c) /\ NameKept(c) /\ Decisions(c)
    BY <2>1
    DEF Labelled, NameKept, Decisions, PreAnswer, InSession, Publishing, BeforeTake
  <2>3. FifoEnds(c)
    BY <2>1 DEF FifoEnds, Receiving, Publishing, Following, MainWrites
  <2>4. Silent(c) /\ AnswerAwaited(c)
    BY <2>1 DEF Silent, AnswerAwaited, Unheard, HasSent, PreAnswer, BeforeTake, MainWrites
  <2>5. RefusalComes(c) /\ GrantComes(c)
    BY <2>1 DEF RefusalComes, GrantComes
  <2> QED BY <2>2, <2>3, <2>4, <2>5 DEF ClientInv
<1>9. DeathHasCause
  BY <1>2 DEF DeathHasCause
<1> QED BY <1>4, <1>5, <1>6, <1>7, <1>8, <1>9 DEF PipesInv

\* Every step keeps the invariant, interruptions included.
LEMMA PipesNext == PipesInv /\ [NextInterrupted]_vars => PipesInv'
<1> SUFFICES ASSUME PipesInv, [NextInterrupted]_vars PROVE PipesInv'
  OBVIOUS
<1>1. CASE BrokerStep
  BY <1>1, MainStepKeeps, ThreadsStep DEF BrokerStep
<1>2. CASE \E c \in Clients : ClientStep(c) \/ Publish(c)
  BY <1>2, ClientsStep
<1>3. CASE \E c \in Interruptible : Interrupt(c)
  <2>1. PICK c \in Clients : Interrupt(c)
    BY <1>3, SessionPipesAssumption
  <2>2. ClientEnds(c, "interrupted") /\ pc[Client(c)] \notin {"start", "done", "rejected"}
    BY <2>1 DEF Interrupt, Gone
  <2> QED BY <2>2, ClientEndsStep DEF Over
<1>4. CASE UNCHANGED vars
  <2>1. /\ pipe' = pipe /\ linked' = linked /\ pc' = pc /\ acc' = acc /\ alive' = alive
        /\ boxThere' = boxThere /\ stored' = stored /\ MAX_SESSIONS' = MAX_SESSIONS
        /\ req' = req /\ verdict' = verdict /\ sent' = sent
    BY <1>4 DEF vars, pipeVars, boxVars, mainVars
  <2>2. PipesTyped' /\ RestTyped' /\ RequestServed'
    BY <2>1 DEF PipesInv, PipesTyped, RestTyped, RequestServed
  <2>3. Cause' <=> Cause
    BY <2>1 DEF Cause, MayKill
  <2>4. RegisterInv'
    BY <2>1, <2>2, <2>3, RegisterFrame DEF PipesInv
  <2>5. ASSUME NEW c \in Clients PROVE ClientInv(c)'
    BY <2>1, <2>3, ClientFrame DEF PipesInv, SamePipe, SameClient
  <2>6. OverrunKills \/ DeathHasCause'
    BY <2>1, <2>3 DEF PipesInv, DeathHasCause, Cause
  <2> QED BY <2>2, <2>4, <2>5, <2>6 DEF PipesInv
<1> QED BY <1>1, <1>2, <1>3, <1>4 DEF NextInterrupted, Next

\* The invariant holds in every state, whoever is interrupted.
THEOREM PipesInvariant == InterruptedSpec => []PipesInv
BY PipesStart, PipesNext, PTL DEF InterruptedSpec

\* The variables keep their types, MAX_SESSIONS does not go below zero however
\* many sessions are asked for, and only who has a FIFO open has met its other
\* end: what a process that left had met does not outlive it.
THEOREM PipesTypeCorrect == InterruptedSpec => []TypeOK
<1>1. PipesInv => TypeOK
  <2> SUFFICES ASSUME PipesInv PROVE TypeOK
    OBVIOUS
  <2>1. pipe \in [Fifos -> PipeEnd]
    BY DEF PipesInv, PipesTyped, PipeType, PipeEnd, Piece
  <2>2. /\ linked \subseteq Fifos /\ stored \in Nat /\ MAX_SESSIONS \in 0 .. MaxSessions
        /\ sent \in [Clients -> Nat \cup {-1}]
    BY DEF PipesInv, PipesTyped, RestTyped
  <2>3. \A f \in Fifos : pipe[f].met \subseteq pipe[f].readers \cup pipe[f].writers
    BY FifoFacts DEF PipesInv, RegisterInv, RegisterEnds, ClientInv, FifoEnds
  <2> QED BY <2>1, <2>2, <2>3 DEF TypeOK
<1> QED BY <1>1, PipesInvariant, PTL

\* A client goes on into a session only if Main granted it, or the broker is
\* dead: however the answer was cut into readings, whatever other requests were
\* served between, and whoever else opened the client's FIFO meanwhile.
THEOREM AcceptedAlwaysGranted == InterruptedSpec => []AcceptedWasGranted
<1>1. PipesInv => AcceptedWasGranted
  BY DEF PipesInv, ClientInv, Decisions, AcceptedWasGranted, InSession
<1> QED BY <1>1, PipesInvariant, PTL

\* A publisher that gives up was refused, although its own thread reads from
\* the FIFO its answer comes through and may take the return code away.
THEOREM RejectedAlwaysRefused == InterruptedSpec => []RejectedWasRefused
<1>1. PipesInv => RejectedWasRefused
  BY SessionPipesAssumption DEF PipesInv, ClientInv, Decisions, RejectedWasRefused
<1> QED BY <1>1, PipesInvariant, PTL

\* Where a reading that overflows its buffer does no harm, what ends the broker
\* is a client that was interrupted or failed, or the session of a subscriber.
THEOREM DeathAlwaysHasCause ==
  ASSUME ~OverrunKills
  PROVE  InterruptedSpec => []DeathHasCause
<1>1. PipesInv => DeathHasCause
  BY DEF PipesInv
<1> QED BY <1>1, PipesInvariant, PTL

=============================================================================
