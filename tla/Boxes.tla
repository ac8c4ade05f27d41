------------------------------- MODULE Boxes -------------------------------
(***************************************************************************)
(* The broker's threads on top of TecnicoFS: the main thread serving       *)
(* create, remove and session requests (mbroker.c), and one thread per     *)
(* session polling a box (sessions.c), all through boxes.c.  A function of *)
(* boxes.c makes several tfs_* calls; g_library_mutex is released between  *)
(* them, so the calls of different threads interleave freely.              *)
(*                                                                         *)
(* The clients' FIFOs are outside this module (SessionPipes has them): a    *)
(* publisher may deliver a message whenever its thread waits for one, and  *)
(* a subscriber reads whatever is sent.  The bytes of a message are those  *)
(* of the box it was published to, so that a misplaced one shows.          *)
(***************************************************************************)
EXTENDS TecnicoFS

CONSTANTS MaxSessions,      \* the second argument of mbroker
          MESSAGE_SIZE,
          Requests,         \* what the clients of PoliteSpec ask for
          ArgsLost          \* may pthreads_add's frame be reused under its threads?

ASSUME BoxesAssumption ==
  /\ MaxSessions \in Nat
  /\ MESSAGE_SIZE \in Nat \ {0}
  /\ Names \subseteq Bytes
  /\ Requests \subseteq {"create", "remove", "pub", "sub"}
  /\ ArgsLost \in BOOLEAN

VARIABLES
  pc, box, fh,      \* where each thread is, its box and its handle
  kind,             \* what a session is for; of Main, what is being requested
  msg,              \* what a session thread is about to write or to send
  ant_msg,          \* what a subscriber thread sent last
  MAX_SESSIONS      \* sessions the broker still grants

threadVars == <<pc, box, fh, kind, msg, ant_msg, MAX_SESSIONS>>
allVars == <<vars, threadVars>>

Main     == 0
Sessions == 1 .. MaxSessions
Threads  == Sessions \cup {Main}

\* What was published to b in one message; <<>> is a publisher that closed
\* its FIFO without writing.
Messages(b) == {<<>>, <<b>>}

\* A client publishes to the box it asked for, which its thread may no longer know.
Published(s) == IF ArgsLost THEN UNION {Messages(b) : b \in Names} ELSE Messages(box[s])

Waiting == {"idle", "done", "unused"}
Running(s) == pc[s] \notin Waiting

BoxExists(b) == ~NotInDir(b)

Goto(t, label) == pc' = [pc EXCEPT ![t] = label]

-----------------------------------------------------------------------------
(* One tfs_* call of a thread.                                             *)

OpenBox(t, mode) ==
  /\ TfsOpen(box[t], mode)
  /\ fh' = [fh EXCEPT ![t] = ret']

\* mutant: a handle is closed again after somebody else may have got it
CloseKeepsHandle(t) == TfsClose(fh[t]) /\ UNCHANGED fh

CloseBox(t) ==
  /\ TfsClose(fh[t])
  /\ fh' = [fh EXCEPT ![t] = -1]

\* does_box_exist: open for appending, close, compare the handle with -1.
ProbeOpen(t, from, to) ==
  /\ pc[t] = from
  /\ OpenBox(t, {"APPEND"})
  /\ Goto(t, to)
  /\ UNCHANGED <<box, kind, msg, ant_msg, MAX_SESSIONS>>

\* mutant: the handle is compared after it was given up
ProbeSeesClosed(t, from, found, absent) ==
  /\ pc[t] = from
  /\ CloseBox(t)
  /\ Goto(t, absent)
  /\ UNCHANGED <<box, kind, msg, ant_msg, MAX_SESSIONS>>

\* mutant: a box that cannot be opened passes for one that is there
ProbeSeesAll(t, from, found, absent) ==
  /\ pc[t] = from
  /\ CloseBox(t)
  /\ Goto(t, found)
  /\ UNCHANGED <<box, kind, msg, ant_msg, MAX_SESSIONS>>

ProbeClose(t, from, found, absent) ==
  /\ pc[t] = from
  /\ CloseBox(t)
  /\ Goto(t, IF fh[t] # -1 THEN found ELSE absent)
  /\ UNCHANGED <<box, kind, msg, ant_msg, MAX_SESSIONS>>

-----------------------------------------------------------------------------
(* The main thread.                                                        *)

\* A request arrives; the client is answered when Main is idle again.
Request(op, b) ==
  /\ pc[Main] = "idle"
  /\ Goto(Main, CASE op = "create" -> "create_probe"
                  [] op = "remove" -> "remove_open"
                  [] OTHER -> "session")
  /\ box' = [box EXCEPT ![Main] = b]
  /\ kind' = [kind EXCEPT ![Main] = op]
  /\ UNCHANGED <<vars, fh, msg, ant_msg, MAX_SESSIONS>>

CreateOpen ==
  /\ pc[Main] = "create_open"
  /\ OpenBox(Main, {"CREAT"})
  /\ Goto(Main, IF ret' # -1 THEN "create_close" ELSE "idle")
  /\ UNCHANGED <<box, kind, msg, ant_msg, MAX_SESSIONS>>

CreateClose ==
  /\ pc[Main] = "create_close"
  /\ CloseBox(Main)
  /\ Goto(Main, "idle")
  /\ UNCHANGED <<box, kind, msg, ant_msg, MAX_SESSIONS>>

CreateBox ==
  \/ ProbeOpen(Main, "create_probe", "create_probed")
  \/ ProbeClose(Main, "create_probed", "idle", "create_open")
  \/ CreateOpen
  \/ CreateClose

RemoveOpen ==
  /\ pc[Main] = "remove_open"
  /\ OpenBox(Main, {"APPEND"})
  /\ Goto(Main, IF ret' # -1 THEN "remove_close" ELSE "idle")
  /\ UNCHANGED <<box, kind, msg, ant_msg, MAX_SESSIONS>>

RemoveClose ==
  /\ pc[Main] = "remove_close"
  /\ CloseBox(Main)
  /\ Goto(Main, "remove_unlink")
  /\ UNCHANGED <<box, kind, msg, ant_msg, MAX_SESSIONS>>

RemoveUnlink ==
  /\ pc[Main] = "remove_unlink"
  /\ TfsUnlink(box[Main])
  /\ Goto(Main, "idle")
  /\ UNCHANGED <<box, fh, kind, msg, ant_msg, MAX_SESSIONS>>

RemoveBox == RemoveOpen \/ RemoveClose \/ RemoveUnlink

\* mutant: a session asked of a full broker waits for another to end
SessionWaits ==
  /\ pc[Main] = "session"
  /\ MAX_SESSIONS = 0
  /\ \E s \in Sessions : pc[s] = "done"
  /\ Goto(Main, "idle")
  /\ UNCHANGED <<vars, box, fh, kind, msg, ant_msg, MAX_SESSIONS>>

SessionRefused ==
  /\ pc[Main] = "session"
  /\ MAX_SESSIONS = 0
  /\ Goto(Main, "idle")
  /\ UNCHANGED <<vars, box, fh, kind, msg, ant_msg, MAX_SESSIONS>>

\* The MAX_SESSIONS test comes before does_box_exist.
SessionProbe ==
  /\ MAX_SESSIONS # 0
  /\ ProbeOpen(Main, "session", "session_probed")

SessionProbed == ProbeClose(Main, "session_probed", "session_start", "idle")

\* pthreads_add starts a thread, and the count never goes up again.
SessionStart ==
  /\ pc[Main] = "session_start"
  /\ LET s == 1 + MaxSessions - MAX_SESSIONS
     IN  /\ pc' = [pc EXCEPT ![Main] = "idle", ![s] = "probe"]
         /\ box' = [box EXCEPT ![s] = box[Main]]
         /\ kind' = [kind EXCEPT ![s] = kind[Main]]
  /\ MAX_SESSIONS' = MAX_SESSIONS - 1
  /\ UNCHANGED <<vars, fh, msg, ant_msg>>

MainStep == CreateBox \/ RemoveBox \/ SessionRefused \/ SessionProbe \/ SessionProbed
              \/ SessionStart

-----------------------------------------------------------------------------
(* A publisher's thread: pub_thr_func and write_message.                   *)

\* The thread read its client's FIFO up to the end.
Receive(s, m) ==
  /\ pc[s] = "work" /\ kind[s] = "pub"
  /\ msg' = [msg EXCEPT ![s] = m]
  /\ Goto(s, "write_open")
  /\ UNCHANGED <<vars, box, fh, kind, ant_msg, MAX_SESSIONS>>

\* mutant: the box is opened at its start
WriteOpenAtStart(s) ==
  /\ pc[s] = "write_open"
  /\ OpenBox(s, {})
  /\ Goto(s, IF ret' # -1 THEN "write" ELSE "probe")
  /\ UNCHANGED <<box, kind, msg, ant_msg, MAX_SESSIONS>>

WriteOpen(s) ==
  /\ pc[s] = "write_open"
  /\ OpenBox(s, {"APPEND"})
  /\ Goto(s, IF ret' # -1 THEN "write" ELSE "probe")
  /\ UNCHANGED <<box, kind, msg, ant_msg, MAX_SESSIONS>>

WriteMessage(s) ==
  /\ pc[s] = "write"
  /\ TfsWrite(fh[s], msg[s])
  /\ Goto(s, IF ret' # -1 THEN "write_close" ELSE "write_failed")
  /\ UNCHANGED <<box, fh, kind, msg, ant_msg, MAX_SESSIONS>>

\* mutant: the handle of the reading back is not closed
WriteCloseOnce(s) ==
  /\ pc[s] \in {"write_close", "write_failed", "check_close"}
  /\ IF pc[s] = "check_close" THEN UNCHANGED vars /\ fh' = [fh EXCEPT ![s] = -1]
                              ELSE CloseBox(s)
  /\ Goto(s, IF pc[s] = "write_close" THEN "check_open" ELSE "probe")
  /\ UNCHANGED <<box, kind, msg, ant_msg, MAX_SESSIONS>>

WriteClose(s) ==
  /\ pc[s] \in {"write_close", "write_failed", "check_close"}
  /\ CloseBox(s)
  /\ Goto(s, IF pc[s] = "write_close" THEN "check_open" ELSE "probe")
  /\ UNCHANGED <<box, kind, msg, ant_msg, MAX_SESSIONS>>

\* The message is read back from the start of the file; failures are ignored.
CheckOpen(s) ==
  /\ pc[s] = "check_open"
  /\ OpenBox(s, {})
  /\ Goto(s, "check_read")
  /\ UNCHANGED <<box, kind, msg, ant_msg, MAX_SESSIONS>>

CheckRead(s) ==
  /\ pc[s] = "check_read"
  /\ TfsRead(fh[s], Len(msg[s]))
  /\ Goto(s, "check_close")
  /\ UNCHANGED <<box, fh, kind, msg, ant_msg, MAX_SESSIONS>>

-----------------------------------------------------------------------------
(* A subscriber's thread: sub_thr_func and read_box.                       *)

Send(s, m) == ant_msg' = [ant_msg EXCEPT ![s] = m]

\* If the box cannot be opened the old message is compared with the last sent.
ReadOpen(s) ==
  /\ pc[s] = "work" /\ kind[s] = "sub"
  /\ OpenBox(s, {})
  /\ IF ret' # -1 THEN Goto(s, "read") /\ UNCHANGED ant_msg
                  ELSE Goto(s, "probe") /\ Send(s, msg[s])
  /\ UNCHANGED <<box, kind, msg, MAX_SESSIONS>>

\* The bytes read replace the start of msg.
\* mutant: the bytes read come before those of the last read
OverlayAll(new, old) == new \o old

Overlay(new, old) == new \o SubSeq(old, Len(new) + 1, Len(old))

\* read_box returns without closing its handle, and msg is sent if it changed.
ReadBox(s) ==
  /\ pc[s] = "read"
  /\ TfsRead(fh[s], MESSAGE_SIZE)
  /\ msg' = [msg EXCEPT ![s] = Overlay(buf', @)]
  /\ Send(s, msg'[s])
  /\ fh' = [fh EXCEPT ![s] = -1]
  /\ Goto(s, "probe")
  /\ UNCHANGED <<box, kind, MAX_SESSIONS>>

-----------------------------------------------------------------------------

SessionStep(s) ==
  \/ ProbeOpen(s, "probe", "probed")
  \/ ProbeClose(s, "probed", "work", "done")
  \/ WriteOpen(s) \/ WriteMessage(s) \/ WriteClose(s) \/ CheckOpen(s) \/ CheckRead(s)
  \/ ReadOpen(s) \/ ReadBox(s)

BoxesInit ==
  /\ Init
  /\ pc = [t \in Threads |-> IF t = Main THEN "idle" ELSE "unused"]
  /\ box = [t \in Threads |-> NoName]
  /\ fh = [t \in Threads |-> -1]
  /\ kind = [t \in Threads |-> "none"]
  /\ msg = [s \in Sessions |-> <<>>]
  /\ ant_msg = [s \in Sessions |-> <<>>]
  /\ MAX_SESSIONS = MaxSessions

Receives == \E s \in Sessions : \E m \in Published(s) : Receive(s, m)

\* A thread's arguments are a local variable of pthreads_add, which returns
\* before the thread ends: what args->box_name holds the next time it is
\* passed on is whatever Main's later calls left there.
FrameReused(s, b) ==
  /\ ArgsLost
  /\ pc[s] \in {"probe", "work"}
  /\ box' = [box EXCEPT ![s] = b]
  /\ UNCHANGED <<vars, pc, fh, kind, msg, ant_msg, MAX_SESSIONS>>

FramesReused == \E s \in Sessions, b \in Names \cup {NoName} : FrameReused(s, b)

BoxesNext ==
  \/ \E op \in {"create", "remove", "pub", "sub"}, b \in Names : Request(op, b)
  \/ MainStep
  \/ Receives
  \/ FramesReused
  \/ \E s \in Sessions : SessionStep(s)

\* Main and the session threads keep running; nothing makes a client send.
Fairness == WF_allVars(MainStep) /\ \A s \in Sessions : WF_allVars(SessionStep(s))

BoxesSpec == BoxesInit /\ [][BoxesNext]_allVars /\ Fairness

-----------------------------------------------------------------------------
(* Clients that respect the protocol: a box has one publisher at a time,   *)
(* it is not removed while one writes to it, and not created again before  *)
(* the subscribers of the old one have left.  Requests says what they ask. *)

InUse(b) == \E s \in Sessions : Running(s) /\ box[s] = b
HasPublisher(b) == \E s \in Sessions : Running(s) /\ box[s] = b /\ kind[s] = "pub"

PoliteRequest(op, b) ==
  /\ op \in {"remove", "pub"} => ~HasPublisher(b)
  /\ op = "create" => BoxExists(b) \/ ~InUse(b)
  /\ Request(op, b)

PoliteNext ==
  \/ \E op \in Requests, b \in Names : PoliteRequest(op, b)
  \/ MainStep
  \/ Receives
  \/ FramesReused
  \/ \E s \in Sessions : SessionStep(s)

PoliteSpec == BoxesInit /\ [][PoliteNext]_allVars /\ Fairness

-----------------------------------------------------------------------------
(* Properties.                                                             *)

\* The threads' variables are typed; a subscriber's msg never outgrows
\* MESSAGE_SIZE, the buffer of sub_thr_func.
BoxesTypeOK ==
  /\ TypeOK
  /\ fh \in [Threads -> Handles \cup {-1}]
  /\ MAX_SESSIONS \in 0 .. MaxSessions
  /\ \A s \in Sessions : msg[s] \in Seq(Bytes \cup {Garbage}) /\ Len(msg[s]) <= MESSAGE_SIZE

\* A thread of boxes.c that holds a handle holds an open one, and holds it
\* alone: no thread reads, writes or closes through another's handle.
HandlesPrivate ==
  /\ \A t \in Threads : fh[t] # -1 => IsOpen(fh[t])
  /\ \A t, u \in Threads : fh[t] = fh[u] /\ t # u => fh[t] = -1

\* Whatever requests interleave with whatever sessions, no call of boxes.c
\* runs into an assertion of the file system or a wild copy.
BrokerSurvives == phase # "panic"

\* Every handle is given back, except those read_box keeps: with no
\* subscriber, an open handle is one a thread is working with.
HandlesGivenBack ==
  (\A s \in Sessions : kind[s] # "sub") =>
    \A h \in Handles : IsOpen(h) => \E t \in Threads : fh[t] = h

\* does_box_exist tells the truth: its tfs_open fails only when there is no
\* such box.
ProbeIsExact ==
  [][\A t \in Threads :
       /\ pc[t] \in {"probe", "create_probe", "session"}
       /\ pc'[t] \in {"probed", "create_probed", "session_probed"}
       => (fh'[t] # -1 <=> BoxExists(box[t]))]_allVars

\* create_box answers 0 only for a box that was not there.
CreatesNewBox ==
  [][pc[Main] = "create_open" /\ pc'[Main] = "create_close" => ~BoxExists(box[Main])]_allVars

\* A message is written at the end of its box, over nothing else.
WritesAtEnd ==
  [][\A s \in Sessions :
       pc[s] = "write" /\ pc'[s] = "write_close" =>
         LET entry == open_file_table[fh[s]]
         IN  entry.of_offset = inode_table[entry.of_inumber].i_size]_allVars

Byte(e, o) == fs_data[inode_table[dir_entry[e].d_inumber].i_data_block][o]
BoxSize(e) == inode_table[dir_entry[e].d_inumber].i_size

\* A box holds nothing but what was published to it.
OwnMessagesOnly ==
  \A e \in DirSlots : Used(e) =>
    \A o \in 0 .. BoxSize(e) - 1 : Byte(e, o) = dir_entry[e].d_name

\* What a running subscriber was sent last is the beginning of its box.
SentIsPrefixOfBox ==
  \A s \in Sessions, e \in DirSlots :
    Running(s) /\ kind[s] = "sub" /\ EntryMatches(e, box[s]) =>
      /\ Len(ant_msg[s]) <= BoxSize(e)
      /\ \A k \in 1 .. Len(ant_msg[s]) : ant_msg[s][k] = Byte(e, k - 1)

\* Every request is answered: Main comes back for the next one.
MainAnswers == pc[Main] # "idle" ~> pc[Main] = "idle"

\* A subscriber whose box is removed, and not created again, is let go.
RemovalEndsSubscription ==
  \A s \in Sessions :
    Running(s) /\ kind[s] = "sub" /\ ~BoxExists(box[s])
      ~> ~Running(s) \/ BoxExists(box[s])

=============================================================================
