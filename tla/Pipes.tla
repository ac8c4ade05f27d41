------------------------------- MODULE Pipes -------------------------------
(***************************************************************************)
(* Named pipes as the programs use them: a blocking open waits until the   *)
(* other side opens, a read takes what is there, and finds the end of file *)
(* when nothing is left and nobody has the pipe open for writing.          *)
(*                                                                         *)
(* A process counts as a reader or writer from the moment its open begins; *)
(* "met" holds those whose open may return, because the other side came.   *)
(***************************************************************************)
EXTENDS Sequences, FiniteSets

CONSTANTS Clients,     \* each has the FIFO it names in its request
          Register     \* the FIFO of mbroker

\* No client names the broker's FIFO as its own.
ASSUME PipesAssumption == Register \notin Clients

Fifos == Clients \cup {Register}

VARIABLES pipe,        \* the open ends and the bytes of each FIFO
          linked       \* the FIFOs that still have a name

EmptyPipe == [readers |-> {}, writers |-> {}, met |-> {}, data |-> <<>>]

PipesInit ==
  /\ pipe = [f \in Fifos |-> EmptyPipe]
  /\ linked = {Register}

OtherEnd(end) == IF end = "readers" THEN "writers" ELSE "readers"

\* open(2) of one end begins: O_RDONLY of "readers", O_WRONLY of "writers".
\* Whoever has the other end open has now been met.
OpenEnd(p, f, end) ==
  LET others == pipe[f][OtherEnd(end)]
  IN  pipe' = [pipe EXCEPT
                 ![f][end] = @ \cup {p},
                 ![f].met = @ \cup others \cup {q \in {p} : others # {}}]

Opened(p, f) == p \in pipe[f].met

\* mutant: the other side's coming is remembered after the close
WithoutEnds(end, ps) ==
  LET r == end.readers \ ps
      w == end.writers \ ps
  IN  [readers |-> r, writers |-> w, met |-> end.met,
       data |-> IF r \cup w = {} THEN <<>> ELSE end.data]

\* What is in a pipe goes when nobody has it open.
Without(end, ps) ==
  LET r == end.readers \ ps
      w == end.writers \ ps
  IN  [readers |-> r, writers |-> w, met |-> end.met \ ps,
       data |-> IF r \cup w = {} THEN <<>> ELSE end.data]

Close(p, f) == pipe' = [pipe EXCEPT ![f] = Without(@, {p})]

\* Every descriptor of the processes ps is closed, as when they exit.
CloseAll(ps) == pipe' = [f \in Fifos |-> Without(pipe[f], ps)]

\* A message is below PIPE_BUF, so it goes in whole; with no reader the
\* writer gets SIGPIPE, which none of the programs handles.
CanWrite(f) == pipe[f].readers # {}
Put(f, message) == pipe' = [pipe EXCEPT ![f].data = @ \o message]

\* One read: the next piece of a message, or the end of file.
HasData(f) == pipe[f].data # <<>>
AtEnd(f)   == pipe[f].data = <<>> /\ pipe[f].writers = {}
Take(f)    == pipe' = [pipe EXCEPT ![f].data = Tail(@)]

=============================================================================
