-------------------------- MODULE TfsThreadsProofs --------------------------
(***************************************************************************)
(* Proofs about the threads of exercise1/fs that keep apart: type          *)
(* correctness, locks that are given back, assertions that do not fail,    *)
(* tables that agree when no call is in progress, and files that no other  *)
(* thread touches, for any number of threads and every size of the tables. *)
(*                                                                         *)
(* The invariant says what each thread owns, at every label of every call: *)
(* entries, inodes, blocks and handles (ApartInv). A step of a thread      *)
(* changes what it owns or what is free, so that what holds of the others  *)
(* goes on holding (ConfinedUnmoved, UnmovedGood), and each action is      *)
(* proved for its thread alone (the lemmas that end in Fine). A second     *)
(* invariant (RoomInv), for a directory with an entry for each name, says  *)
(* that no block is lost either.                                           *)
(***************************************************************************)
EXTENDS TfsThreads, FiniteSetTheorems, TLAPS

(***************************************************************************)
(* What a thread owns.                                                     *)
(***************************************************************************)

Mine(t) == {File[t], Link[t]}

NameAt(e) == dir_entry[e].d_name
InumAt(e) == dir_entry[e].d_inumber

\* The name leads to the inode.
Leads(name, i) == \E e \in DirSlots : NameAt(e) = name /\ InumAt(e) = i

NoEntry(name) == \A e \in DirSlots : NameAt(e) # name

EntriesOf(t, i) == {e \in DirSlots : NameAt(e) \in Mine(t) /\ InumAt(e) = i}

Named(t, i) == \E e \in DirSlots : NameAt(e) \in Mine(t) /\ InumAt(e) = i

\* The inode of the call has no entry yet, or none any more.
Unnamed(t) ==
  \/ pc[t] \in {"init", "s_block", "s_lock", "delete"}
  \/ pc[t] = "add" /\ loc[t].op # "link"

Holds(t, i) == (Unnamed(t) \/ pc[t] = "u_done") /\ loc[t].inum = i

Owns(t, i) == Named(t, i) \/ Holds(t, i)

\* The inode of t claims a block.
Sized(t, i) ==
  /\ Owns(t, i)
  /\ ~(pc[t] = "init" /\ loc[t].inum = i)
  /\ inode_table[i].i_size > 0

\* The call has a block that it has not finished filling.
Fills(t) ==
  \/ pc[t] \in {"s_lock", "s_done", "w_copy"}
  \/ pc[t] = "add" /\ loc[t].op = "sym_link"

Uses(t, b) ==
  \/ Fills(t) /\ loc[t].block = b
  \/ \E i \in Inumbers : Sized(t, i) /\ inode_table[i].i_data_block = b

IsSoft(i) == inode_table[i].is_softlink

\* No symbolic link has this name.
NotSoft(name) == \A j \in Inumbers : Leads(name, j) => ~IsSoft(j)

LeadsToFile(name) == \E j \in Inumbers : Leads(name, j) /\ ~IsSoft(j)

(***************************************************************************)
(* What holds of a thread between its calls and during them.               *)
(***************************************************************************)

\* A name has one entry.
NamesOnce(t) ==
  \A e, f \in DirSlots : NameAt(e) \in Mine(t) /\ NameAt(f) = NameAt(e) => e = f

OwnsLive(t) == \A i \in Inumbers : Owns(t, i) => i # ROOT_DIR_INUM /\ Live(i)

\* The counter is the number of entries, except between the change of one
\* and of the other.
CountedFor(t) ==
  \A i \in Inumbers : Named(t, i) \/ (pc[t] = "u_done" /\ loc[t].inum = i) =>
    inode_table[i].cnt_hardlinks =
      Cardinality(EntriesOf(t, i)) + (IF pc[t] = "u_done" /\ loc[t].inum = i THEN 1 ELSE 0)
                                   - (IF pc[t] = "l_done" /\ loc[t].inum = i THEN 1 ELSE 0)

\* A file that claims a block has it for itself; a file holds what t wrote, a
\* symbolic link one of the names of t that is not a symbolic link.
ClaimsBlock(t, i) ==
  LET b == inode_table[i].i_data_block
  IN  /\ b \in Blocks \ {0} /\ free_blocks[b] = "TAKEN"
      /\ \A j \in Inumbers : Sized(t, j) /\ inode_table[j].i_data_block = b => j = i
      /\ Fills(t) /\ loc[t].block = b => pc[t] = "w_copy" /\ loc[t].inum = i
      /\ ~IsSoft(i) => fs_data[b] = t
      /\ IsSoft(i) => \E n \in Mine(t) : fs_data[b] = n /\ NotSoft(n)

OwnContents(t) == \A i \in Inumbers : Sized(t, i) => ClaimsBlock(t, i)

LinksSized(t) ==
  \A i \in Inumbers : Named(t, i) /\ IsSoft(i) =>
    inode_table[i].i_size > 0 \/ (pc[t] = "s_done" /\ loc[t].inum = i)

\* A handle leads to a file that has a name, and not beyond its end.
HandleGood(t, h) ==
  LET file == open_file_table[h]
  IN  /\ free_open_file_entries[h] = "TAKEN"
      /\ Named(t, file.of_inumber) /\ ~IsSoft(file.of_inumber)
      /\ file.of_offset <= inode_table[file.of_inumber].i_size

HandlesHeld(t) == \A h \in handles[t] : HandleGood(t, h)

\* A call that may free a block or an inode has no handle to fear for.
NothingOpen(t) ==
  loc[t].op = "unlink" \/ (loc[t].op = "open" /\ "TRUNC" \in loc[t].mode) => handles[t] = {}

LocksHeld(t) ==
  /\ lock_file_entries # t
  /\ \A i \in Inumbers : inode_lock[i] = t =>
       /\ loc[t].inum = i
       /\ \/ pc[t] \in {"l_done", "s_done", "clear", "u_done"}
          \/ pc[t] = "add" /\ loc[t].op # "open"

(***************************************************************************)
(* What a call knows at each of its labels.                                *)
(***************************************************************************)

\* The other name of t, the link to be, is free.
LinkFree(t) ==
  LET c == loc[t]
  IN  c.name \in Mine(t) /\ c.link \in Mine(t) /\ c.name # c.link /\ NoEntry(c.link)

MayAdd(t) ==
  LET c == loc[t]
  IN  /\ NewName(c) \in Mine(t) /\ NoEntry(NewName(c))
      /\ c.op # "open" => LinkFree(t) /\ LeadsToFile(c.name)

\* The name that the inode of the call has lost, or will get.
HeldName(c) == IF c.op = "unlink" THEN c.name ELSE NewName(c)

Blank(t) ==
  LET c     == loc[t]
      inode == inode_table[c.inum]
  IN  /\ c.inum \in Inumbers
      /\ ~Named(t, c.inum)
      /\ inode.i_size = 0 /\ inode.cnt_hardlinks = 1
      /\ inode.is_softlink = (c.op = "sym_link")

Idling(t) ==
  /\ pc[t] = "idle" => loc[t] = NoCall
  /\ pc[t] \notin {"find", "add", "clear", "u_done", "delete"} => loc[t].slot = 0

Searching(t) ==
  LET c == loc[t]
  IN  pc[t] = "find" =>
        /\ c.name \in Mine(t) /\ (c.op = "open" => c.offset = 0)
        /\ \A e \in DirSlots : e < c.slot => NameAt(e) # c.name
        /\ \/ c.op = "open" /\ c.then = "o_first"
           \/ c.op = "open" /\ c.then = "o_second" /\ NotSoft(c.name)
           \/ c.op = "link" /\ c.then = "l_lock" /\ LinkFree(t)
           \/ c.op = "sym_link" /\ c.then = "s_first" /\ LinkFree(t)
           \/ c.op = "sym_link" /\ c.then = "create" /\ NoEntry(c.name)
           \/ c.op = "unlink" /\ c.then = "u_lock"

Opening(t) ==
  LET c == loc[t]
  IN  /\ pc[t] \in {"o_first", "o_second", "o_add"} =>
           c.op = "open" /\ c.inum \in Inumbers /\ Named(t, c.inum)
      /\ pc[t] \in {"o_second", "o_add"} => ~IsSoft(c.inum)
      /\ pc[t] = "o_first" => c.offset = 0
      /\ pc[t] = "o_add" => c.offset <= inode_table[c.inum].i_size

Creating(t) ==
  LET c == loc[t]
  IN  /\ pc[t] \in {"create", "init"} => c.op \in {"open", "sym_link"} /\ MayAdd(t)
      /\ pc[t] \in {"create", "init", "add"} /\ c.op = "open" => c.offset = 0
      /\ pc[t] = "init" => c.inum \in Inumbers /\ ~Named(t, c.inum)
      /\ pc[t] \in {"s_block", "s_lock"} => c.op = "sym_link" /\ MayAdd(t) /\ Blank(t)
      /\ pc[t] = "add" =>
           /\ c.op \in {"open", "link", "sym_link"} /\ MayAdd(t)
           /\ c.op = "link" => c.inum \in Inumbers /\ Leads(c.name, c.inum) /\ ~IsSoft(c.inum)
           /\ c.op # "link" => Blank(t)
      /\ pc[t] = "s_done" =>
           /\ c.op = "sym_link" /\ c.inum \in Inumbers /\ Named(t, c.inum)
           /\ IsSoft(c.inum) /\ inode_table[c.inum].i_size = 0
           /\ c.name \in Mine(t) /\ NotSoft(c.name)
      /\ pc[t] = "s_done" \/ (pc[t] = "add" /\ c.op = "sym_link") =>
           inode_table[c.inum].i_data_block = c.block /\ fs_data[c.block] = c.name
      /\ Fills(t) => c.block \in Blocks \ {0} /\ free_blocks[c.block] = "TAKEN"

Linking(t) ==
  LET c == loc[t]
  IN  /\ pc[t] \in {"l_lock", "s_first"} =>
           /\ c.op = (IF pc[t] = "l_lock" THEN "link" ELSE "sym_link")
           /\ c.inum \in Inumbers /\ LinkFree(t) /\ Leads(c.name, c.inum)
      /\ pc[t] = "l_done" => c.inum \in Inumbers /\ Named(t, c.inum) /\ ~IsSoft(c.inum)

Unlinking(t) ==
  LET c == loc[t]
  IN  /\ pc[t] \in {"u_lock", "clear"} =>
           /\ c.op = "unlink" /\ c.inum \in Inumbers /\ c.name \in Mine(t)
           /\ \E e \in DirSlots : e >= c.slot /\ NameAt(e) = c.name /\ InumAt(e) = c.inum
      /\ pc[t] \in {"u_done", "delete"} =>
           /\ c.op \in {"unlink", "open", "sym_link"} /\ c.inum \in Inumbers
           /\ HeldName(c) \in Mine(t) /\ NoEntry(HeldName(c))
      /\ pc[t] = "u_done" => c.op = "unlink"
      /\ pc[t] = "delete" => ~Named(t, c.inum)
      /\ pc[t] = "delete" /\ c.op # "unlink" => inode_table[c.inum].i_size = 0

OnHandle(t) ==
  LET c == loc[t]
  IN  /\ pc[t] \in {"get", "close", "c_free", "write", "w_block", "w_copy", "read"} =>
           c.fhandle \in handles[t]
      /\ pc[t] = "get" => c.op \in {"close", "write", "read"}
      /\ pc[t] \in {"w_block", "w_copy"} => c.inum = open_file_table[c.fhandle].of_inumber
      /\ pc[t] = "w_copy" =>
           /\ open_file_table[c.fhandle].of_offset = 0
           /\ inode_table[c.inum].i_data_block = c.block

AtLabel(t) ==
  /\ Idling(t) /\ Searching(t) /\ Opening(t) /\ Creating(t)
  /\ Linking(t) /\ Unlinking(t) /\ OnHandle(t)

Good(t) ==
  /\ NamesOnce(t) /\ OwnsLive(t) /\ CountedFor(t)
  /\ OwnContents(t) /\ LinksSized(t)
  /\ HandlesHeld(t) /\ NothingOpen(t)
  /\ LocksHeld(t)
  /\ AtLabel(t)

(***************************************************************************)
(* What holds of the threads together.                                     *)
(***************************************************************************)

Labels ==
  {"idle", "find", "create", "init", "add", "delete", "o_first", "o_second", "o_add",
   "l_lock", "l_done", "s_first", "s_block", "s_lock", "s_done", "u_lock", "clear", "u_done",
   "get", "close", "c_free", "write", "w_block", "w_copy", "read"}

\* The values of the variables of a call.
Ops     == {"none", "open", "link", "sym_link", "unlink", "close", "write", "read"}
SomeName   == Names \cup {NoName}
SomeMode   == SUBSET {"CREAT", "TRUNC", "APPEND"}
SomeHandle == Handles \cup {-1}
SomeInode  == Inumbers \cup {-1}
SomeBlock  == Blocks \cup {-1}
Slots      == 0 .. MAX_DIR_ENTRIES
Offsets    == {0, 1}
Results    == {0}
Nexts == {"idle", "o_first", "o_second", "l_lock", "s_first", "create", "u_lock"}

Call ==
  [op : Ops, name : SomeName, link : SomeName, mode : SomeMode, fhandle : SomeHandle,
   inum : SomeInode, slot : Slots, block : SomeBlock, offset : Offsets, result : Results,
   then : Nexts]

Typed ==
  /\ ThreadsTypeOK
  /\ pc \in [Threads -> Labels]
  /\ loc \in [Threads -> Call]
  /\ handles \in [Threads -> SUBSET Handles]

\* Used entries have the name of a thread.
EntriesOwned ==
  \A e \in DirSlots : \/ dir_entry[e] = FreeEntry
                      \/ InumAt(e) \in Inumbers /\ \E t \in Threads : NameAt(e) \in Mine(t)

InodesApart == \A t, u \in Threads, i \in Inumbers : Owns(t, i) /\ Owns(u, i) => t = u
BlocksApart == \A t, u \in Threads, b \in Blocks : Uses(t, b) /\ Uses(u, b) => t = u
HandlesApart == \A t, u \in Threads : t # u => handles[t] \cap handles[u] = {}

\* No inode is lost.
LiveOwned ==
  \A i \in Inumbers \ {ROOT_DIR_INUM} : Live(i) => \E t \in Threads : Owns(t, i)

RootKept ==
  /\ Live(ROOT_DIR_INUM) /\ free_blocks[0] = "TAKEN"
  /\ inode_table[ROOT_DIR_INUM].i_size = 1 /\ inode_table[ROOT_DIR_INUM].i_data_block = 0
  /\ inode_table[ROOT_DIR_INUM].cnt_hardlinks = 1

\* The only assertion that can fail is that of inode_get(-1) in tfs_sym_link.
DiesWhenFull ==
  died => \E t \in Threads :
            pc[t] = "create" /\ loc[t].op = "sym_link" /\ NoneFree(freeinode_ts)

Shared ==
  /\ EntriesOwned /\ InodesApart /\ BlocksApart /\ HandlesApart
  /\ LiveOwned /\ RootKept
  /\ lock_file_entries = Nobody

ApartInv ==
  /\ Typed
  /\ \A t \in Threads : Good(t)
  /\ Shared
  /\ DiesWhenFull

\* No block is lost.
BlocksUsed == \A b \in Blocks \ {0} : free_blocks[b] = "TAKEN" => \E t \in Threads : Uses(t, b)

\* Ahead of each thread that looks for a free entry there are enough of them
\* for it and for those that are further on.
Adders(k) == {t \in Threads : pc[t] = "add" /\ loc[t].slot >= k}
Spare(k)  == {e \in DirSlots : e >= k /\ dir_entry[e] = FreeEntry}

RoomAhead ==
  \A k \in 1 .. MAX_DIR_ENTRIES : Cardinality(Adders(k)) <= Cardinality(Spare(k))

RoomInv == BlocksUsed /\ RoomAhead

-----------------------------------------------------------------------------
(* Facts about the constants and the tables.                               *)

LEMMA MineReal ==
  ASSUME NEW t \in Threads
  PROVE  Mine(t) \subseteq Names /\ NoName \notin Mine(t)
  BY ThreadsAssumption DEF Mine

LEMMA RootAndBlock == ROOT_DIR_INUM \in Inumbers /\ 0 \in Blocks
  BY ThreadsAssumption DEF ROOT_DIR_INUM, Inumbers, Blocks

LEMMA NamedInode ==
  ASSUME EntriesOwned, NEW t \in Threads, NEW i, Named(t, i)
  PROVE  i \in Inumbers
  <1>1. PICK e \in DirSlots : NameAt(e) \in Mine(t) /\ InumAt(e) = i
    BY DEF Named
  <1>2. dir_entry[e] # FreeEntry
    BY <1>1, MineReal DEF FreeEntry, NameAt
  <1> QED
    BY <1>1, <1>2 DEF EntriesOwned

-----------------------------------------------------------------------------
(* What a step of another thread leaves as it is.                          *)

Unmoved(u) ==
  /\ pc'[u] = pc[u] /\ loc'[u] = loc[u] /\ handles'[u] = handles[u]
  /\ \A e \in DirSlots : NameAt(e) \in Mine(u) \/ dir_entry'[e].d_name \in Mine(u) =>
       dir_entry'[e] = dir_entry[e]
  /\ \A i \in Inumbers : Owns(u, i) =>
       inode_table'[i] = inode_table[i] /\ freeinode_ts'[i] = freeinode_ts[i]
  /\ \A b \in Blocks : Uses(u, b) => fs_data'[b] = fs_data[b] /\ free_blocks'[b] = free_blocks[b]
  /\ \A h \in handles[u] :
       /\ open_file_table'[h] = open_file_table[h]
       /\ free_open_file_entries'[h] = free_open_file_entries[h]
  /\ \A i \in Inumbers : inode_lock'[i] = u => inode_lock[i] = u
  /\ lock_file_entries' = u => lock_file_entries = u

LEMMA UnmovedEntries ==
  ASSUME NEW u \in Threads, Unmoved(u)
  PROVE  /\ \A e \in DirSlots : NameAt(e)' \in Mine(u) <=> NameAt(e) \in Mine(u)
         /\ \A e \in DirSlots : NameAt(e) \in Mine(u) =>
              NameAt(e)' = NameAt(e) /\ InumAt(e)' = InumAt(e)
         /\ \A e \in DirSlots, n \in Mine(u) : NameAt(e)' = n <=> NameAt(e) = n
  BY DEF Unmoved, NameAt, InumAt

LEMMA UnmovedNames ==
  ASSUME NEW u \in Threads, Unmoved(u)
  PROVE  /\ \A i : Named(u, i)' <=> Named(u, i)
         /\ \A i : EntriesOf(u, i)' = EntriesOf(u, i)
         /\ \A n \in Mine(u) : \A i : Leads(n, i)' <=> Leads(n, i)
         /\ \A n \in Mine(u) : NoEntry(n)' <=> NoEntry(n)
  <1>1. \A i : Named(u, i)' <=> Named(u, i)
    BY UnmovedEntries DEF Named, Mine
  <1>2. \A i : EntriesOf(u, i)' = EntriesOf(u, i)
    BY UnmovedEntries DEF EntriesOf, Mine
  <1>3. \A n \in Mine(u) : \A i : Leads(n, i)' <=> Leads(n, i)
    BY UnmovedEntries DEF Leads
  <1>4. \A n \in Mine(u) : NoEntry(n)' <=> NoEntry(n)
    BY UnmovedEntries DEF NoEntry
  <1> QED
    BY <1>1, <1>2, <1>3, <1>4

LEMMA UnmovedOwns ==
  ASSUME NEW u \in Threads, Unmoved(u)
  PROVE  /\ Unnamed(u)' <=> Unnamed(u)
         /\ Fills(u)' <=> Fills(u)
         /\ \A i : Owns(u, i)' <=> Owns(u, i)
         /\ \A i \in Inumbers : Sized(u, i)' <=> Sized(u, i)
         /\ \A b : Uses(u, b)' <=> Uses(u, b)
  <1>1. pc'[u] = pc[u] /\ loc'[u] = loc[u]
    BY DEF Unmoved
  <1>2. (Unnamed(u)' <=> Unnamed(u)) /\ (Fills(u)' <=> Fills(u))
    BY <1>1 DEF Unnamed, Fills
  <1>3. \A i : Owns(u, i)' <=> Owns(u, i)
    BY <1>1, <1>2, UnmovedNames DEF Owns, Holds
  <1>4. \A i \in Inumbers : Owns(u, i) => inode_table'[i] = inode_table[i]
    BY DEF Unmoved
  <1>5. \A i \in Inumbers : Sized(u, i)' <=> Sized(u, i)
    BY <1>1, <1>3, <1>4 DEF Sized
  <1>6. \A b : Uses(u, b)' <=> Uses(u, b)
    BY <1>1, <1>2, <1>3, <1>4, <1>5 DEF Uses, Sized
  <1> QED
    BY <1>2, <1>3, <1>5, <1>6

\* What holds of a thread goes on holding while it is unmoved.
LEMMA UnmovedGood ==
  ASSUME NEW u \in Threads, Unmoved(u), Typed, EntriesOwned, Good(u)
  PROVE  Good(u)'
  <1>1. pc'[u] = pc[u] /\ loc'[u] = loc[u] /\ handles'[u] = handles[u]
    BY DEF Unmoved
  <1>2. \A i \in Inumbers : Owns(u, i) =>
          inode_table'[i] = inode_table[i] /\ freeinode_ts'[i] = freeinode_ts[i]
    BY DEF Unmoved
  <1>3. \A b \in Blocks : Uses(u, b) => fs_data'[b] = fs_data[b] /\ free_blocks'[b] = free_blocks[b]
    BY DEF Unmoved
  <1>4. \A i : Named(u, i) => Owns(u, i)
    BY DEF Owns
  <1>5. \A n \in Mine(u) : \A i : Leads(n, i) => Named(u, i)
    BY DEF Leads, Named
  <1>6. \A i : Named(u, i) => i \in Inumbers
    BY NamedInode
  <1>7. \A i : Named(u, i) =>
          inode_table'[i] = inode_table[i] /\ freeinode_ts'[i] = freeinode_ts[i]
    BY <1>2, <1>4, <1>6
  <1>8. \A h \in handles[u] :
          /\ open_file_table'[h] = open_file_table[h]
          /\ free_open_file_entries'[h] = free_open_file_entries[h]
    BY DEF Unmoved
  <1>9. \A n \in Mine(u) : (NotSoft(n)' <=> NotSoft(n)) /\ (LeadsToFile(n)' <=> LeadsToFile(n))
    BY <1>5, <1>6, <1>7, UnmovedNames DEF NotSoft, LeadsToFile, IsSoft
  <1>10. \A b \in Blocks : Fills(u) /\ loc[u].block = b =>
           fs_data'[b] = fs_data[b] /\ free_blocks'[b] = free_blocks[b]
    BY <1>3 DEF Uses
  <1>a. NamesOnce(u)'
    <2>1. NamesOnce(u)
      BY DEF Good
    <2>2. SUFFICES ASSUME NEW e \in DirSlots, NEW f \in DirSlots,
                          NameAt(e)' \in Mine(u), NameAt(f)' = NameAt(e)'
                   PROVE  e = f
      BY DEF NamesOnce, Mine
    <2>3. NameAt(e) \in Mine(u) /\ NameAt(f) \in Mine(u)
      BY <2>2, UnmovedEntries
    <2>4. NameAt(e) = NameAt(f)
      BY <2>2, <2>3, UnmovedEntries
    <2> QED
      BY <2>1, <2>3, <2>4 DEF NamesOnce
  <1>b. OwnsLive(u)'
    BY <1>2, UnmovedOwns DEF Good, OwnsLive, Live
  <1>c. CountedFor(u)'
    <2>1. CountedFor(u)
      BY DEF Good
    <2>2. SUFFICES ASSUME NEW i \in Inumbers, Named(u, i) \/ (pc[u] = "u_done" /\ loc[u].inum = i)
                   PROVE  inode_table'[i].cnt_hardlinks = inode_table[i].cnt_hardlinks
      BY <1>1, <2>1, UnmovedNames DEF CountedFor
    <2>3. Owns(u, i)
      BY <2>2 DEF Owns, Holds
    <2> QED
      BY <1>2, <2>3
  <1>d. OwnContents(u)'
    <2>1. OwnContents(u)
      BY DEF Good
    <2>2. SUFFICES ASSUME NEW i \in Inumbers, Sized(u, i)
                   PROVE  ClaimsBlock(u, i)'
      BY UnmovedOwns DEF OwnContents
    <2>3. Owns(u, i)
      BY <2>2 DEF Sized
    <2>4. inode_table'[i] = inode_table[i]
      BY <1>2, <2>3
    <2>5. ClaimsBlock(u, i)
      BY <2>1, <2>2 DEF OwnContents
    <2> DEFINE b == inode_table[i].i_data_block
    <2>6. b \in Blocks /\ b # 0 /\ Uses(u, b)
      BY <2>2, <2>5 DEF ClaimsBlock, Uses
    <2>7. fs_data'[b] = fs_data[b] /\ free_blocks'[b] = free_blocks[b]
      BY <1>3, <2>6
    <2>8. ASSUME NEW j \in Inumbers, Sized(u, j)'
          PROVE  Sized(u, j) /\ inode_table'[j] = inode_table[j]
      BY <1>2, <2>8, UnmovedOwns DEF Sized
    <2>9. Fills(u)' <=> Fills(u)
      BY UnmovedOwns
    <2>10. IsSoft(i) => \E n \in Mine(u) : fs_data[inode_table[i].i_data_block] = n /\ NotSoft(n)'
      BY <1>9, <2>5 DEF ClaimsBlock
    <2>11. inode_table'[i].i_data_block = inode_table[i].i_data_block /\ (IsSoft(i)' <=> IsSoft(i))
      BY <2>4 DEF IsSoft
    <2>12. fs_data'[inode_table[i].i_data_block] = fs_data[inode_table[i].i_data_block]
      BY <2>7
    <2> QED
      BY <1>1, <2>5, <2>6, <2>7, <2>8, <2>9, <2>10, <2>11, <2>12 DEF ClaimsBlock, Mine
  <1>e. LinksSized(u)'
    BY <1>1, <1>6, <1>7, UnmovedNames DEF Good, LinksSized, IsSoft
  <1>f. HandlesHeld(u)'
    <2>1. SUFFICES ASSUME NEW h \in handles[u] PROVE HandleGood(u, h)'
      BY <1>1 DEF HandlesHeld
    <2>2. HandleGood(u, h)
      BY DEF Good, HandlesHeld
    <2> QED
      BY <1>7, <1>8, <2>2, UnmovedNames DEF HandleGood, IsSoft
  <1>g. NothingOpen(u)'
    BY <1>1 DEF Good, NothingOpen
  <1>h. LocksHeld(u)'
    BY <1>1 DEF Good, LocksHeld, Unmoved
  <1>i. LinkFree(u)' <=> LinkFree(u)
    BY <1>1, UnmovedNames DEF LinkFree, Mine
  <1>j. MayAdd(u) => MayAdd(u)'
    BY <1>1, <1>9, <1>i, UnmovedNames DEF MayAdd, LinkFree, Mine, NewName
  <1>k. Blank(u) /\ Owns(u, loc[u].inum) => Blank(u)'
    BY <1>1, <1>2, UnmovedNames DEF Blank
  <1>l. AtLabel(u)'
    <2>1. AtLabel(u)
      BY DEF Good
    <2>2. Idling(u)'
      BY <1>1, <2>1 DEF AtLabel, Idling
    <2>3. Searching(u)'
      BY <1>1, <1>9, <1>i, <2>1, UnmovedNames, UnmovedEntries DEF AtLabel, Searching, Mine
    <2>4. Opening(u)'
      BY <1>1, <1>7, <2>1, UnmovedNames DEF AtLabel, Opening, IsSoft
    <2>5. Creating(u)'
      <3>1. Creating(u)
        BY <2>1 DEF AtLabel
      <3>2. /\ pc[u] \in {"s_block", "s_lock", "s_done"} \/ (pc[u] = "add" /\ loc[u].op # "link") =>
                 Owns(u, loc[u].inum) /\ loc[u].inum \in Inumbers
        BY <3>1 DEF Creating, Owns, Holds, Unnamed, Blank
      <3>3. Fills(u) => loc[u].block \in Blocks \ {0} /\ free_blocks'[loc[u].block] = "TAKEN"
        BY <1>10, <3>1 DEF Creating
      <3>4. pc[u] = "s_done" \/ (pc[u] = "add" /\ loc[u].op = "sym_link") =>
              /\ inode_table'[loc[u].inum].i_data_block = loc[u].block
              /\ fs_data'[loc[u].block] = loc[u].name
        BY <1>2, <1>10, <3>1, <3>2, <3>3 DEF Creating, Fills
      <3>5. pc[u] = "add" /\ loc[u].op = "link" =>
              /\ loc[u].inum \in Inumbers /\ (Leads(loc[u].name, loc[u].inum))'
              /\ IsSoft(loc[u].inum)' <=> IsSoft(loc[u].inum)
        BY <1>1, <1>5, <1>7, <3>1, UnmovedNames DEF Creating, MayAdd, LinkFree, IsSoft
      <3>6. pc[u] = "s_done" =>
              /\ Named(u, loc[u].inum)' /\ IsSoft(loc[u].inum)'
              /\ inode_table'[loc[u].inum].i_size = 0
              /\ loc[u].name \in Mine(u) /\ NotSoft(loc[u].name)'
        BY <1>1, <1>7, <1>9, <3>1, UnmovedNames DEF Creating, IsSoft
      <3>7. Fills(u)' <=> Fills(u)
        BY UnmovedOwns
      <3>8. pc[u] = "init" => ~Named(u, loc[u].inum)'
        BY <1>1, <3>1, UnmovedNames DEF Creating
      <3> QED
        BY <1>1, <1>j, <1>k, <3>1, <3>2, <3>3, <3>4, <3>5, <3>6, <3>7, <3>8 DEF Creating, Mine
    <2>6. Linking(u)'
      BY <1>1, <1>7, <1>i, <2>1, UnmovedNames DEF AtLabel, Linking, IsSoft, LinkFree
    <2>7. Unlinking(u)'
      <3>1. Unlinking(u)
        BY <2>1 DEF AtLabel
      <3>2. pc[u] \in {"u_lock", "clear"} =>
              \E e \in DirSlots : e >= loc[u].slot /\ NameAt(e)' = loc[u].name /\ InumAt(e)' = loc[u].inum
        BY <3>1, UnmovedEntries DEF Unlinking
      <3>3. pc[u] = "delete" => Owns(u, loc[u].inum)
        BY DEF Owns, Holds, Unnamed
      <3>4. pc[u] = "delete" => inode_table'[loc[u].inum] = inode_table[loc[u].inum]
        BY <1>2, <3>1, <3>3 DEF Unlinking
      <3>5. pc[u] \in {"u_done", "delete"} => NoEntry(HeldName(loc[u]))'
        BY <1>1, <3>1, UnmovedNames DEF Unlinking
      <3>6. pc[u] = "delete" => ~Named(u, loc[u].inum)'
        BY <1>1, <3>1, UnmovedNames DEF Unlinking
      <3> QED
        BY <1>1, <3>1, <3>2, <3>4, <3>5, <3>6 DEF Unlinking, Mine, HeldName, NewName
    <2>8. OnHandle(u)'
      BY <1>1, <1>7, <1>8, <2>1 DEF AtLabel, OnHandle, Good, HandlesHeld, HandleGood
    <2> QED
      BY <2>2, <2>3, <2>4, <2>5, <2>6, <2>7, <2>8 DEF AtLabel
  <1> QED
    BY <1>a, <1>b, <1>c, <1>d, <1>e, <1>f, <1>g, <1>h, <1>l DEF Good
-----------------------------------------------------------------------------
(* A step of one thread and the others.                                    *)

\* t changes what it owns and what is free, and nothing else.
Confined(t) ==
  /\ \A u \in Threads \ {t} : pc'[u] = pc[u] /\ loc'[u] = loc[u] /\ handles'[u] = handles[u]
  /\ \A e \in DirSlots : dir_entry'[e] # dir_entry[e] =>
       /\ dir_entry[e] = FreeEntry \/ NameAt(e) \in Mine(t)
       /\ \/ dir_entry'[e] = FreeEntry
          \/ dir_entry'[e].d_name \in Mine(t) /\ dir_entry'[e].d_inumber \in Inumbers
  /\ \A i \in Inumbers :
       inode_table'[i] # inode_table[i] \/ freeinode_ts'[i] # freeinode_ts[i] =>
         Owns(t, i) \/ ~Live(i)
  /\ \A b \in Blocks :
       fs_data'[b] # fs_data[b] \/ free_blocks'[b] # free_blocks[b] =>
         Uses(t, b) \/ free_blocks[b] = "FREE"
  /\ \A h \in Handles :
       h \in handles[t] \/ free_open_file_entries[h] = "FREE"
       \/ /\ open_file_table'[h] = open_file_table[h]
          /\ free_open_file_entries'[h] = free_open_file_entries[h]
  /\ \A i \in Inumbers : inode_lock'[i] \in {inode_lock[i], t, Nobody}
  /\ lock_file_entries' = lock_file_entries

\* What t gains was free, and it loses no inode without freeing it.
Gains(t) ==
  /\ \A i \in Inumbers : Owns(t, i)' => Owns(t, i) \/ ~Live(i)
  /\ \A i \in Inumbers : Live(i)' => Owns(t, i)' \/ (Live(i) /\ ~Owns(t, i))
  /\ \A b \in Blocks : Uses(t, b)' => Uses(t, b) \/ free_blocks[b] = "FREE"
  /\ \A h \in handles'[t] : h \in handles[t] \/ free_open_file_entries[h] = "FREE"

\* t loses no block without freeing it.
Saves(t) ==
  \A b \in Blocks \ {0} : free_blocks'[b] = "TAKEN" =>
    Uses(t, b)' \/ (free_blocks[b] = "TAKEN" /\ ~Uses(t, b))

LEMMA UsesTaken ==
  ASSUME NEW t \in Threads, Good(t), NEW b, Uses(t, b)
  PROVE  b \in Blocks /\ b # 0 /\ free_blocks[b] = "TAKEN"
  <1>1. CASE Fills(t) /\ loc[t].block = b
    BY <1>1 DEF Good, AtLabel, Creating
  <1>2. CASE \E i \in Inumbers : Sized(t, i) /\ inode_table[i].i_data_block = b
    BY <1>2 DEF Good, OwnContents, ClaimsBlock
  <1> QED
    BY <1>1, <1>2 DEF Uses

LEMMA ConfinedUnmoved ==
  ASSUME NamesApart, Typed, Shared, NEW t \in Threads, Confined(t),
         NEW u \in Threads, u # t, Good(u)
  PROVE  Unmoved(u)
  <1>1. pc'[u] = pc[u] /\ loc'[u] = loc[u] /\ handles'[u] = handles[u]
    BY DEF Confined
  <1>2. ASSUME NEW e \in DirSlots, NameAt(e) \in Mine(u) \/ dir_entry'[e].d_name \in Mine(u)
        PROVE  dir_entry'[e] = dir_entry[e]
    <2>1. Mine(u) \cap Mine(t) = {}
      BY DEF NamesApart, Mine
    <2>2. NoName \notin Mine(u)
      BY MineReal
    <2> QED
      BY <1>2, <2>1, <2>2 DEF Confined, FreeEntry, NameAt
  <1>3. ASSUME NEW i \in Inumbers, Owns(u, i)
        PROVE  inode_table'[i] = inode_table[i] /\ freeinode_ts'[i] = freeinode_ts[i]
    BY <1>3 DEF Good, OwnsLive, Shared, InodesApart, Confined
  <1>4. ASSUME NEW b \in Blocks, Uses(u, b)
        PROVE  fs_data'[b] = fs_data[b] /\ free_blocks'[b] = free_blocks[b]
    BY <1>4, UsesTaken DEF Shared, BlocksApart, Confined
  <1>5. ASSUME NEW h \in handles[u]
        PROVE  /\ open_file_table'[h] = open_file_table[h]
               /\ free_open_file_entries'[h] = free_open_file_entries[h]
    <2>1. h \in Handles /\ free_open_file_entries[h] = "TAKEN"
      BY DEF Good, HandlesHeld, HandleGood, Typed
    <2>2. h \notin handles[t]
      BY DEF Shared, HandlesApart
    <2> QED
      BY <2>1, <2>2 DEF Confined
  <1>6. \A i \in Inumbers : inode_lock'[i] = u => inode_lock[i] = u
    BY ThreadsAssumption DEF Confined
  <1>7. lock_file_entries' = u => lock_file_entries = u
    BY DEF Confined
  <1> QED
    BY <1>1, <1>2, <1>3, <1>4, <1>5, <1>6, <1>7 DEF Unmoved

\* A confined step that is right for its thread is right for all of them.
LEMMA ConfinedGood ==
  ASSUME NamesApart, Typed, \A u \in Threads : Good(u), Shared,
         NEW t \in Threads, Confined(t), Gains(t), Good(t)'
  PROVE  (\A u \in Threads : Good(u)') /\ Shared'
  <1>1. \A u \in Threads \ {t} : Unmoved(u)
    BY ConfinedUnmoved
  <1>2. \A u \in Threads \ {t} : Good(u)'
    BY <1>1, UnmovedGood DEF Shared
  <1>3. \A u \in Threads : Good(u)'
    BY <1>2
  <1>4. \A u \in Threads \ {t} : /\ \A i : Owns(u, i)' <=> Owns(u, i)
                                /\ \A b : Uses(u, b)' <=> Uses(u, b)
    BY <1>1, UnmovedOwns
  <1>5. EntriesOwned'
    <2>1. SUFFICES ASSUME NEW e \in DirSlots
                   PROVE  \/ dir_entry'[e] = FreeEntry
                          \/ /\ dir_entry'[e].d_inumber \in Inumbers
                             /\ \E u \in Threads : dir_entry'[e].d_name \in Mine(u)
      BY DEF EntriesOwned, FreeEntry, Mine, InumAt, NameAt
    <2> QED
      BY DEF Shared, EntriesOwned, Confined, InumAt, NameAt
  <1>6. InodesApart'
    <2>1. SUFFICES ASSUME NEW u \in Threads \ {t}, NEW i \in Inumbers, Owns(u, i)', Owns(t, i)'
                   PROVE  FALSE
      <3>1. \A u, v \in Threads, i \in Inumbers : u # t /\ v # t /\ Owns(u, i)' /\ Owns(v, i)' => u = v
        BY <1>4 DEF Shared, InodesApart
      <3> QED
        BY <2>1, <3>1 DEF InodesApart
    <2>2. Owns(u, i) /\ Live(i)
      BY <1>4, <2>1 DEF Good, OwnsLive
    <2> QED
      BY <2>1, <2>2 DEF Gains, Shared, InodesApart
  <1>7. BlocksApart'
    <2>1. SUFFICES ASSUME NEW u \in Threads \ {t}, NEW b \in Blocks, Uses(u, b)', Uses(t, b)'
                   PROVE  FALSE
      <3>1. \A u, v \in Threads, b \in Blocks : u # t /\ v # t /\ Uses(u, b)' /\ Uses(v, b)' => u = v
        BY <1>4 DEF Shared, BlocksApart
      <3> QED
        BY <2>1, <3>1 DEF BlocksApart
    <2>2. Uses(u, b) /\ free_blocks[b] = "TAKEN"
      BY <1>4, <2>1, UsesTaken
    <2> QED
      BY <2>1, <2>2 DEF Gains, Shared, BlocksApart
  <1>8. HandlesApart'
    <2>1. SUFFICES ASSUME NEW u \in Threads \ {t}, NEW h \in handles'[u], h \in handles'[t]
                   PROVE  FALSE
      <3>1. \A u, v \in Threads : u # t /\ v # t /\ u # v => handles'[u] \cap handles'[v] = {}
        BY DEF Shared, HandlesApart, Confined
      <3> QED
        BY <2>1, <3>1 DEF HandlesApart
    <2>2. h \in handles[u] /\ free_open_file_entries[h] = "TAKEN"
      BY <2>1 DEF Confined, Good, HandlesHeld, HandleGood
    <2> QED
      BY <2>1, <2>2 DEF Gains, Shared, HandlesApart
  <1>9. LiveOwned'
    <2>1. SUFFICES ASSUME NEW i \in Inumbers, i # ROOT_DIR_INUM, Live(i)', ~Owns(t, i)'
                   PROVE  \E u \in Threads : Owns(u, i)'
      BY DEF LiveOwned, ROOT_DIR_INUM, Inumbers
    <2>2. Live(i) /\ ~Owns(t, i)
      BY <2>1 DEF Gains
    <2> QED
      BY <1>4, <2>1, <2>2 DEF Shared, LiveOwned
  <1>10. RootKept'
    <2>1. ~Owns(t, ROOT_DIR_INUM) /\ Live(ROOT_DIR_INUM)
      BY RootAndBlock DEF Good, OwnsLive, Shared, RootKept
    <2>2. ~Uses(t, 0) /\ free_blocks[0] = "TAKEN"
      BY UsesTaken DEF Shared, RootKept
    <2>3. /\ inode_table'[ROOT_DIR_INUM] = inode_table[ROOT_DIR_INUM]
          /\ freeinode_ts'[ROOT_DIR_INUM] = freeinode_ts[ROOT_DIR_INUM]
      BY <2>1, RootAndBlock DEF Confined
    <2>4. free_blocks'[0] = free_blocks[0]
      BY <2>2, RootAndBlock DEF Confined
    <2> QED
      BY <2>1, <2>2, <2>3, <2>4 DEF Shared, RootKept, Live, ROOT_DIR_INUM
  <1>11. (lock_file_entries = Nobody)'
    BY DEF Confined, Shared
  <1> QED
    BY <1>3, <1>5, <1>6, <1>7, <1>8, <1>9, <1>10, <1>11 DEF Shared

\* When the steps save their blocks, no block is lost.
LEMMA ConfinedSaves ==
  ASSUME NamesApart, Typed, \A u \in Threads : Good(u), Shared, BlocksUsed,
         NEW t \in Threads, Confined(t), Saves(t)
  PROVE  BlocksUsed'
  <1>1. \A u \in Threads \ {t} : \A b : Uses(u, b)' <=> Uses(u, b)
    BY ConfinedUnmoved, UnmovedOwns
  <1>2. SUFFICES ASSUME NEW b \in Blocks, b # 0, free_blocks'[b] = "TAKEN", ~Uses(t, b)'
                 PROVE  \E u \in Threads : Uses(u, b)'
    BY DEF BlocksUsed, Blocks
  <1>3. free_blocks[b] = "TAKEN" /\ ~Uses(t, b)
    BY <1>2 DEF Saves
  <1> QED
    BY <1>1, <1>2, <1>3 DEF BlocksUsed
-----------------------------------------------------------------------------
(* What the steps have in common.                                          *)

LEMMA GoWhere ==
  ASSUME Typed, NEW t \in Threads, NEW where \in Labels, NEW values \in Call,
         Go(t, where, values)
  PROVE  /\ pc' \in [Threads -> Labels] /\ loc' \in [Threads -> Call]
         /\ pc'[t] = where /\ loc'[t] = values
         /\ \A u \in Threads \ {t} : pc'[u] = pc[u] /\ loc'[u] = loc[u]
  BY DEF Go, Typed

LEMMA NoCallTyped ==
  /\ NoCall \in Call
  /\ NoCall.op = "none" /\ NoCall.slot = 0 /\ NoCall.offset = 0
  <1>1. /\ NoName \in SomeName /\ {} \in SomeMode /\ -1 \in SomeHandle /\ -1 \in SomeInode
        /\ -1 \in SomeBlock /\ 0 \in Slots /\ 0 \in Offsets /\ 0 \in Results
        /\ "none" \in Ops /\ "idle" \in Nexts
    BY ThreadsAssumption DEF SomeName, SomeMode, SomeHandle, SomeInode, SomeBlock, Slots,
         Offsets, Results, Ops, Nexts
  <1> QED
    BY <1>1 DEF NoCall, Call

LEMMA CallFields ==
  ASSUME NEW c \in Call
  PROVE  /\ c.op \in Ops /\ c.name \in SomeName /\ c.link \in SomeName /\ c.mode \in SomeMode
         /\ c.fhandle \in SomeHandle /\ c.inum \in SomeInode /\ c.slot \in Slots
         /\ c.block \in SomeBlock /\ c.offset \in Offsets /\ c.then \in Nexts
  BY DEF Call

LEMMA SomeKinds ==
  /\ 0 \in Slots
  /\ \A s \in DirSlots : s \in Slots /\ s + 1 \in Slots /\ s \in Int /\ s >= 0
  /\ \A s \in Slots : s \notin DirSlots => \A e \in DirSlots : e < s
  /\ Inumbers \subseteq SomeInode /\ Blocks \subseteq SomeBlock /\ Names \subseteq SomeName
  BY ThreadsAssumption DEF Slots, DirSlots, SomeInode, SomeBlock, SomeName

LEMMA AbsentNoEntry ==
  ASSUME EntriesOwned, NEW n \in Names
  PROVE  Absent(n) <=> NoEntry(n)
  BY ThreadsAssumption DEF EntriesOwned, Absent, Matches, NoEntry, FreeEntry, NameAt, InumAt, Inumbers

LEMMA SameNames ==
  ASSUME dir_entry' = dir_entry
  PROVE  /\ \A t \in Threads : \A i : Named(t, i)' <=> Named(t, i)
         /\ \A t \in Threads : \A i : EntriesOf(t, i)' = EntriesOf(t, i)
         /\ \A n, i : Leads(n, i)' <=> Leads(n, i)
         /\ \A n : NoEntry(n)' <=> NoEntry(n)
         /\ \A e : NameAt(e)' = NameAt(e) /\ InumAt(e)' = InumAt(e)
  BY DEF Named, EntriesOf, Leads, NoEntry, NameAt, InumAt, Mine

LEMMA SameSoft ==
  ASSUME dir_entry' = dir_entry, \A i \in Inumbers : IsSoft(i)' <=> IsSoft(i)
  PROVE  \A n : (NotSoft(n)' <=> NotSoft(n)) /\ (LeadsToFile(n)' <=> LeadsToFile(n))
  BY SameNames DEF NotSoft, LeadsToFile

\* t neither holds an inode without a name nor fills a block.
Plain(t) ==
  /\ pc[t] \notin {"init", "s_block", "s_lock", "s_done", "delete", "u_done", "l_done", "w_copy"}
  /\ pc[t] = "add" => loc[t].op = "link"

LEMMA PlainOwns ==
  ASSUME NEW t \in Threads, Plain(t)
  PROVE  /\ ~Unnamed(t) /\ ~Fills(t)
         /\ \A i : Owns(t, i) <=> Named(t, i)
         /\ \A i : Sized(t, i) <=> Named(t, i) /\ inode_table[i].i_size > 0
  BY DEF Plain, Unnamed, Fills, Owns, Holds, Sized

LEMMA PlainStays ==
  ASSUME NEW t \in Threads, Plain(t), Plain(t)', UNCHANGED <<inode_table, dir_entry>>
  PROVE  /\ \A i : Named(t, i)' <=> Named(t, i)
         /\ \A i : Owns(t, i)' <=> Owns(t, i)
         /\ \A i \in Inumbers : Sized(t, i)' <=> Sized(t, i)
         /\ \A b : Uses(t, b)' <=> Uses(t, b)
         /\ \A i : IsSoft(i)' <=> IsSoft(i)
  <1>1. inode_table' = inode_table /\ dir_entry' = dir_entry
    OBVIOUS
  <1>2. \A i : Named(t, i)' <=> Named(t, i)
    BY <1>1, SameNames
  <1>3. Plain(t) /\ Plain(t)'
    OBVIOUS
  <1>4. /\ ~Unnamed(t)' /\ ~Fills(t)'
        /\ \A i : Owns(t, i)' <=> Named(t, i)'
        /\ \A i : Sized(t, i)' <=> Named(t, i)' /\ inode_table'[i].i_size > 0
    BY <1>3 DEF Plain, Unnamed, Fills, Owns, Holds, Sized
  <1>5. \A i \in Inumbers : Sized(t, i)' <=> Sized(t, i)
    BY <1>1, <1>2, <1>3, <1>4, PlainOwns
  <1>6. \A b : Uses(t, b)' <=> Uses(t, b)
    BY <1>1, <1>3, <1>4, <1>5, PlainOwns DEF Uses
  <1> QED
    BY <1>1, <1>2, <1>3, <1>4, <1>5, <1>6, PlainOwns DEF IsSoft

\* A step that changes no table.
Looks(t) ==
  /\ UNCHANGED <<tables, handles, lock_file_entries>>
  /\ \A u \in Threads \ {t} : pc'[u] = pc[u] /\ loc'[u] = loc[u]
  /\ \A i \in Inumbers : inode_lock'[i] \in {inode_lock[i], t, Nobody}
  /\ Plain(t) /\ Plain(t)'

LEMMA LooksOwns ==
  ASSUME NEW t \in Threads, Looks(t)
  PROVE  /\ \A i : Named(t, i)' <=> Named(t, i)
         /\ \A i : Owns(t, i)' <=> Owns(t, i)
         /\ \A i \in Inumbers : Sized(t, i)' <=> Sized(t, i)
         /\ \A b : Uses(t, b)' <=> Uses(t, b)
         /\ \A i : IsSoft(i)' <=> IsSoft(i)
  BY PlainStays DEF Looks, tables, inodeVars

\* It is confined, and right for t when the call is right at its new label.
LEMMA LooksConfined ==
  ASSUME NEW t \in Threads, Typed, Good(t), Looks(t)
  PROVE  /\ Confined(t) /\ Gains(t) /\ Saves(t)
         /\ NothingOpen(t)' /\ LocksHeld(t)' /\ AtLabel(t)' => Good(t)'
  <1>1. UNCHANGED <<freeinode_ts, inode_table, dir_entry, free_blocks, fs_data,
                    free_open_file_entries, open_file_table, handles, lock_file_entries>>
    BY DEF Looks, tables, inodeVars, blockVars, fileVars
  <1>2. Confined(t)
    BY <1>1 DEF Looks, Confined
  <1>3. Gains(t)
    BY <1>1, LooksOwns DEF Gains, Live
  <1>4. Saves(t)
    BY <1>1, LooksOwns DEF Saves
  <1>5. NamesOnce(t)'
    BY <1>1, SameNames DEF Good, NamesOnce, Mine
  <1>6. OwnsLive(t)'
    BY <1>1, LooksOwns DEF Good, OwnsLive, Live
  <1>7. CountedFor(t)'
    BY <1>1, LooksOwns, SameNames DEF Good, CountedFor, Looks, Plain
  <1>8. OwnContents(t)'
    <2>1. SUFFICES ASSUME NEW i \in Inumbers, Sized(t, i) PROVE ClaimsBlock(t, i)'
      BY LooksOwns DEF OwnContents
    <2>2. ClaimsBlock(t, i)
      BY <2>1 DEF Good, OwnContents
    <2>3. ~Fills(t)'
      BY DEF Looks, Plain, Fills
    <2>4. \A n : NotSoft(n)' <=> NotSoft(n)
      BY <1>1, LooksOwns, SameSoft
    <2> QED
      BY <1>1, <2>2, <2>3, <2>4, LooksOwns DEF ClaimsBlock, Mine
  <1>9. LinksSized(t)'
    BY <1>1, LooksOwns DEF Good, LinksSized, Looks, Plain
  <1>10. HandlesHeld(t)'
    BY <1>1, LooksOwns DEF Good, HandlesHeld, HandleGood, IsSoft
  <1> QED
    BY <1>2, <1>3, <1>4, <1>5, <1>6, <1>7, <1>8, <1>9, <1>10 DEF Good

\* What a step of t has to be shown to do.
Fine(t) == Confined(t) /\ Gains(t) /\ Good(t)' /\ Typed' /\ died' = died

LEMMA LooksTyped ==
  ASSUME Typed, NEW t \in Threads, Looks(t),
         pc' \in [Threads -> Labels], loc' \in [Threads -> Call],
         inode_lock' \in [Inumbers -> Threads \cup {Nobody}],
         calls' \in [Threads -> Nat], seen' = seen, died' = died
  PROVE  Typed'
  <1>1. UNCHANGED <<freeinode_ts, inode_table, dir_entry, free_blocks, fs_data,
                    free_open_file_entries, open_file_table, handles, lock_file_entries, seen, died>>
    BY DEF Looks, tables, inodeVars, blockVars, fileVars
  <1>2. \A u \in Threads : loc'[u].slot \in 0 .. MAX_DIR_ENTRIES
    BY CallFields DEF Slots
  <1> QED
    BY <1>1, <1>2 DEF Typed, ThreadsTypeOK

\* A call that has returned knows nothing and waits for nothing.
LEMMA IdleAtLabel ==
  ASSUME Typed, NEW t \in Threads, pc'[t] = "idle", loc'[t] = NoCall
  PROVE  AtLabel(t)' /\ NothingOpen(t)' /\ Plain(t)'
  <1>1. loc'[t].op = "none" /\ loc'[t].slot = 0
    BY NoCallTyped
  <1>2. Idling(t)' /\ Searching(t)' /\ Opening(t)' /\ Linking(t)' /\ Unlinking(t)' /\ OnHandle(t)'
    BY <1>1, NoCallTyped DEF Idling, Searching, Opening, Linking, Unlinking, OnHandle
  <1>3. Creating(t)'
    BY <1>1 DEF Creating, Fills
  <1> QED
    BY <1>1, <1>2, <1>3 DEF AtLabel, NothingOpen, Plain

LEMMA LooksFine ==
  ASSUME Typed, NEW t \in Threads, Good(t),
         UNCHANGED <<tables, handles, lock_file_entries, died, seen>>,
         calls' \in [Threads -> Nat],
         inode_lock' \in [Inumbers -> Threads \cup {Nobody}],
         \A i \in Inumbers : inode_lock'[i] \in {inode_lock[i], t, Nobody},
         pc' \in [Threads -> Labels], loc' \in [Threads -> Call],
         \A u \in Threads \ {t} : pc'[u] = pc[u] /\ loc'[u] = loc[u],
         Plain(t), Plain(t)', NothingOpen(t)', AtLabel(t)', LocksHeld(t)'
  PROVE  Fine(t) /\ Saves(t)
  <1>1. Looks(t)
    BY DEF Looks
  <1>2. Typed'
    BY <1>1, LooksTyped
  <1> QED
    BY <1>1, <1>2, LooksConfined DEF Fine

\* A thread at a label without a lock has none.
Unlocking(t) ==
  \/ pc[t] \in {"l_done", "s_done", "clear", "u_done"}
  \/ pc[t] = "add" /\ loc[t].op # "open"

LEMMA NoLockHere ==
  ASSUME NEW t \in Threads, Good(t), ~Unlocking(t)
  PROVE  \A i \in Inumbers : inode_lock[i] # t
  BY DEF Good, LocksHeld, Unlocking

\* A call that only looked, and returns.
LEMMA ReturnFine ==
  ASSUME Typed, NEW t \in Threads, Good(t), Plain(t), Return(t),
         UNCHANGED <<tables, lock_file_entries, died>>,
         inode_lock' \in [Inumbers -> Threads \cup {Nobody}],
         \A i \in Inumbers : inode_lock'[i] \in {inode_lock[i], Nobody} /\ inode_lock'[i] # t
  PROVE  Fine(t) /\ Saves(t)
  <1>1. Go(t, "idle", NoCall) /\ UNCHANGED <<calls, handles, seen>>
    BY DEF Return, callerVars
  <1>2. /\ pc' \in [Threads -> Labels] /\ loc' \in [Threads -> Call]
        /\ pc'[t] = "idle" /\ loc'[t] = NoCall
        /\ \A u \in Threads \ {t} : pc'[u] = pc[u] /\ loc'[u] = loc[u]
    BY <1>1, GoWhere, NoCallTyped DEF Labels
  <1>3. LocksHeld(t)'
    BY DEF LocksHeld, Good
  <1>4. calls' \in [Threads -> Nat]
    BY <1>1 DEF Typed, ThreadsTypeOK
  <1> QED
    BY <1>1, <1>2, <1>3, <1>4, IdleAtLabel, LooksFine

-----------------------------------------------------------------------------
(* The search of the directory.                                            *)

LEMMA FindFine ==
  ASSUME Typed, Shared, NEW t \in Threads, Good(t), Find(t)
  PROVE  Fine(t) /\ Saves(t)
  <1> DEFINE c == loc[t]
  <1>1. /\ pc[t] = "find" /\ c \in Call
        /\ UNCHANGED <<tables, locks, died, callerVars>>
    BY DEF Find, At, Typed, Return, callerVars
  <1>2. UNCHANGED <<inode_table, dir_entry, handles, inode_lock, lock_file_entries, calls, seen, died>>
    BY <1>1 DEF tables, locks, callerVars, inodeVars
  <1>3. Searching(t) /\ Plain(t)
    BY <1>1 DEF Good, AtLabel, Plain
  <1>4. \A i \in Inumbers : inode_lock[i] # t
    BY <1>1, NoLockHere DEF Unlocking
  <1>5. ASSUME pc' \in [Threads -> Labels], loc' \in [Threads -> Call],
               \A u \in Threads \ {t} : pc'[u] = pc[u] /\ loc'[u] = loc[u],
               Plain(t)', NothingOpen(t)', AtLabel(t)'
        PROVE  Fine(t) /\ Saves(t)
    <2>1. LocksHeld(t)'
      BY <1>2, <1>4 DEF LocksHeld, Good
    <2>2. /\ calls' \in [Threads -> Nat] /\ inode_lock' \in [Inumbers -> Threads \cup {Nobody}]
          /\ \A i \in Inumbers : inode_lock'[i] \in {inode_lock[i], t, Nobody}
      BY <1>2 DEF Typed, ThreadsTypeOK
    <2> QED
      BY <1>1, <1>2, <1>3, <1>5, <2>1, <2>2, LooksFine
  <1>6. CASE c.slot \in DirSlots /\ Matches(c.slot, c.name)
    <2> DEFINE i == InumAt(c.slot)
    <2>1. i \in Inumbers /\ NameAt(c.slot) = c.name /\ Leads(c.name, i) /\ c.name \in Mine(t)
      <3>1. NameAt(c.slot) = c.name /\ c.name \in Mine(t)
        BY <1>1, <1>3, <1>6 DEF Matches, NameAt, Searching
      <3>2. dir_entry[c.slot] # FreeEntry
        BY <3>1, MineReal DEF FreeEntry, NameAt
      <3> QED
        BY <1>6, <3>1, <3>2 DEF Shared, EntriesOwned, Leads
    <2> DEFINE v == [c EXCEPT !.inum = i, !.slot = 0]
    <2>2. Go(t, c.then, v)
      BY <1>6 DEF Find, InumAt
    <2>3. /\ v \in Call /\ v.inum = i /\ v.slot = 0
          /\ v.op = c.op /\ v.name = c.name /\ v.link = c.link /\ v.mode = c.mode
          /\ v.offset = c.offset
      BY <1>1, <2>1, SomeKinds DEF Call
    <2>4. c.then \in Labels \ {"idle"}
      BY <1>1, <1>3 DEF Searching, Labels
    <2> HIDE DEF v
    <2>5. /\ pc' \in [Threads -> Labels] /\ loc' \in [Threads -> Call]
          /\ pc'[t] = c.then /\ loc'[t] = v
          /\ \A u \in Threads \ {t} : pc'[u] = pc[u] /\ loc'[u] = loc[u]
      BY <2>2, <2>3, <2>4, GoWhere
    <2>6. NothingOpen(t)'
      BY <1>2, <2>3, <2>5 DEF Good, NothingOpen
    <2>7. /\ \A j : Named(t, j)' <=> Named(t, j)
          /\ \A n, j : Leads(n, j)' <=> Leads(n, j)
          /\ \A n : NoEntry(n)' <=> NoEntry(n)
      BY <1>2, SameNames
    <2>8. LinkFree(t) => LinkFree(t)'
      BY <2>3, <2>5, <2>7 DEF LinkFree, Mine
    <2>9. c.then # "create"
      BY <1>1, <1>3, <1>6, <2>1 DEF Searching, NoEntry
    <2>10. c.then \in {"o_first", "o_second", "l_lock", "s_first", "u_lock"}
      BY <1>1, <1>3, <2>9 DEF Searching
    <2>11. Plain(t)'
      BY <2>5, <2>10 DEF Plain
    <2>12. Idling(t)' /\ Searching(t)' /\ Creating(t)' /\ OnHandle(t)'
      BY <2>3, <2>5, <2>10 DEF Idling, Searching, Creating, OnHandle, Fills
    <2>13. Opening(t)'
      <3>1. Named(t, i)
        BY <2>1 DEF Leads, Named
      <3>2. c.then = "o_second" => ~IsSoft(i)
        BY <1>1, <1>3, <2>1 DEF Searching, NotSoft
      <3>3. c.then \in {"o_first", "o_second"} => c.op = "open" /\ c.offset = 0
        BY <1>1, <1>3 DEF Searching
      <3> QED
        BY <1>2, <2>1, <2>3, <2>5, <2>7, <2>10, <3>1, <3>2, <3>3 DEF Opening, IsSoft
    <2>14. Linking(t)'
      BY <1>1, <1>3, <2>1, <2>3, <2>5, <2>7, <2>8, <2>10 DEF Linking, Searching
    <2>15. Unlinking(t)'
      <3>1. c.slot \in DirSlots /\ c.slot >= 0
        BY <1>6 DEF DirSlots
      <3>2. c.then = "u_lock" => c.op = "unlink"
        BY <1>1, <1>3 DEF Searching
      <3>3. \E e \in DirSlots : e >= 0 /\ NameAt(e)' = c.name /\ InumAt(e)' = i
        BY <1>2, <2>1, <3>1, SameNames
      <3> QED
        BY <2>1, <2>3, <2>5, <2>10, <3>2, <3>3 DEF Unlinking, Mine
    <2> QED
      BY <1>5, <2>5, <2>6, <2>11, <2>12, <2>13, <2>14, <2>15 DEF AtLabel
  <1>7. CASE c.slot \in DirSlots /\ ~Matches(c.slot, c.name)
    <2> DEFINE v == [c EXCEPT !.slot = c.slot + 1]
    <2>1. Go(t, "find", v)
      BY <1>7 DEF Find
    <2>2. /\ v \in Call /\ v.slot = c.slot + 1 /\ v.then = c.then
          /\ v.op = c.op /\ v.name = c.name /\ v.link = c.link /\ v.mode = c.mode
          /\ v.offset = c.offset
      BY <1>1, <1>7, SomeKinds DEF Call
    <2> HIDE DEF v
    <2>3. /\ pc' \in [Threads -> Labels] /\ loc' \in [Threads -> Call]
          /\ pc'[t] = "find" /\ loc'[t] = v
          /\ \A u \in Threads \ {t} : pc'[u] = pc[u] /\ loc'[u] = loc[u]
      BY <2>1, <2>2, GoWhere DEF Labels
    <2>4. NameAt(c.slot) # c.name
      <3>1. c.name \in Mine(t)
        BY <1>1, <1>3 DEF Searching
      <3> QED
        BY <1>7, <3>1, MineReal, ThreadsAssumption
           DEF Matches, NameAt, InumAt, Shared, EntriesOwned, FreeEntry, Inumbers
    <2>5. \A n : (NoEntry(n)' <=> NoEntry(n)) /\ (NotSoft(n)' <=> NotSoft(n))
      BY <1>2, SameNames, SameSoft DEF IsSoft
    <2>6. LinkFree(t) => LinkFree(t)'
      BY <2>2, <2>3, <2>5 DEF LinkFree, Mine
    <2>7. \A e \in DirSlots : e < v.slot => NameAt(e)' # v.name
      BY <1>1, <1>2, <1>3, <1>7, <2>2, <2>4, SameNames DEF Searching, DirSlots
    <2>8. Searching(t)'
      BY <1>1, <1>3, <2>2, <2>3, <2>5, <2>6, <2>7 DEF Searching, Mine
    <2>9. AtLabel(t)'
      BY <2>3, <2>8 DEF AtLabel, Idling, Opening, Creating, Linking, Unlinking, OnHandle, Fills
    <2>10. NothingOpen(t)' /\ Plain(t)'
      BY <1>2, <2>2, <2>3 DEF Good, NothingOpen, Plain
    <2> QED
      BY <1>5, <2>3, <2>9, <2>10
  <1>8. CASE c.slot \notin DirSlots /\ c.then = "o_first" /\ "CREAT" \in c.mode
    <2> DEFINE v == [c EXCEPT !.slot = 0]
    <2>1. Go(t, "create", v)
      BY <1>8 DEF Find
    <2>2. /\ v \in Call /\ v.slot = 0
          /\ v.op = c.op /\ v.name = c.name /\ v.link = c.link /\ v.mode = c.mode
          /\ v.offset = c.offset
      BY <1>1, SomeKinds DEF Call
    <2> HIDE DEF v
    <2>3. /\ pc' \in [Threads -> Labels] /\ loc' \in [Threads -> Call]
          /\ pc'[t] = "create" /\ loc'[t] = v
          /\ \A u \in Threads \ {t} : pc'[u] = pc[u] /\ loc'[u] = loc[u]
      BY <2>1, <2>2, GoWhere DEF Labels
    <2>4. c.op = "open" /\ c.name \in Mine(t) /\ NoEntry(c.name) /\ c.offset = 0
      <3>1. \A e \in DirSlots : e < c.slot
        BY <1>1, <1>8, CallFields, SomeKinds
      <3> QED
        BY <1>1, <1>3, <1>8, <3>1 DEF Searching, NoEntry
    <2>5. MayAdd(t)'
      BY <1>2, <2>2, <2>3, <2>4, SameNames DEF MayAdd, NewName, Mine
    <2>6. AtLabel(t)'
      BY <2>2, <2>3, <2>4, <2>5
         DEF AtLabel, Idling, Searching, Opening, Creating, Linking, Unlinking, OnHandle, Fills
    <2>7. NothingOpen(t)' /\ Plain(t)'
      BY <1>2, <2>2, <2>3 DEF Good, NothingOpen, Plain
    <2> QED
      BY <1>5, <2>3, <2>6, <2>7
  <1>9. CASE c.slot \notin DirSlots /\ ~(c.then = "o_first" /\ "CREAT" \in c.mode)
    <2>1. Go(t, "idle", NoCall)
      BY <1>9 DEF Find, Return
    <2>2. /\ pc' \in [Threads -> Labels] /\ loc' \in [Threads -> Call]
          /\ pc'[t] = "idle" /\ loc'[t] = NoCall
          /\ \A u \in Threads \ {t} : pc'[u] = pc[u] /\ loc'[u] = loc[u]
      BY <2>1, GoWhere, NoCallTyped DEF Labels
    <2> QED
      BY <1>5, <2>2, IdleAtLabel
  <1> QED
    BY <1>6, <1>7, <1>8, <1>9

-----------------------------------------------------------------------------
(* The steps that take a lock, or look at an inode or a handle.            *)

\* A call that goes on without changing a table: what is left to show.
LEMMA GoesOn ==
  ASSUME Typed, NEW t \in Threads, Good(t), Plain(t), ~Unlocking(t),
         NEW where \in Labels, NEW v \in Call, Go(t, where, v),
         UNCHANGED <<tables, locks, died, callerVars>>,
         v.op = loc[t].op, v.mode = loc[t].mode, Plain(t)', AtLabel(t)'
  PROVE  Fine(t) /\ Saves(t)
  <1>1. UNCHANGED <<inode_lock, lock_file_entries, calls, handles, seen>>
    BY DEF locks, callerVars
  <1>2. /\ pc' \in [Threads -> Labels] /\ loc' \in [Threads -> Call]
        /\ pc'[t] = where /\ loc'[t] = v
        /\ \A u \in Threads \ {t} : pc'[u] = pc[u] /\ loc'[u] = loc[u]
    BY GoWhere
  <1>3. LocksHeld(t)'
    BY <1>1, NoLockHere DEF LocksHeld, Good
  <1>4. NothingOpen(t)'
    BY <1>1, <1>2 DEF Good, NothingOpen
  <1>5. /\ calls' \in [Threads -> Nat] /\ inode_lock' \in [Inumbers -> Threads \cup {Nobody}]
        /\ \A i \in Inumbers : inode_lock'[i] \in {inode_lock[i], t, Nobody}
    BY <1>1 DEF Typed, ThreadsTypeOK
  <1> QED
    BY <1>1, <1>2, <1>3, <1>4, <1>5, LooksFine

\* What the names and the inodes say is the same after a step that changes
\* no table.
LEMMA SameTables ==
  ASSUME UNCHANGED tables
  PROVE  /\ UNCHANGED <<freeinode_ts, inode_table, dir_entry, free_blocks, fs_data,
                        free_open_file_entries, open_file_table>>
         /\ \A i : IsSoft(i)' <=> IsSoft(i)
         /\ \A n : (NotSoft(n)' <=> NotSoft(n)) /\ (LeadsToFile(n)' <=> LeadsToFile(n))
  <1>1. UNCHANGED <<freeinode_ts, inode_table, dir_entry, free_blocks, fs_data,
                    free_open_file_entries, open_file_table>>
    BY DEF tables, inodeVars, blockVars, fileVars
  <1> QED
    BY <1>1, SameSoft DEF IsSoft

\* What a symbolic link of t stores.
LEMMA LinkStores ==
  ASSUME NEW t \in Threads, Good(t), Plain(t), NEW i \in Inumbers, Named(t, i), IsSoft(i)
  PROVE  \E n \in Mine(t) : fs_data[inode_table[i].i_data_block] = n /\ NotSoft(n)
  <1>1. Sized(t, i)
    BY PlainOwns DEF Good, LinksSized, Plain
  <1> QED
    BY <1>1 DEF Good, OwnContents, ClaimsBlock

LEMMA OpenFirstSoftFine ==
  ASSUME Typed, NEW t \in Threads, Good(t), OpenFirst(t), IsSoft(loc[t].inum)
  PROVE  Fine(t) /\ Saves(t)
  <1> DEFINE c == loc[t]
  <1>1. pc[t] = "o_first" /\ c \in Call /\ Plain(t) /\ ~Unlocking(t)
    BY DEF OpenFirst, At, Typed, Plain, Unlocking
  <1>2. c.op = "open" /\ c.inum \in Inumbers /\ Named(t, c.inum) /\ c.slot = 0 /\ c.offset = 0
    BY <1>1 DEF Good, AtLabel, Opening, Idling
  <1>3. PICK n \in Mine(t) : fs_data[inode_table[c.inum].i_data_block] = n /\ NotSoft(n)
    BY <1>1, <1>2, LinkStores
  <1> DEFINE v == [c EXCEPT !.name = n, !.then = "o_second"]
  <1>4. Go(t, "find", v) /\ UNCHANGED <<tables, locks, died, callerVars>>
    BY <1>3 DEF OpenFirst, IsSoft, tables, inodeVars, blockVars
  <1>5. /\ v \in Call /\ v.name = n /\ v.then = "o_second"
        /\ v.op = "open" /\ v.mode = c.mode /\ v.slot = 0 /\ v.offset = 0
    <2>1. n \in SomeName /\ "o_second" \in Nexts
      BY MineReal, SomeKinds DEF Nexts
    <2> QED
      BY <1>1, <1>2, <2>1 DEF Call
  <1> HIDE DEF v
  <1>6. pc'[t] = "find" /\ loc'[t] = v
    BY <1>4, <1>5, GoWhere DEF Labels
  <1>7. Searching(t)'
    <2>1. NotSoft(n)'
      BY <1>3, <1>4, SameTables
    <2>2. \A e \in DirSlots : ~(e < 0)
      BY SomeKinds
    <2> QED
      BY <1>5, <1>6, <2>1, <2>2 DEF Searching, Mine
  <1>8. AtLabel(t)' /\ Plain(t)'
    BY <1>5, <1>6, <1>7
       DEF AtLabel, Idling, Opening, Creating, Linking, Unlinking, OnHandle, Fills, Plain
  <1> QED
    BY <1>1, <1>2, <1>4, <1>5, <1>8, GoesOn DEF Labels

LEMMA LinkLocksFine ==
  ASSUME Typed, NEW t \in Threads, Good(t), LinkLocks(t)
  PROVE  Fine(t) /\ Saves(t)
  <1> DEFINE c == loc[t]
  <1>1. /\ pc[t] = "l_lock" /\ c \in Call /\ Plain(t) /\ ~Unlocking(t)
        /\ UNCHANGED <<tables, lock_file_entries, died>>
    BY DEF LinkLocks, At, Typed, Plain, Unlocking
  <1>2. c.op = "link" /\ c.inum \in Inumbers /\ LinkFree(t) /\ Leads(c.name, c.inum) /\ c.slot = 0
    BY <1>1 DEF Good, AtLabel, Linking, Idling
  <1>3. inode_lock \in [Inumbers -> Threads \cup {Nobody}] /\ \A i \in Inumbers : inode_lock[i] # t
    BY <1>1, NoLockHere DEF Typed, ThreadsTypeOK
  <1>4. CASE Return(t) /\ UNCHANGED inode_lock
    BY <1>1, <1>3, <1>4, ReturnFine
  <1>5. CASE ~IsSoft(c.inum) /\ Lock(t, c.inum) /\ Go(t, "add", c) /\ UNCHANGED callerVars
    <2>1. /\ pc' \in [Threads -> Labels] /\ loc' \in [Threads -> Call]
          /\ pc'[t] = "add" /\ loc'[t] = c
          /\ \A u \in Threads \ {t} : pc'[u] = pc[u] /\ loc'[u] = loc[u]
      BY <1>1, <1>5, GoWhere DEF Labels
    <2>2. inode_lock' = [inode_lock EXCEPT ![c.inum] = t] /\ UNCHANGED <<calls, handles, seen>>
      BY <1>5 DEF Lock, callerVars
    <2>3. LocksHeld(t)'
      BY <1>1, <1>2, <1>3, <2>1, <2>2 DEF LocksHeld, Good
    <2>4. dir_entry' = dir_entry /\ (IsSoft(c.inum)' <=> IsSoft(c.inum))
      BY <1>1, <2>1, SameTables
    <2>5. LinkFree(t)'
      BY <1>2, <2>1, <2>4, SameNames DEF LinkFree, Mine
    <2>6. MayAdd(t)'
      <3>1. LeadsToFile(c.name)'
        BY <1>1, <1>2, <1>5, <2>1, SameTables DEF LeadsToFile
      <3> QED
        BY <1>2, <2>1, <2>5, <3>1 DEF MayAdd, NewName, LinkFree, Mine
    <2>7. Leads(c.name, c.inum)' /\ ~IsSoft(c.inum)'
      BY <1>1, <1>2, <1>5, <2>1, <2>4, SameNames
    <2>8. AtLabel(t)' /\ Plain(t)' /\ NothingOpen(t)'
      BY <1>2, <2>1, <2>6, <2>7
         DEF AtLabel, Idling, Searching, Opening, Creating, Linking, Unlinking, OnHandle, Fills, Plain,
             NothingOpen
    <2>9. /\ calls' \in [Threads -> Nat] /\ inode_lock' \in [Inumbers -> Threads \cup {Nobody}]
          /\ \A i \in Inumbers : inode_lock'[i] \in {inode_lock[i], t, Nobody}
      BY <1>2, <1>3, <2>2 DEF Typed, ThreadsTypeOK
    <2> QED
      BY <1>1, <2>1, <2>2, <2>3, <2>8, <2>9, LooksFine
  <1> QED
    BY <1>1, <1>4, <1>5 DEF LinkLocks, IsSoft

LEMMA SymLinkChecksFine ==
  ASSUME Typed, NEW t \in Threads, Good(t), SymLinkChecks(t)
  PROVE  Fine(t) /\ Saves(t)
  <1> DEFINE c == loc[t]
  <1>1. /\ pc[t] = "s_first" /\ c \in Call /\ Plain(t) /\ ~Unlocking(t)
        /\ UNCHANGED <<tables, locks, died, callerVars>>
    BY DEF SymLinkChecks, At, Typed, Plain, Unlocking
  <1>2. c.op = "sym_link" /\ c.inum \in Inumbers /\ LinkFree(t) /\ Leads(c.name, c.inum) /\ c.slot = 0
    BY <1>1 DEF Good, AtLabel, Linking, Idling
  <1>3. CASE IsSoft(c.inum)
    <2>1. Named(t, c.inum)
      BY <1>2 DEF Leads, Named, LinkFree
    <2>2. PICK n \in Mine(t) : fs_data[inode_table[c.inum].i_data_block] = n /\ NotSoft(n)
      BY <1>1, <1>2, <1>3, <2>1, LinkStores
    <2>3. n = c.link
      BY <1>2, <1>3, <2>2 DEF NotSoft, LinkFree, Mine
    <2> DEFINE v == [c EXCEPT !.name = n, !.then = "create"]
    <2>4. Go(t, "find", v)
      BY <1>3, <2>2 DEF SymLinkChecks, IsSoft
    <2>5. /\ v \in Call /\ v.name = n /\ v.then = "create"
          /\ v.op = "sym_link" /\ v.mode = c.mode /\ v.slot = 0
      <3>1. n \in SomeName /\ "create" \in Nexts
        BY MineReal, SomeKinds DEF Nexts
      <3> QED
        BY <1>1, <1>2, <3>1 DEF Call
    <2> HIDE DEF v
    <2>6. pc'[t] = "find" /\ loc'[t] = v
      BY <2>4, <2>5, GoWhere DEF Labels
    <2>7. Searching(t)'
      <3>1. NoEntry(n)'
        BY <1>1, <1>2, <2>3, SameTables, SameNames DEF LinkFree
      <3>2. \A e \in DirSlots : ~(e < 0)
        BY SomeKinds
      <3> QED
        BY <2>5, <2>6, <3>1, <3>2 DEF Searching, Mine
    <2>8. AtLabel(t)' /\ Plain(t)'
      BY <2>5, <2>6, <2>7
         DEF AtLabel, Idling, Opening, Creating, Linking, Unlinking, OnHandle, Fills, Plain
    <2> QED
      BY <1>1, <1>2, <2>4, <2>5, <2>8, GoesOn DEF Labels
  <1>4. CASE ~IsSoft(c.inum)
    <2>1. Go(t, "create", c)
      BY <1>4 DEF SymLinkChecks, IsSoft
    <2>2. pc'[t] = "create" /\ loc'[t] = c
      BY <1>1, <2>1, GoWhere DEF Labels
    <2>3. LinkFree(t)' /\ LeadsToFile(c.name)'
      BY <1>1, <1>2, <1>4, <2>2, SameTables, SameNames DEF LinkFree, LeadsToFile, Mine
    <2>4. MayAdd(t)'
      BY <1>2, <2>2, <2>3 DEF MayAdd, NewName, LinkFree, Mine
    <2>5. AtLabel(t)' /\ Plain(t)'
      BY <1>2, <2>2, <2>4
         DEF AtLabel, Idling, Searching, Opening, Creating, Linking, Unlinking, OnHandle, Fills, Plain
    <2> QED
      BY <1>1, <2>1, <2>5, GoesOn DEF Labels
  <1> QED
    BY <1>3, <1>4

LEMMA UnlinkLocksFine ==
  ASSUME Typed, NEW t \in Threads, Good(t), UnlinkLocks(t)
  PROVE  Fine(t) /\ Saves(t)
  <1> DEFINE c == loc[t]
  <1>1. /\ pc[t] = "u_lock" /\ c \in Call /\ Plain(t) /\ ~Unlocking(t)
        /\ UNCHANGED <<tables, lock_file_entries, died, calls, handles, seen>>
        /\ Go(t, "clear", c)
    BY DEF UnlinkLocks, At, Typed, Plain, Unlocking, callerVars
  <1>2. Unlinking(t)
    BY DEF Good, AtLabel
  <1>3. inode_lock \in [Inumbers -> Threads \cup {Nobody}] /\ \A i \in Inumbers : inode_lock[i] # t
    BY <1>1, NoLockHere DEF Typed, ThreadsTypeOK
  <1>4. inode_lock' = [inode_lock EXCEPT ![c.inum] = t] /\ c.inum \in Inumbers
    BY <1>1, <1>2 DEF UnlinkLocks, Lock, Unlinking
  <1>5. /\ pc' \in [Threads -> Labels] /\ loc' \in [Threads -> Call]
        /\ pc'[t] = "clear" /\ loc'[t] = c
        /\ \A u \in Threads \ {t} : pc'[u] = pc[u] /\ loc'[u] = loc[u]
    BY <1>1, GoWhere DEF Labels
  <1>6. LocksHeld(t)' /\ NothingOpen(t)'
    BY <1>1, <1>3, <1>4, <1>5 DEF LocksHeld, NothingOpen, Good
  <1>7. Unlinking(t)'
    BY <1>1, <1>2, <1>5, SameTables, SameNames DEF Unlinking, Mine
  <1>8. AtLabel(t)' /\ Plain(t)'
    BY <1>5, <1>7
       DEF AtLabel, Idling, Searching, Opening, Creating, Linking, OnHandle, Fills, Plain
  <1>9. /\ calls' \in [Threads -> Nat] /\ inode_lock' \in [Inumbers -> Threads \cup {Nobody}]
        /\ \A i \in Inumbers : inode_lock'[i] \in {inode_lock[i], t, Nobody}
    BY <1>1, <1>3, <1>4 DEF Typed, ThreadsTypeOK
  <1> QED
    BY <1>1, <1>5, <1>6, <1>8, <1>9, LooksFine

LEMMA GetOpenFileEntryFine ==
  ASSUME Typed, NEW t \in Threads, Good(t), GetOpenFileEntry(t)
  PROVE  Fine(t) /\ Saves(t)
  <1> DEFINE c == loc[t]
  <1>1. pc[t] = "get" /\ c \in Call /\ Plain(t) /\ ~Unlocking(t)
    BY DEF GetOpenFileEntry, At, Typed, Plain, Unlocking
  <1>2. c.fhandle \in handles[t] /\ c.op \in {"close", "write", "read"} /\ c.slot = 0
    BY <1>1 DEF Good, AtLabel, OnHandle, Idling
  <1>3. free_open_file_entries[c.fhandle] = "TAKEN"
    BY <1>2 DEF Good, HandlesHeld, HandleGood
  <1>4. Go(t, c.op, c) /\ UNCHANGED <<tables, locks, died, callerVars>>
    BY <1>3 DEF GetOpenFileEntry, locks
  <1>5. pc'[t] = c.op /\ loc'[t] = c
    BY <1>1, <1>2, <1>4, GoWhere DEF Labels
  <1>6. AtLabel(t)' /\ Plain(t)'
    BY <1>2, <1>4, <1>5
       DEF AtLabel, Idling, Searching, Opening, Creating, Linking, Unlinking, OnHandle, Fills, Plain,
           callerVars
  <1> QED
    BY <1>1, <1>2, <1>4, <1>6, GoesOn DEF Labels

LEMMA CloseChecksFine ==
  ASSUME Typed, NEW t \in Threads, Good(t), CloseChecks(t)
  PROVE  Fine(t) /\ Saves(t)
  <1> DEFINE c == loc[t]
  <1>1. pc[t] = "close" /\ c \in Call /\ Plain(t) /\ ~Unlocking(t)
    BY DEF CloseChecks, At, Typed, Plain, Unlocking
  <1>2. c.fhandle \in handles[t] /\ c.slot = 0
    BY <1>1 DEF Good, AtLabel, OnHandle, Idling
  <1>3. free_open_file_entries[c.fhandle] = "TAKEN"
    BY <1>2 DEF Good, HandlesHeld, HandleGood
  <1>4. Go(t, "c_free", c) /\ UNCHANGED <<tables, locks, died, callerVars>>
    BY <1>3 DEF CloseChecks
  <1>5. pc'[t] = "c_free" /\ loc'[t] = c
    BY <1>1, <1>4, GoWhere DEF Labels
  <1>6. AtLabel(t)' /\ Plain(t)'
    BY <1>2, <1>4, <1>5
       DEF AtLabel, Idling, Searching, Opening, Creating, Linking, Unlinking, OnHandle, Fills, Plain,
           callerVars
  <1> QED
    BY <1>1, <1>4, <1>6, GoesOn DEF Labels

LEMMA WriteFindsInodeFine ==
  ASSUME Typed, NEW t \in Threads, Good(t), WriteFindsInode(t)
  PROVE  Fine(t) /\ Saves(t)
  <1> DEFINE c == loc[t]
             i == open_file_table[c.fhandle].of_inumber
             v == [c EXCEPT !.inum = i]
  <1>1. /\ pc[t] = "write" /\ c \in Call /\ Plain(t) /\ ~Unlocking(t)
        /\ UNCHANGED <<tables, locks, died, callerVars>>
        /\ Go(t, "w_block", v)
    BY DEF WriteFindsInode, At, Typed, Plain, Unlocking
  <1>2. c.fhandle \in handles[t] /\ c.slot = 0 /\ c.fhandle \in Handles
    BY <1>1 DEF Good, AtLabel, OnHandle, Idling, Typed
  <1>3. i \in SomeInode
    BY <1>2, SomeKinds DEF Typed, ThreadsTypeOK
  <1>4. /\ v \in Call /\ v.inum = i /\ v.slot = 0 /\ v.fhandle = c.fhandle
        /\ v.op = c.op /\ v.mode = c.mode
    BY <1>1, <1>2, <1>3 DEF Call
  <1> HIDE DEF v
  <1>5. pc'[t] = "w_block" /\ loc'[t] = v
    BY <1>1, <1>4, GoWhere DEF Labels
  <1>6. OnHandle(t)'
    <2>1. handles' = handles /\ open_file_table' = open_file_table
      BY <1>1, SameTables DEF callerVars
    <2> QED
      BY <1>2, <1>4, <1>5, <2>1 DEF OnHandle
  <1>7. AtLabel(t)' /\ Plain(t)'
    BY <1>4, <1>5, <1>6
       DEF AtLabel, Idling, Searching, Opening, Creating, Linking, Unlinking, Fills, Plain
  <1> QED
    BY <1>1, <1>4, <1>7, GoesOn DEF Labels

-----------------------------------------------------------------------------
(* What the steps that change a table keep.                                *)

LEMMA KeepsNames ==
  ASSUME NEW t \in Threads, EntriesOwned, Good(t), dir_entry' = dir_entry,
         pc[t] \notin {"u_done", "l_done", "s_done"}, pc'[t] \notin {"u_done", "l_done"},
         \A i \in Inumbers : Named(t, i) =>
           /\ inode_table'[i].cnt_hardlinks = inode_table[i].cnt_hardlinks
           /\ IsSoft(i)' <=> IsSoft(i)
           /\ IsSoft(i) => inode_table'[i].i_size = inode_table[i].i_size
  PROVE  /\ NamesOnce(t)' /\ CountedFor(t)' /\ LinksSized(t)'
         /\ \A n \in Mine(t) : NotSoft(n)' <=> NotSoft(n)
         /\ \A n \in Mine(t) : LeadsToFile(n)' <=> LeadsToFile(n)
  <1>1. NamesOnce(t)'
    BY SameNames DEF Good, NamesOnce, Mine
  <1>2. CountedFor(t)'
    BY SameNames DEF Good, CountedFor
  <1>3. LinksSized(t)'
    BY SameNames DEF Good, LinksSized
  <1>4. \A n \in Mine(t) : \A i : Leads(n, i) => Named(t, i)
    BY DEF Leads, Named
  <1>5. \A n \in Mine(t) : (NotSoft(n)' <=> NotSoft(n)) /\ (LeadsToFile(n)' <=> LeadsToFile(n))
    BY <1>4, SameNames DEF NotSoft, LeadsToFile
  <1> QED
    BY <1>1, <1>2, <1>3, <1>5

LEMMA KeepsHandles ==
  ASSUME NEW t \in Threads, EntriesOwned, Good(t), dir_entry' = dir_entry,
         \A i \in Inumbers : Named(t, i) =>
           /\ IsSoft(i)' <=> IsSoft(i)
           /\ inode_table'[i].i_size = inode_table[i].i_size \/ handles[t] = {},
         \A h \in handles'[t] :
           /\ h \in handles[t]
           /\ open_file_table'[h] = open_file_table[h]
           /\ free_open_file_entries'[h] = free_open_file_entries[h]
  PROVE  HandlesHeld(t)'
  <1>1. SUFFICES ASSUME NEW h \in handles'[t] PROVE HandleGood(t, h)'
    BY DEF HandlesHeld
  <1>2. HandleGood(t, h) /\ h \in handles[t]
    BY DEF Good, HandlesHeld
  <1>3. open_file_table[h].of_inumber \in Inumbers
    BY <1>2, NamedInode DEF HandleGood
  <1> QED
    BY <1>2, <1>3, SameNames DEF HandleGood

\* Blocks and their contents, when the links of t still lead to files.
LEMMA KeepsBlocks ==
  ASSUME NEW t \in Threads, Good(t),
         \A i \in Inumbers : Sized(t, i)' =>
           /\ Sized(t, i)
           /\ inode_table'[i].i_data_block = inode_table[i].i_data_block
           /\ IsSoft(i)' <=> IsSoft(i)
           /\ fs_data'[inode_table[i].i_data_block] = fs_data[inode_table[i].i_data_block]
           /\ free_blocks'[inode_table[i].i_data_block] = free_blocks[inode_table[i].i_data_block]
           /\ Fills(t)' /\ loc'[t].block = inode_table[i].i_data_block =>
                pc'[t] = "w_copy" /\ loc'[t].inum = i,
         \A i \in Inumbers : Sized(t, i) /\ IsSoft(i) =>
           \A n \in Mine(t) : NotSoft(n) => NotSoft(n)'
  PROVE  OwnContents(t)'
  <1>1. SUFFICES ASSUME NEW i \in Inumbers, Sized(t, i)'
                 PROVE  ClaimsBlock(t, i)'
    BY DEF OwnContents
  <1>2. Sized(t, i) /\ ClaimsBlock(t, i)
    BY <1>1 DEF Good, OwnContents
  <1>3. IsSoft(i) => \E n \in Mine(t) : fs_data[inode_table[i].i_data_block] = n /\ NotSoft(n)'
    BY <1>2 DEF ClaimsBlock
  <1>4. \A j \in Inumbers : Sized(t, j)' /\ inode_table'[j].i_data_block = inode_table[i].i_data_block
          => j = i
    BY <1>2 DEF ClaimsBlock
  <1> QED
    BY <1>1, <1>2, <1>3, <1>4 DEF ClaimsBlock, Mine

LEMMA KeepsContents ==
  ASSUME NEW t \in Threads, Good(t),
         \A i \in Inumbers : Sized(t, i)' =>
           /\ Sized(t, i)
           /\ inode_table'[i].i_data_block = inode_table[i].i_data_block
           /\ IsSoft(i)' <=> IsSoft(i)
           /\ fs_data'[inode_table[i].i_data_block] = fs_data[inode_table[i].i_data_block]
           /\ free_blocks'[inode_table[i].i_data_block] = free_blocks[inode_table[i].i_data_block]
           /\ Fills(t)' /\ loc'[t].block = inode_table[i].i_data_block =>
                pc'[t] = "w_copy" /\ loc'[t].inum = i,
         \A n \in Mine(t) : NotSoft(n) => NotSoft(n)'
  PROVE  OwnContents(t)'
  BY KeepsBlocks

\* The locks of a thread that gives back that of the inode of its call, or
\* had none.
LEMMA UnlocksAll ==
  ASSUME NEW t \in Threads, Good(t), Typed, lock_file_entries' = lock_file_entries,
         \/ inode_lock' = [inode_lock EXCEPT ![loc[t].inum] = Nobody]
         \/ ~Unlocking(t) /\ inode_lock' = inode_lock
  PROVE  /\ LocksHeld(t)'
         /\ \A i \in Inumbers : inode_lock'[i] \in {inode_lock[i], Nobody} /\ inode_lock'[i] # t
         /\ inode_lock' \in [Inumbers -> Threads \cup {Nobody}]
  <1>1. inode_lock \in [Inumbers -> Threads \cup {Nobody}] /\ Nobody # t
    BY ThreadsAssumption DEF Typed, ThreadsTypeOK
  <1>2. \A i \in Inumbers : inode_lock[i] = t => loc[t].inum = i /\ Unlocking(t)
    BY DEF Good, LocksHeld, Unlocking
  <1>3. \A i \in Inumbers : inode_lock'[i] \in {inode_lock[i], Nobody} /\ inode_lock'[i] # t
    BY <1>1, <1>2
  <1> QED
    BY <1>1, <1>3 DEF LocksHeld, Good

LEMMA TypedParts ==
  ASSUME Typed
  PROVE  /\ freeinode_ts \in [Inumbers -> {"FREE", "TAKEN"}]
         /\ inode_table \in [Inumbers -> Inode]
         /\ inode_lock \in [Inumbers -> Threads \cup {Nobody}]
         /\ free_blocks \in [Blocks -> {"FREE", "TAKEN"}]
         /\ fs_data \in [Blocks -> Threads \cup Names \cup {Garbage}]
         /\ free_open_file_entries \in [Handles -> {"FREE", "TAKEN"}]
         /\ open_file_table \in [Handles -> [of_inumber : Inumbers, of_offset : 0 .. 2]]
         /\ handles \in [Threads -> SUBSET Handles]
         /\ {"idle", "delete"} \subseteq Labels
         /\ \A u \in Threads : loc[u] \in Call
  BY DEF Typed, ThreadsTypeOK, Labels

LEMMA InodeChange ==
  ASSUME Typed, NEW i \in Inumbers, NEW new \in Inode,
         inode_table' = [inode_table EXCEPT ![i] = new]
  PROVE  /\ inode_table' \in [Inumbers -> Inode]
         /\ inode_table'[i] = new
         /\ \A j \in Inumbers \ {i} : inode_table'[j] = inode_table[j]
  BY TypedParts

LEMMA InodeFields ==
  ASSUME Typed, NEW i \in Inumbers
  PROVE  /\ inode_table[i].cnt_hardlinks \in Nat /\ inode_table[i].i_size \in {0, 1}
         /\ inode_table[i].i_data_block \in Blocks \cup {-1}
         /\ inode_table[i].is_softlink \in BOOLEAN
  <1>1. inode_table[i] \in Inode
    BY TypedParts
  <1> QED
    BY <1>1 DEF Inode

\* A change of one field of an inode.
LEMMA CountChange ==
  ASSUME NEW inode \in Inode, NEW n \in Nat
  PROVE  LET new == [inode EXCEPT !.cnt_hardlinks = n]
         IN  /\ new \in Inode /\ new.cnt_hardlinks = n
             /\ new.i_size = inode.i_size /\ new.i_data_block = inode.i_data_block
             /\ new.is_softlink = inode.is_softlink
  BY DEF Inode

LEMMA SizeChange ==
  ASSUME NEW inode \in Inode, NEW n \in {0, 1}
  PROVE  LET new == [inode EXCEPT !.i_size = n]
         IN  /\ new \in Inode /\ new.i_size = n
             /\ new.cnt_hardlinks = inode.cnt_hardlinks /\ new.i_data_block = inode.i_data_block
             /\ new.is_softlink = inode.is_softlink
  BY DEF Inode

LEMMA BlockChange ==
  ASSUME NEW inode \in Inode, NEW b \in Blocks
  PROVE  LET new == [inode EXCEPT !.i_data_block = b]
         IN  /\ new \in Inode /\ new.i_data_block = b
             /\ new.cnt_hardlinks = inode.cnt_hardlinks /\ new.i_size = inode.i_size
             /\ new.is_softlink = inode.is_softlink
  BY DEF Inode

\* The tables keep their types.
LEMMA GoTyped ==
  ASSUME Typed, NEW t \in Threads, NEW where \in Labels, NEW v \in Call, Go(t, where, v),
         freeinode_ts' \in [Inumbers -> {"FREE", "TAKEN"}],
         inode_table' \in [Inumbers -> Inode],
         inode_lock' \in [Inumbers -> Threads \cup {Nobody}],
         free_blocks' \in [Blocks -> {"FREE", "TAKEN"}],
         fs_data' \in [Blocks -> Threads \cup Names \cup {Garbage}],
         free_open_file_entries' \in [Handles -> {"FREE", "TAKEN"}],
         open_file_table' \in [Handles -> [of_inumber : Inumbers, of_offset : 0 .. 2]],
         handles' \in [Threads -> SUBSET Handles],
         UNCHANGED <<dir_entry, lock_file_entries, died, calls, seen>>
  PROVE  Typed'
  <1>1. pc' \in [Threads -> Labels] /\ loc' \in [Threads -> Call]
    BY GoWhere
  <1>2. \A u \in Threads : loc'[u].slot \in 0 .. MAX_DIR_ENTRIES /\ handles'[u] \subseteq Handles
    BY <1>1, CallFields DEF Slots
  <1> QED
    BY <1>1, <1>2 DEF Typed, ThreadsTypeOK

-----------------------------------------------------------------------------
(* The calls of threads that keep apart.                                   *)

\* A call begins: what is left to show.
LEMMA BeginsFine ==
  ASSUME Typed, NEW t \in Threads, Good(t), MayCall(t),
         NEW where \in {"find", "get"}, NEW v \in Call, Go(t, where, v),
         calls' = [calls EXCEPT ![t] = @ + 1],
         UNCHANGED <<tables, locks, died, handles, seen>>,
         NothingOpen(t)', AtLabel(t)'
  PROVE  Fine(t) /\ Saves(t)
  <1>1. pc[t] = "idle" /\ Plain(t) /\ ~Unlocking(t)
    BY DEF MayCall, At, Plain, Unlocking
  <1>2. UNCHANGED <<inode_lock, lock_file_entries, handles, seen, died>>
    BY DEF locks
  <1>3. /\ pc' \in [Threads -> Labels] /\ loc' \in [Threads -> Call]
        /\ pc'[t] = where /\ loc'[t] = v
        /\ \A u \in Threads \ {t} : pc'[u] = pc[u] /\ loc'[u] = loc[u]
    BY GoWhere DEF Labels
  <1>4. LocksHeld(t)' /\ Plain(t)'
    BY <1>1, <1>2, <1>3, NoLockHere DEF LocksHeld, Good, Plain
  <1>5. /\ calls' \in [Threads -> Nat] /\ inode_lock' \in [Inumbers -> Threads \cup {Nobody}]
        /\ \A i \in Inumbers : inode_lock'[i] \in {inode_lock[i], t, Nobody}
    BY <1>2 DEF Typed, ThreadsTypeOK
  <1> QED
    BY <1>1, <1>2, <1>3, <1>4, <1>5, LooksFine

LEMMA MineNames ==
  ASSUME NEW t \in Threads
  PROVE  /\ File[t] \in Mine(t) /\ Link[t] \in Mine(t)
         /\ \A n \in Mine(t) : n \in Names /\ n \in SomeName
  BY MineReal, SomeKinds DEF Mine

LEMMA NoneBehind == \A e \in DirSlots : ~(e < 0)
  BY SomeKinds

LEMMA OpensFine ==
  ASSUME Typed, NEW t \in Threads, Good(t), ApartOpens(t)
  PROVE  Fine(t) /\ Saves(t)
  <1>1. PICK name \in Mine(t), mode \in OpenModes :
          ("TRUNC" \in mode => handles[t] = {}) /\ CallOpen(t, name, mode)
    BY DEF ApartOpens, Mine
  <1> DEFINE v == [NoCall EXCEPT !.op = "open", !.name = name, !.mode = mode, !.then = "o_first"]
  <1>2. Go(t, "find", v) /\ MayCall(t) /\ calls' = [calls EXCEPT ![t] = @ + 1]
        /\ UNCHANGED <<tables, locks, died, handles, seen>>
    BY <1>1 DEF CallOpen
  <1>3. /\ v \in Call /\ v.op = "open" /\ v.name = name /\ v.mode = mode /\ v.then = "o_first"
        /\ v.slot = 0 /\ v.offset = 0
    <2>1. name \in SomeName /\ mode \in SomeMode /\ "open" \in Ops /\ "o_first" \in Nexts
      BY MineNames, ThreadsAssumption DEF SomeMode, Ops, Nexts
    <2>2. NoCall \in Call /\ NoCall.slot = 0 /\ NoCall.offset = 0
      BY NoCallTyped
    <2> QED
      BY <2>1, <2>2 DEF Call
  <1> HIDE DEF v
  <1>4. pc'[t] = "find" /\ loc'[t] = v
    BY <1>2, <1>3, GoWhere DEF Labels
  <1>5. NothingOpen(t)'
    BY <1>1, <1>2, <1>3, <1>4 DEF NothingOpen
  <1>6. AtLabel(t)'
    BY <1>3, <1>4, NoneBehind
       DEF AtLabel, Idling, Searching, Opening, Creating, Linking, Unlinking, OnHandle, Fills, Mine
  <1> QED
    BY <1>2, <1>3, <1>5, <1>6, BeginsFine

\* A link gets the other name of the thread, which is free.
LEMMA LinkCallFine ==
  ASSUME Typed, EntriesOwned, NEW t \in Threads, Good(t),
         NEW name \in Mine(t), NEW link \in Mine(t), name # link, Absent(link),
         CallLink(t, name, link) \/ CallSymLink(t, name, link)
  PROVE  Fine(t) /\ Saves(t)
  <1>1. PICK op \in {"link", "sym_link"}, then \in {"l_lock", "s_first"} :
          /\ then = (IF op = "link" THEN "l_lock" ELSE "s_first")
          /\ Go(t, "find", [NoCall EXCEPT !.op = op, !.name = name, !.link = link, !.then = then])
    BY DEF CallLink, CallSymLink
  <1> DEFINE v == [NoCall EXCEPT !.op = op, !.name = name, !.link = link, !.then = then]
  <1>2. /\ Go(t, "find", v) /\ MayCall(t) /\ calls' = [calls EXCEPT ![t] = @ + 1]
        /\ UNCHANGED <<tables, locks, died, handles, seen>>
    BY <1>1 DEF CallLink, CallSymLink
  <1>3. /\ v \in Call /\ v.op = op /\ v.name = name /\ v.link = link /\ v.then = then
        /\ v.slot = 0
    <2>1. name \in SomeName /\ link \in SomeName /\ op \in Ops /\ then \in Nexts
      BY MineNames DEF Ops, Nexts
    <2>2. NoCall \in Call /\ NoCall.slot = 0
      BY NoCallTyped
    <2> QED
      BY <2>1, <2>2 DEF Call
  <1> HIDE DEF v
  <1>4. pc'[t] = "find" /\ loc'[t] = v
    BY <1>2, <1>3, GoWhere DEF Labels
  <1>5. NothingOpen(t)'
    BY <1>1, <1>3, <1>4 DEF NothingOpen
  <1>6. NoEntry(link)'
    <2>1. NoEntry(link)
      BY AbsentNoEntry, MineNames
    <2> QED
      BY <1>2, <2>1, SameTables, SameNames
  <1>7. LinkFree(t)'
    BY <1>3, <1>4, <1>6 DEF LinkFree, Mine
  <1>8. AtLabel(t)'
    BY <1>1, <1>3, <1>4, <1>7, NoneBehind
       DEF AtLabel, Idling, Searching, Opening, Creating, Linking, Unlinking, OnHandle, Fills, Mine
  <1> QED
    BY <1>2, <1>3, <1>5, <1>8, BeginsFine

LEMMA UnlinksFine ==
  ASSUME Typed, NEW t \in Threads, Good(t), ApartUnlinks(t)
  PROVE  Fine(t) /\ Saves(t)
  <1>1. handles[t] = {} /\ \E name \in Mine(t) : CallUnlink(t, name)
    BY DEF ApartUnlinks, Mine
  <1>2. PICK name \in Mine(t) : CallUnlink(t, name)
    BY <1>1
  <1> DEFINE v == [NoCall EXCEPT !.op = "unlink", !.name = name, !.then = "u_lock"]
  <1>3. Go(t, "find", v) /\ MayCall(t) /\ calls' = [calls EXCEPT ![t] = @ + 1]
        /\ UNCHANGED <<tables, locks, died, handles, seen>>
    BY <1>2 DEF CallUnlink
  <1>4. /\ v \in Call /\ v.op = "unlink" /\ v.name = name /\ v.then = "u_lock" /\ v.slot = 0
    <2>1. name \in SomeName /\ "unlink" \in Ops /\ "u_lock" \in Nexts
      BY MineNames DEF Ops, Nexts
    <2>2. NoCall \in Call /\ NoCall.slot = 0
      BY NoCallTyped
    <2> QED
      BY <2>1, <2>2 DEF Call
  <1> HIDE DEF v
  <1>5. pc'[t] = "find" /\ loc'[t] = v
    BY <1>3, <1>4, GoWhere DEF Labels
  <1>6. NothingOpen(t)'
    BY <1>1, <1>3 DEF NothingOpen
  <1>7. AtLabel(t)'
    BY <1>4, <1>5, NoneBehind
       DEF AtLabel, Idling, Searching, Opening, Creating, Linking, Unlinking, OnHandle, Fills, Mine
  <1> QED
    BY <1>3, <1>4, <1>6, <1>7, BeginsFine

LEMMA UsesHandleFine ==
  ASSUME Typed, NEW t \in Threads, Good(t), UsesHandle(t)
  PROVE  Fine(t) /\ Saves(t)
  <1>1. PICK h \in handles[t], op \in {"close", "write", "read"} : CallOnHandle(t, op, h)
    BY DEF UsesHandle
  <1> DEFINE v == [NoCall EXCEPT !.op = op, !.fhandle = h]
  <1>2. Go(t, "get", v) /\ MayCall(t) /\ calls' = [calls EXCEPT ![t] = @ + 1]
        /\ UNCHANGED <<tables, locks, died, handles, seen>>
    BY <1>1 DEF CallOnHandle
  <1>3. v \in Call /\ v.op = op /\ v.fhandle = h /\ v.slot = 0
    <2>1. h \in SomeHandle /\ op \in Ops
      BY DEF Typed, SomeHandle, Ops
    <2>2. NoCall \in Call /\ NoCall.slot = 0
      BY NoCallTyped
    <2> QED
      BY <2>1, <2>2 DEF Call
  <1> HIDE DEF v
  <1>4. pc'[t] = "get" /\ loc'[t] = v
    BY <1>2, <1>3, GoWhere DEF Labels
  <1>5. NothingOpen(t)'
    BY <1>3, <1>4 DEF NothingOpen
  <1>6. AtLabel(t)'
    BY <1>2, <1>3, <1>4
       DEF AtLabel, Idling, Searching, Opening, Creating, Linking, Unlinking, OnHandle, Fills
  <1> QED
    BY <1>2, <1>3, <1>5, <1>6, BeginsFine

LEMMA ApartCallFine ==
  ASSUME NamesApart, Typed, EntriesOwned, NEW t \in Threads, Good(t), ApartCall(t)
  PROVE  Fine(t) /\ Saves(t)
  <1>1. File[t] # Link[t] /\ File[t] \in Mine(t) /\ Link[t] \in Mine(t)
    BY MineNames DEF NamesApart
  <1>2. CASE ApartOpens(t)
    BY <1>2, OpensFine
  <1>3. CASE ApartLinks(t)
    BY <1>1, <1>3, LinkCallFine DEF ApartLinks
  <1>4. CASE ApartUnlinks(t)
    BY <1>4, UnlinksFine
  <1>5. CASE UsesHandle(t)
    BY <1>5, UsesHandleFine
  <1> QED
    BY <1>2, <1>3, <1>4, <1>5 DEF ApartCall

-----------------------------------------------------------------------------
(* The steps that change a handle.                                         *)

LEMMA OpenAddsFine ==
  ASSUME Typed, EntriesOwned, NEW t \in Threads, Good(t), OpenAdds(t)
  PROVE  Fine(t) /\ Saves(t)
  <1> DEFINE c == loc[t]
  <1>1. /\ pc[t] = "o_add" /\ Plain(t) /\ ~Unlocking(t)
        /\ UNCHANGED <<freeinode_ts, inode_table, dir_entry, free_blocks, fs_data, inode_lock,
                       lock_file_entries, died, calls, seen>>
        /\ Go(t, "idle", NoCall)
    BY DEF OpenAdds, At, Plain, Unlocking, inodeVars, blockVars, locks
  <1>2. /\ pc' \in [Threads -> Labels] /\ loc' \in [Threads -> Call]
        /\ pc'[t] = "idle" /\ loc'[t] = NoCall
        /\ \A u \in Threads \ {t} : pc'[u] = pc[u] /\ loc'[u] = loc[u]
    BY <1>1, GoWhere, NoCallTyped DEF Labels
  <1>3. CASE NoneFree(free_open_file_entries) /\ UNCHANGED <<fileVars, handles>>
    <2>1. Return(t) /\ UNCHANGED <<tables, lock_file_entries, died>>
      BY <1>1, <1>3 DEF Return, callerVars, tables, inodeVars, blockVars
    <2> QED
      BY <1>1, <2>1, UnlocksAll, ReturnFine
  <1>4. ASSUME NEW h \in Handles, IsFirstFree(free_open_file_entries, h),
               free_open_file_entries' = Take(free_open_file_entries, h),
               open_file_table' = [open_file_table EXCEPT ![h] =
                 [of_inumber |-> c.inum, of_offset |-> c.offset]],
               handles' = [handles EXCEPT ![t] = @ \cup {h}]
        PROVE  Fine(t) /\ Saves(t)
    <2>1. /\ c.inum \in Inumbers /\ Named(t, c.inum) /\ ~IsSoft(c.inum)
          /\ c.offset <= inode_table[c.inum].i_size /\ c.offset \in {0, 1}
      BY <1>1, CallFields DEF Good, AtLabel, Opening, Typed, Offsets
    <2>2. /\ AtLabel(t)' /\ NothingOpen(t)' /\ Plain(t)'
          /\ LocksHeld(t)' /\ \A i \in Inumbers : inode_lock'[i] \in {inode_lock[i], t, Nobody}
      BY <1>1, <1>2, IdleAtLabel, UnlocksAll
    <2>3. /\ \A i : Named(t, i)' <=> Named(t, i)
          /\ \A i : Owns(t, i)' <=> Owns(t, i)
          /\ \A i \in Inumbers : Sized(t, i)' <=> Sized(t, i)
          /\ \A b : Uses(t, b)' <=> Uses(t, b)
          /\ \A i : IsSoft(i)' <=> IsSoft(i)
      BY <1>1, <2>2, PlainStays
    <2>4. /\ free_open_file_entries[h] = "FREE" /\ free_open_file_entries'[h] = "TAKEN"
          /\ open_file_table'[h] = [of_inumber |-> c.inum, of_offset |-> c.offset]
          /\ \A g \in Handles \ {h} : /\ open_file_table'[g] = open_file_table[g]
                                      /\ free_open_file_entries'[g] = free_open_file_entries[g]
          /\ handles'[t] = handles[t] \cup {h} /\ \A u \in Threads \ {t} : handles'[u] = handles[u]
      BY <1>4 DEF IsFirstFree, Take, Typed, ThreadsTypeOK
    <2>5. Confined(t)
      BY <1>1, <1>2, <2>2, <2>4 DEF Confined
    <2>6. Gains(t) /\ Saves(t)
      BY <1>1, <2>3, <2>4 DEF Gains, Saves, Live
    <2>7. NamesOnce(t)' /\ CountedFor(t)' /\ LinksSized(t)' /\ \A n \in Mine(t) : NotSoft(n)' <=> NotSoft(n)
      BY <1>1, <1>2, <2>3, KeepsNames
    <2>8. OwnsLive(t)'
      BY <1>1, <2>3 DEF Good, OwnsLive, Live
    <2>9. ~Fills(t)'
      BY <2>2 DEF Plain, Fills
    <2>10. OwnContents(t)'
      BY <1>1, <2>3, <2>7, <2>9, KeepsContents
    <2>11. HandlesHeld(t)'
      <3>1. HandleGood(t, h)'
        BY <1>1, <2>1, <2>3, <2>4 DEF HandleGood
      <3>2. ASSUME NEW g \in handles[t], g # h PROVE HandleGood(t, g)'
        <4>1. g \in Handles /\ HandleGood(t, g)
          BY DEF Good, HandlesHeld, Typed
        <4> QED
          BY <1>1, <2>3, <2>4, <3>2, <4>1 DEF HandleGood
      <3> QED
        BY <2>4, <3>1, <3>2 DEF HandlesHeld
    <2>12. Typed'
      <3>1. /\ free_open_file_entries' \in [Handles -> {"FREE", "TAKEN"}]
            /\ open_file_table' \in [Handles -> [of_inumber : Inumbers, of_offset : 0 .. 2]]
            /\ handles' \in [Threads -> SUBSET Handles]
        BY <1>4, <2>1 DEF Typed, ThreadsTypeOK, Take
      <3> QED
        BY <1>1, <3>1, NoCallTyped, TypedParts, GoTyped
    <2> QED
      BY <1>1, <2>2, <2>5, <2>6, <2>7, <2>8, <2>10, <2>11, <2>12 DEF Fine, Good
  <1> QED
    BY <1>3, <1>4 DEF OpenAdds

LEMMA CloseFreesFine ==
  ASSUME Typed, EntriesOwned, NEW t \in Threads, Good(t), CloseFrees(t)
  PROVE  Fine(t) /\ Saves(t)
  <1> DEFINE h == loc[t].fhandle
  <1>1. /\ pc[t] = "c_free" /\ Plain(t) /\ ~Unlocking(t)
        /\ UNCHANGED <<freeinode_ts, inode_table, dir_entry, free_blocks, fs_data, open_file_table,
                       inode_lock, lock_file_entries, died, calls, seen>>
        /\ Go(t, "idle", NoCall)
        /\ free_open_file_entries' = Free(free_open_file_entries, h)
        /\ handles' = [handles EXCEPT ![t] = @ \ {h}]
    BY DEF CloseFrees, At, Plain, Unlocking, inodeVars, blockVars, locks
  <1>2. /\ pc' \in [Threads -> Labels] /\ loc' \in [Threads -> Call]
        /\ pc'[t] = "idle" /\ loc'[t] = NoCall
        /\ \A u \in Threads \ {t} : pc'[u] = pc[u] /\ loc'[u] = loc[u]
    BY <1>1, GoWhere, NoCallTyped DEF Labels
  <1>3. h \in handles[t] /\ h \in Handles
    BY <1>1 DEF Good, AtLabel, OnHandle, Typed
  <1>4. /\ \A g \in Handles \ {h} : free_open_file_entries'[g] = free_open_file_entries[g]
        /\ handles'[t] = handles[t] \ {h} /\ \A u \in Threads \ {t} : handles'[u] = handles[u]
        /\ \A g \in handles[t] : g \in Handles
    BY <1>1 DEF Free, Typed, ThreadsTypeOK
  <1>5. /\ AtLabel(t)' /\ NothingOpen(t)' /\ Plain(t)'
        /\ LocksHeld(t)' /\ \A i \in Inumbers : inode_lock'[i] \in {inode_lock[i], t, Nobody}
    BY <1>1, <1>2, IdleAtLabel, UnlocksAll
  <1>6. /\ \A i : Owns(t, i)' <=> Owns(t, i)
        /\ \A i \in Inumbers : Sized(t, i)' <=> Sized(t, i)
        /\ \A b : Uses(t, b)' <=> Uses(t, b)
        /\ \A i : IsSoft(i)' <=> IsSoft(i)
    BY <1>1, <1>5, PlainStays
  <1>7. Confined(t)
    BY <1>1, <1>2, <1>3, <1>4, <1>5 DEF Confined
  <1>8. Gains(t) /\ Saves(t)
    BY <1>1, <1>4, <1>6 DEF Gains, Saves, Live
  <1>9. NamesOnce(t)' /\ CountedFor(t)' /\ LinksSized(t)' /\ \A n \in Mine(t) : NotSoft(n)' <=> NotSoft(n)
    BY <1>1, <1>2, <1>6, KeepsNames
  <1>10. OwnsLive(t)'
    BY <1>1, <1>6 DEF Good, OwnsLive, Live
  <1>11. ~Fills(t)'
    BY <1>5 DEF Plain, Fills
  <1>12. OwnContents(t)'
    BY <1>1, <1>6, <1>9, <1>11, KeepsContents
  <1>13. HandlesHeld(t)'
    BY <1>1, <1>4, <1>6, KeepsHandles
  <1>14. Typed'
    <2>1. /\ free_open_file_entries' \in [Handles -> {"FREE", "TAKEN"}]
          /\ handles' \in [Threads -> SUBSET Handles]
      BY <1>1 DEF Typed, ThreadsTypeOK, Free
    <2> QED
      BY <1>1, <2>1, NoCallTyped, TypedParts, GoTyped
  <1> QED
    BY <1>1, <1>5, <1>7, <1>8, <1>9, <1>10, <1>12, <1>13, <1>14 DEF Fine, Good

\* A thread reads what it wrote, or nothing.
LEMMA ReadUnderLockFine ==
  ASSUME Typed, EntriesOwned, NEW t \in Threads, Good(t), ReadUnderLock(t)
  PROVE  /\ Fine(t) /\ Saves(t)
         /\ \E data \in {t, "nothing"} : seen' = [seen EXCEPT ![t] = data]
  <1> DEFINE h == loc[t].fhandle
             i == open_file_table[h].of_inumber
             o == open_file_table[h].of_offset
             b == inode_table[i].i_data_block
  <1>1. /\ pc[t] = "read" /\ Plain(t) /\ ~Unlocking(t)
        /\ UNCHANGED <<freeinode_ts, inode_table, dir_entry, free_blocks, fs_data,
                       free_open_file_entries, inode_lock, lock_file_entries>>
    BY DEF ReadUnderLock, At, Plain, Unlocking, inodeVars, blockVars, locks
  <1>2. h \in handles[t] /\ h \in Handles
    BY <1>1 DEF Good, AtLabel, OnHandle, Typed
  <1>3. Named(t, i) /\ ~IsSoft(i) /\ o <= inode_table[i].i_size /\ i \in Inumbers
        /\ free_open_file_entries[h] = "TAKEN"
    BY <1>2 DEF Good, HandlesHeld, HandleGood, Typed, ThreadsTypeOK
  <1>4. o \in 0 .. 2 /\ inode_table[i].i_size \in {0, 1}
    BY <1>2, <1>3 DEF Typed, ThreadsTypeOK, Inode
  <1>5. inode_table[i].i_size # o => /\ o = 0 /\ inode_table[i].i_size = 1
                                     /\ b \in Blocks \ {0} /\ fs_data[b] = t
    <2>1. ASSUME inode_table[i].i_size # o PROVE o = 0 /\ inode_table[i].i_size = 1
      BY <1>3, <1>4, <2>1
    <2>2. ASSUME inode_table[i].i_size # o PROVE Sized(t, i)
      BY <1>1, <1>3, <2>1, <2>2, PlainOwns
    <2>3. ASSUME inode_table[i].i_size # o PROVE b \in Blocks \ {0} /\ fs_data[b] = t
      BY <1>3, <2>2, <2>3 DEF Good, OwnContents, ClaimsBlock
    <2> QED
      BY <2>1, <2>3
  <1>6. PICK data \in {t, "nothing"}, k \in {0, 1} :
          /\ seen' = [seen EXCEPT ![t] = data]
          /\ open_file_table' = (IF k = 0 THEN open_file_table
                                 ELSE [open_file_table EXCEPT ![h].of_offset = 1])
          /\ k = 1 => inode_table[i].i_size = 1
          /\ Go(t, "idle", NoCall)
          /\ UNCHANGED <<died, calls, handles>>
    <2>1. CASE inode_table[i].i_size = o
      <3>1. /\ seen' = [seen EXCEPT ![t] = "nothing"] /\ open_file_table' = open_file_table
            /\ Go(t, "idle", NoCall) /\ UNCHANGED <<died, calls, handles>>
        BY <2>1 DEF ReadUnderLock
      <3> QED
        BY <3>1
    <2>2. CASE inode_table[i].i_size # o
      <3>1. o = 0 /\ inode_table[i].i_size = 1 /\ b \in Blocks /\ fs_data[b] = t /\ b # -1 /\ b + o = b
        BY <1>5, <2>2 DEF Blocks
      <3>2. /\ seen' = [seen EXCEPT ![t] = t]
            /\ open_file_table' = [open_file_table EXCEPT ![h].of_offset = @ + 1]
            /\ Go(t, "idle", NoCall) /\ UNCHANGED <<died, calls, handles>>
        BY <2>2, <3>1 DEF ReadUnderLock
      <3>3. open_file_table' = [open_file_table EXCEPT ![h].of_offset = 1]
        BY <3>1, <3>2
      <3> QED
        BY <3>1, <3>2, <3>3
    <2> QED
      BY <2>1, <2>2
  <1>7. /\ pc' \in [Threads -> Labels] /\ loc' \in [Threads -> Call]
        /\ pc'[t] = "idle" /\ loc'[t] = NoCall
        /\ \A u \in Threads \ {t} : pc'[u] = pc[u] /\ loc'[u] = loc[u]
    BY <1>6, GoWhere, NoCallTyped DEF Labels
  <1>8. /\ AtLabel(t)' /\ NothingOpen(t)' /\ Plain(t)'
        /\ LocksHeld(t)' /\ \A j \in Inumbers : inode_lock'[j] \in {inode_lock[j], t, Nobody}
    BY <1>1, <1>7, IdleAtLabel, UnlocksAll
  <1>9. /\ \A j : Named(t, j)' <=> Named(t, j)
        /\ \A j : Owns(t, j)' <=> Owns(t, j)
        /\ \A j \in Inumbers : Sized(t, j)' <=> Sized(t, j)
        /\ \A a : Uses(t, a)' <=> Uses(t, a)
        /\ \A j : IsSoft(j)' <=> IsSoft(j)
    BY <1>1, <1>8, PlainStays
  <1>10. /\ \A g \in Handles \ {h} : open_file_table'[g] = open_file_table[g]
         /\ open_file_table'[h].of_inumber = i
         /\ open_file_table'[h].of_offset <= inode_table[i].i_size
         /\ open_file_table' \in [Handles -> [of_inumber : Inumbers, of_offset : 0 .. 2]]
    <2>1. /\ open_file_table \in [Handles -> [of_inumber : Inumbers, of_offset : 0 .. 2]]
          /\ open_file_table[h].of_inumber = i /\ open_file_table[h].of_offset <= inode_table[i].i_size
      BY <1>1, <1>3 DEF Typed, ThreadsTypeOK
    <2>2. CASE k = 0
      BY <1>2, <1>6, <2>1, <2>2
    <2>3. CASE k = 1
      BY <1>2, <1>6, <2>1, <2>3
    <2> QED
      BY <2>2, <2>3
  <1>11. Confined(t)
    BY <1>1, <1>2, <1>6, <1>7, <1>8, <1>10 DEF Confined
  <1>12. Gains(t) /\ Saves(t)
    BY <1>1, <1>6, <1>9 DEF Gains, Saves, Live
  <1>13. NamesOnce(t)' /\ CountedFor(t)' /\ LinksSized(t)' /\ \A n \in Mine(t) : NotSoft(n)' <=> NotSoft(n)
    BY <1>1, <1>7, <1>9, KeepsNames
  <1>14. OwnsLive(t)'
    BY <1>1, <1>9 DEF Good, OwnsLive, Live
  <1>15. OwnContents(t)'
    <2>1. ~Fills(t)'
      BY <1>8 DEF Plain, Fills
    <2> QED
      BY <1>1, <1>9, <1>13, <2>1, KeepsContents
  <1>16. HandlesHeld(t)'
    <2> SUFFICES ASSUME NEW g \in handles[t] PROVE HandleGood(t, g)'
      BY <1>6 DEF HandlesHeld
    <2>1. CASE g = h
      BY <1>1, <1>3, <1>9, <1>10, <2>1 DEF HandleGood
    <2>2. CASE g # h
      <3>1. g \in Handles /\ HandleGood(t, g)
        BY DEF Good, HandlesHeld, Typed
      <3> QED
        BY <1>1, <1>9, <1>10, <2>2, <3>1 DEF HandleGood
    <2> QED
      BY <2>1, <2>2
  <1>17. Typed'
    <2>1. seen' \in [Threads -> Threads \cup Names \cup {Garbage, "nothing"}]
      BY <1>6 DEF Typed, ThreadsTypeOK
    <2>2. \A u \in Threads : loc'[u].slot \in 0 .. MAX_DIR_ENTRIES
      BY <1>7, CallFields DEF Slots
    <2> QED
      BY <1>1, <1>6, <1>7, <1>10, <2>1, <2>2 DEF Typed, ThreadsTypeOK
  <1> QED
    BY <1>6, <1>8, <1>11, <1>12, <1>13, <1>14, <1>15, <1>16, <1>17 DEF Fine, Good

-----------------------------------------------------------------------------
(* The steps that change a counter or clear an entry.                      *)

LEMMA EntriesCount ==
  ASSUME NEW t, NEW i
  PROVE  /\ IsFiniteSet(EntriesOf(t, i))
         /\ Cardinality(EntriesOf(t, i)) \in Nat
         /\ Cardinality(EntriesOf(t, i)) = 0 <=> ~Named(t, i)
  <1>1. IsFiniteSet(DirSlots)
    BY ThreadsAssumption, FS_Interval DEF DirSlots
  <1>2. IsFiniteSet(EntriesOf(t, i))
    BY <1>1, FS_Subset DEF EntriesOf
  <1>3. EntriesOf(t, i) = {} <=> ~Named(t, i)
    BY DEF EntriesOf, Named
  <1> QED
    BY <1>2, <1>3, FS_CardinalityType, FS_EmptySet

\* What a thread owns once its call has returned.
LEMMA IdleOwns ==
  ASSUME NEW t \in Threads, pc'[t] = "idle"
  PROVE  /\ ~Fills(t)'
         /\ \A i : Owns(t, i)' <=> Named(t, i)'
         /\ \A i : Sized(t, i)' <=> Named(t, i)' /\ inode_table'[i].i_size > 0
  BY DEF Unnamed, Fills, Owns, Holds, Sized

LEMMA LinkCountsFine ==
  ASSUME Typed, EntriesOwned, NEW t \in Threads, Good(t), LinkCounts(t)
  PROVE  Fine(t) /\ Saves(t)
  <1>1. PICK i : i = loc[t].inum
    OBVIOUS
  <1>2. /\ pc[t] = "l_done" /\ Go(t, "idle", NoCall)
        /\ UNCHANGED <<freeinode_ts, dir_entry, free_blocks, fs_data, free_open_file_entries,
                       open_file_table, lock_file_entries, died, calls, handles, seen>>
        /\ inode_table' = [inode_table EXCEPT ![i].cnt_hardlinks = @ + 1]
        /\ inode_lock' = [inode_lock EXCEPT ![loc[t].inum] = Nobody]
    BY <1>1 DEF LinkCounts, At, Return, Unlock, callerVars, blockVars, fileVars
  <1>3. i \in Inumbers /\ Named(t, i) /\ ~IsSoft(i)
    BY <1>1, <1>2 DEF Good, AtLabel, Linking
  <1>4. /\ pc' \in [Threads -> Labels] /\ loc' \in [Threads -> Call]
        /\ pc'[t] = "idle" /\ loc'[t] = NoCall
        /\ \A u \in Threads \ {t} : pc'[u] = pc[u] /\ loc'[u] = loc[u]
    BY <1>2, GoWhere, NoCallTyped DEF Labels
  <1>5. /\ inode_table' \in [Inumbers -> Inode]
        /\ inode_table'[i].cnt_hardlinks = inode_table[i].cnt_hardlinks + 1
        /\ \A j \in Inumbers \ {i} : inode_table'[j] = inode_table[j]
        /\ \A j \in Inumbers : /\ inode_table'[j].i_size = inode_table[j].i_size
                               /\ inode_table'[j].i_data_block = inode_table[j].i_data_block
                               /\ IsSoft(j)' <=> IsSoft(j)
    <2> DEFINE n   == inode_table[i].cnt_hardlinks + 1
               new == [inode_table[i] EXCEPT !.cnt_hardlinks = n]
    <2>1. inode_table' = [inode_table EXCEPT ![i] = new]
      BY <1>2
    <2>2. n \in Nat /\ n = inode_table[i].cnt_hardlinks + 1
      BY <1>3, InodeFields
    <2>3. inode_table[i] \in Inode
      BY <1>3, TypedParts
    <2> HIDE DEF n
    <2>4. /\ new \in Inode /\ new.cnt_hardlinks = n
          /\ new.i_size = inode_table[i].i_size /\ new.i_data_block = inode_table[i].i_data_block
          /\ new.is_softlink = inode_table[i].is_softlink
      BY <2>2, <2>3, CountChange
    <2> HIDE DEF new
    <2> QED
      BY <1>3, <2>1, <2>2, <2>4, InodeChange DEF IsSoft
  <1>6. /\ \A j : Named(t, j)' <=> Named(t, j)
        /\ \A j : EntriesOf(t, j)' = EntriesOf(t, j)
    BY <1>2, SameNames
  <1>7. /\ ~Fills(t) /\ \A j : Owns(t, j) <=> Named(t, j)
        /\ \A j : Sized(t, j) <=> Named(t, j) /\ inode_table[j].i_size > 0
    BY <1>2 DEF Unnamed, Fills, Owns, Holds, Sized
  <1>8. /\ ~Fills(t)' /\ \A j : Owns(t, j)' <=> Owns(t, j)
        /\ \A j \in Inumbers : Sized(t, j)' <=> Sized(t, j)
    BY <1>4, <1>5, <1>6, <1>7, IdleOwns
  <1>9. \A b : Uses(t, b)' <=> Uses(t, b)
    BY <1>5, <1>7, <1>8 DEF Uses
  <1>10. /\ AtLabel(t)' /\ NothingOpen(t)' /\ LocksHeld(t)'
         /\ inode_lock' \in [Inumbers -> Threads \cup {Nobody}]
         /\ \A j \in Inumbers : inode_lock'[j] \in {inode_lock[j], t, Nobody}
    BY <1>2, <1>4, IdleAtLabel, UnlocksAll
  <1>11. Confined(t)
    BY <1>2, <1>3, <1>4, <1>5, <1>7, <1>10 DEF Confined
  <1>12. Gains(t) /\ Saves(t)
    BY <1>2, <1>8, <1>9 DEF Gains, Saves, Live
  <1>13. NamesOnce(t)'
    BY <1>2, SameNames DEF Good, NamesOnce, Mine
  <1>14. OwnsLive(t)'
    BY <1>2, <1>8 DEF Good, OwnsLive, Live
  <1>15. CountedFor(t)'
    <2>1. SUFFICES ASSUME NEW j \in Inumbers, Named(t, j)
                   PROVE  inode_table'[j].cnt_hardlinks = Cardinality(EntriesOf(t, j))
      BY <1>4, <1>6, EntriesCount DEF CountedFor
    <2>2. inode_table[j].cnt_hardlinks =
            Cardinality(EntriesOf(t, j)) + 0 - (IF j = i THEN 1 ELSE 0)
      BY <1>1, <1>2, <2>1 DEF Good, CountedFor
    <2> QED
      BY <1>5, <2>2, EntriesCount
  <1>16. \A n \in Mine(t) : NotSoft(n) => NotSoft(n)'
    BY <1>2, <1>5, SameSoft
  <1>17. OwnContents(t)'
    BY <1>2, <1>5, <1>8, <1>16, KeepsContents
  <1>18. LinksSized(t)'
    BY <1>2, <1>5, <1>6 DEF Good, LinksSized
  <1>19. HandlesHeld(t)'
    BY <1>2, <1>5, KeepsHandles
  <1>20. Typed'
    BY <1>2, <1>5, <1>10, NoCallTyped, TypedParts, GoTyped
  <1> QED
    BY <1>2, <1>10, <1>11, <1>12, <1>13, <1>14, <1>15, <1>17, <1>18, <1>19, <1>20 DEF Fine, Good

LEMMA UnlinkCountsFine ==
  ASSUME Typed, EntriesOwned, NEW t \in Threads, Good(t), UnlinkCounts(t)
  PROVE  Fine(t) /\ Saves(t)
  <1>1. PICK i : i = loc[t].inum
    OBVIOUS
  <1>2. /\ pc[t] = "u_done"
        /\ UNCHANGED <<freeinode_ts, dir_entry, free_blocks, fs_data, free_open_file_entries,
                       open_file_table, lock_file_entries, died, calls, handles, seen>>
        /\ inode_table' = [inode_table EXCEPT ![i].cnt_hardlinks = @ - 1]
        /\ inode_lock' = [inode_lock EXCEPT ![loc[t].inum] = Nobody]
    BY <1>1 DEF UnlinkCounts, At, Return, Unlock, callerVars, blockVars, fileVars
  <1>3. /\ i \in Inumbers /\ loc[t].op = "unlink" /\ loc[t] \in Call
        /\ HeldName(loc[t]) \in Mine(t) /\ NoEntry(HeldName(loc[t]))
    BY <1>1, <1>2 DEF Good, AtLabel, Unlinking, Typed
  <1>4. inode_table[i].cnt_hardlinks = Cardinality(EntriesOf(t, i)) + 1
    <2>1. inode_table[i].cnt_hardlinks = Cardinality(EntriesOf(t, i)) + 1 - 0
      BY <1>1, <1>2, <1>3 DEF Good, CountedFor
    <2> QED
      BY <2>1, EntriesCount
  <1>5. /\ inode_table' \in [Inumbers -> Inode]
        /\ inode_table'[i].cnt_hardlinks = Cardinality(EntriesOf(t, i))
        /\ \A j \in Inumbers \ {i} : inode_table'[j] = inode_table[j]
        /\ \A j \in Inumbers : /\ inode_table'[j].i_size = inode_table[j].i_size
                               /\ inode_table'[j].i_data_block = inode_table[j].i_data_block
                               /\ IsSoft(j)' <=> IsSoft(j)
    <2>1. PICK n : n = Cardinality(EntriesOf(t, i))
      OBVIOUS
    <2>2. n \in Nat /\ inode_table[i] \in Inode /\ inode_table[i].cnt_hardlinks - 1 = n
      BY <1>3, <1>4, <2>1, EntriesCount, TypedParts
    <2>3. PICK new : new = [inode_table[i] EXCEPT !.cnt_hardlinks = n]
      OBVIOUS
    <2>4. /\ new \in Inode /\ new.cnt_hardlinks = n
          /\ new.i_size = inode_table[i].i_size /\ new.i_data_block = inode_table[i].i_data_block
          /\ new.is_softlink = inode_table[i].is_softlink
      BY <2>2, <2>3 DEF Inode
    <2>5. inode_table' = [inode_table EXCEPT ![i] = new]
      BY <1>2, <2>2, <2>3
    <2>6. /\ inode_table' \in [Inumbers -> Inode] /\ inode_table'[i] = new
          /\ \A j \in Inumbers \ {i} : inode_table'[j] = inode_table[j]
      BY <1>3, <2>4, <2>5, InodeChange
    <2> QED
      BY <2>1, <2>4, <2>6 DEF IsSoft
  <1>6. /\ \A j : Named(t, j)' <=> Named(t, j)
        /\ \A j : EntriesOf(t, j)' = EntriesOf(t, j)
    BY <1>2, SameNames
  <1>7. PICK where \in {"idle", "delete"} :
          /\ Go(t, where, IF where = "idle" THEN NoCall ELSE loc[t])
          /\ where = "delete" <=> ~Named(t, i)
    <2>1. inode_table[i].cnt_hardlinks = 1 <=> ~Named(t, i)
      BY <1>4, EntriesCount
    <2>2. IF inode_table[i].cnt_hardlinks = 1 THEN Go(t, "delete", loc[t])
                                             ELSE Go(t, "idle", NoCall)
      BY <1>1 DEF UnlinkCounts, Return
    <2> QED
      BY <2>1, <2>2
  <1>8. /\ pc' \in [Threads -> Labels] /\ loc' \in [Threads -> Call]
        /\ pc'[t] = where /\ loc'[t] = (IF where = "idle" THEN NoCall ELSE loc[t])
        /\ \A u \in Threads \ {t} : pc'[u] = pc[u] /\ loc'[u] = loc[u]
    BY <1>3, <1>7, GoWhere, NoCallTyped DEF Labels
  <1>9. /\ ~Fills(t) /\ \A j : Owns(t, j) <=> Named(t, j) \/ j = i
        /\ \A j : Sized(t, j) <=> Owns(t, j) /\ inode_table[j].i_size > 0
    BY <1>1, <1>2 DEF Unnamed, Fills, Owns, Holds, Sized
  <1>10. ~Fills(t)' /\ \A j : Owns(t, j)' <=> Owns(t, j)
    BY <1>1, <1>6, <1>7, <1>8, <1>9 DEF Unnamed, Fills, Owns, Holds
  <1>11. \A j \in Inumbers : Sized(t, j)' <=> Sized(t, j)
    BY <1>5, <1>8, <1>9, <1>10 DEF Sized
  <1>12. \A b : Uses(t, b)' <=> Uses(t, b)
    BY <1>5, <1>9, <1>10, <1>11 DEF Uses
  <1>13. /\ LocksHeld(t)' /\ inode_lock' \in [Inumbers -> Threads \cup {Nobody}]
         /\ \A j \in Inumbers : inode_lock'[j] \in {inode_lock[j], t, Nobody}
    BY <1>2, UnlocksAll
  <1>14. AtLabel(t)' /\ NothingOpen(t)'
    <2>1. CASE where = "idle"
      BY <1>8, <2>1, IdleAtLabel
    <2>2. CASE where = "delete"
      <3>1. loc'[t] = loc[t] /\ pc'[t] = "delete"
        BY <1>8, <2>2
      <3>2. Unlinking(t)'
        BY <1>1, <1>2, <1>3, <1>6, <1>7, <2>2, <3>1, SameNames DEF Unlinking, Mine, HeldName
      <3>3. NothingOpen(t)'
        BY <1>2, <3>1 DEF Good, NothingOpen
      <3> QED
        BY <3>1, <3>2, <3>3
           DEF AtLabel, Idling, Searching, Opening, Creating, Linking, OnHandle, Fills
    <2> QED
      BY <2>1, <2>2
  <1>15. Confined(t)
    BY <1>2, <1>3, <1>5, <1>8, <1>9, <1>13 DEF Confined
  <1>16. Gains(t) /\ Saves(t)
    BY <1>2, <1>10, <1>12 DEF Gains, Saves, Live
  <1>17. NamesOnce(t)'
    BY <1>2, SameNames DEF Good, NamesOnce, Mine
  <1>18. OwnsLive(t)'
    BY <1>2, <1>10 DEF Good, OwnsLive, Live
  <1>19. CountedFor(t)'
    <2>1. SUFFICES ASSUME NEW j \in Inumbers, Named(t, j)
                   PROVE  inode_table'[j].cnt_hardlinks = Cardinality(EntriesOf(t, j))
      BY <1>6, <1>7, <1>8, EntriesCount DEF CountedFor
    <2>2. CASE j = i
      BY <1>5, <2>2
    <2>3. CASE j # i
      <3>1. inode_table[j].cnt_hardlinks = Cardinality(EntriesOf(t, j)) + 0 - 0
        BY <1>1, <1>2, <2>1, <2>3 DEF Good, CountedFor
      <3> QED
        BY <1>5, <2>3, <3>1, EntriesCount
    <2> QED
      BY <2>2, <2>3
  <1>20. \A n \in Mine(t) : NotSoft(n) => NotSoft(n)'
    BY <1>2, <1>5, SameSoft
  <1>21. OwnContents(t)'
    BY <1>2, <1>5, <1>10, <1>11, <1>20, KeepsContents
  <1>22. LinksSized(t)'
    BY <1>2, <1>5, <1>6 DEF Good, LinksSized
  <1>23. HandlesHeld(t)'
    BY <1>2, <1>5, KeepsHandles
  <1>24. Typed'
    BY <1>2, <1>3, <1>5, <1>7, <1>13, NoCallTyped, TypedParts, GoTyped
  <1> QED
    BY <1>2, <1>13, <1>14, <1>15, <1>16, <1>17, <1>18, <1>19, <1>21, <1>22, <1>23, <1>24 DEF Fine, Good

LEMMA UnlinkClearsEntryFine ==
  ASSUME Typed, EntriesOwned, NEW t \in Threads, Good(t), UnlinkClears(t), pc'[t] = "u_done"
  PROVE  Fine(t) /\ Saves(t)
  <1>1. PICK i, s : i = loc[t].inum /\ s = loc[t].slot
    OBVIOUS
  <1>2. /\ pc[t] = "clear" /\ loc[t] \in Call
        /\ UNCHANGED <<freeinode_ts, inode_table, free_blocks, fs_data, free_open_file_entries,
                       open_file_table, inode_lock, lock_file_entries, died>>
    BY DEF UnlinkClears, At, Typed, inodeVars, blockVars, fileVars, locks
  <1>3. /\ s \in DirSlots /\ NameAt(s) = loc[t].name
        /\ dir_entry' = [dir_entry EXCEPT ![s] = FreeEntry]
        /\ Go(t, "u_done", loc[t]) /\ UNCHANGED <<calls, handles, seen>>
    <2>1. \A v \in Call : \A where \in Labels : Go(t, where, v) => pc'[t] = where
      BY GoWhere
    <2>2. ~(Go(t, "idle", NoCall))
      BY <2>1, NoCallTyped DEF Labels
    <2>3. ~(s \in DirSlots /\ Go(t, "clear", [loc[t] EXCEPT !.slot = loc[t].slot + 1]))
      BY <1>1, <2>1 DEF Go, Typed
    <2> QED
      BY <1>1, <2>2, <2>3 DEF UnlinkClears, Return, callerVars, NameAt
  <1>4. /\ pc' \in [Threads -> Labels] /\ loc' \in [Threads -> Call]
        /\ pc'[t] = "u_done" /\ loc'[t] = loc[t]
        /\ \A u \in Threads \ {t} : pc'[u] = pc[u] /\ loc'[u] = loc[u]
    BY <1>2, <1>3, GoWhere DEF Labels
  <1>5. /\ loc[t].op = "unlink" /\ i \in Inumbers /\ NameAt(s) \in Mine(t) /\ handles[t] = {}
        /\ \E e \in DirSlots : e >= s /\ NameAt(e) = loc[t].name /\ InumAt(e) = i
    BY <1>1, <1>2, <1>3 DEF Good, AtLabel, Unlinking, NothingOpen
  <1>6. NamesOnce(t)
    BY DEF Good
  <1>7. InumAt(s) = i /\ \A e \in DirSlots : NameAt(e) = NameAt(s) => e = s
    BY <1>3, <1>5, <1>6 DEF NamesOnce
  <1>8. /\ NoName \notin Mine(t)
        /\ NameAt(s)' = NoName
        /\ \A e \in DirSlots \ {s} : NameAt(e)' = NameAt(e) /\ InumAt(e)' = InumAt(e)
    BY <1>3, MineReal DEF FreeEntry, NameAt, InumAt, Typed, ThreadsTypeOK
  <1>9. /\ \A j : Named(t, j)' => Named(t, j)
        /\ \A j : Named(t, j) => Named(t, j)' \/ j = i
        /\ Named(t, i)
    BY <1>3, <1>5, <1>7, <1>8 DEF Named, Mine
  <1>10. /\ EntriesOf(t, i)' = EntriesOf(t, i) \ {s} /\ s \in EntriesOf(t, i)
         /\ \A j : j # i => EntriesOf(t, j)' = EntriesOf(t, j)
    <2>1. EntriesOf(t, i)' = EntriesOf(t, i) \ {s} /\ s \in EntriesOf(t, i)
      BY <1>3, <1>5, <1>7, <1>8 DEF EntriesOf, Mine
    <2>2. ASSUME NEW j, j # i PROVE EntriesOf(t, j)' = EntriesOf(t, j)
      BY <1>3, <1>7, <1>8, <2>2 DEF EntriesOf, Mine
    <2> QED
      BY <2>1, <2>2
  <1>11. Cardinality(EntriesOf(t, i)') = Cardinality(EntriesOf(t, i)) - 1
    BY <1>10, EntriesCount, FS_RemoveElement
  <1>12. /\ ~Fills(t) /\ \A j : Owns(t, j) <=> Named(t, j)
         /\ \A j : Sized(t, j) <=> Named(t, j) /\ inode_table[j].i_size > 0
    BY <1>2 DEF Unnamed, Fills, Owns, Holds, Sized
  <1>13. ~Fills(t)' /\ \A j : Owns(t, j)' <=> Owns(t, j)
    BY <1>1, <1>4, <1>9, <1>12 DEF Unnamed, Fills, Owns, Holds
  <1>14. \A j \in Inumbers : Sized(t, j)' <=> Sized(t, j)
    BY <1>2, <1>4, <1>12, <1>13 DEF Sized
  <1>15. \A b : Uses(t, b)' <=> Uses(t, b)
    BY <1>2, <1>12, <1>13, <1>14 DEF Uses
  <1>16. Confined(t)
    BY <1>2, <1>3, <1>4, <1>5, <1>8 DEF Confined, NameAt, Typed, ThreadsTypeOK
  <1>17. Gains(t) /\ Saves(t)
    BY <1>2, <1>3, <1>13, <1>15 DEF Gains, Saves, Live
  <1>18. NamesOnce(t)'
    BY <1>6, <1>8 DEF NamesOnce, Mine
  <1>19. OwnsLive(t)'
    BY <1>2, <1>13 DEF Good, OwnsLive, Live
  <1>20. CountedFor(t)'
    <2>1. SUFFICES ASSUME NEW j \in Inumbers, Named(t, j)' \/ j = i
                   PROVE  inode_table[j].cnt_hardlinks =
                            Cardinality(EntriesOf(t, j)') + (IF j = i THEN 1 ELSE 0) - 0
      BY <1>1, <1>2, <1>4 DEF CountedFor
    <2>2. Named(t, j)
      BY <1>9, <2>1
    <2>3. inode_table[j].cnt_hardlinks = Cardinality(EntriesOf(t, j)) + 0 - 0
      BY <1>2, <2>2 DEF Good, CountedFor
    <2>4. CASE j = i
      BY <1>11, <2>3, <2>4, EntriesCount
    <2>5. CASE j # i
      BY <1>10, <2>3, <2>5
    <2> QED
      BY <2>4, <2>5
  <1>21. OwnContents(t)'
    <2>1. \A n \in Mine(t) : \A j : Leads(n, j)' => Leads(n, j)
      BY <1>8 DEF Leads
    <2>2. \A n \in Mine(t) : NotSoft(n) => NotSoft(n)'
      BY <1>2, <2>1 DEF NotSoft, IsSoft
    <2>3. \A j : IsSoft(j)' <=> IsSoft(j)
      BY <1>2 DEF IsSoft
    <2> QED
      BY <1>2, <1>13, <1>14, <2>2, <2>3, KeepsContents
  <1>22. LinksSized(t)'
    BY <1>2, <1>4, <1>9 DEF Good, LinksSized, IsSoft
  <1>23. HandlesHeld(t)' /\ NothingOpen(t)'
    BY <1>3, <1>5 DEF HandlesHeld, NothingOpen
  <1>24. LocksHeld(t)'
    BY <1>2, <1>4 DEF Good, LocksHeld
  <1>25. AtLabel(t)'
    <2>1. NoEntry(loc[t].name)'
      BY <1>3, <1>4, <1>5, <1>7, <1>8 DEF NoEntry
    <2>2. Unlinking(t)'
      BY <1>1, <1>3, <1>4, <1>5, <2>1 DEF Unlinking, HeldName, Mine
    <2> QED
      BY <1>4, <2>2
         DEF AtLabel, Idling, Searching, Opening, Creating, Linking, OnHandle, Fills
  <1>26. Typed'
    <2>1. dir_entry' \in [DirSlots -> [d_name : Names \cup {NoName}, d_inumber : Inumbers \cup {-1}]]
      BY <1>3 DEF Typed, ThreadsTypeOK, FreeEntry
    <2>2. \A u \in Threads : loc'[u].slot \in 0 .. MAX_DIR_ENTRIES
      BY <1>4, CallFields DEF Slots
    <2> QED
      BY <1>2, <1>3, <1>4, <2>1, <2>2 DEF Typed, ThreadsTypeOK
  <1> QED
    BY <1>2, <1>16, <1>17, <1>18, <1>19, <1>20, <1>21, <1>22, <1>23, <1>24, <1>25, <1>26
       DEF Fine, Good

LEMMA UnlinkClearsFine ==
  ASSUME Typed, EntriesOwned, NEW t \in Threads, Good(t), UnlinkClears(t)
  PROVE  Fine(t) /\ Saves(t)
  <1> DEFINE c == loc[t]
  <1>1. /\ pc[t] = "clear" /\ c \in Call /\ Plain(t)
        /\ UNCHANGED <<inodeVars, blockVars, fileVars, locks, died>>
    BY DEF UnlinkClears, At, Typed, Plain
  <1>2. /\ c.op = "unlink" /\ c.inum \in Inumbers /\ c.name \in Mine(t)
        /\ \E e \in DirSlots : e >= c.slot /\ NameAt(e) = c.name /\ InumAt(e) = c.inum
        /\ handles[t] = {}
    BY <1>1 DEF Good, AtLabel, Unlinking, NothingOpen
  <1>3. c.slot \in DirSlots
    BY <1>1, <1>2, CallFields, SomeKinds DEF Slots, DirSlots
  <1>4. CASE NameAt(c.slot) = c.name
    <2>1. Go(t, "u_done", c)
      BY <1>3, <1>4 DEF UnlinkClears, NameAt
    <2>2. pc'[t] = "u_done"
      BY <1>1, <2>1, GoWhere DEF Labels
    <2> QED
      BY <2>2, UnlinkClearsEntryFine
  <1>5. CASE NameAt(c.slot) # c.name
    <2> DEFINE v == [c EXCEPT !.slot = c.slot + 1]
    <2>1. Go(t, "clear", v) /\ UNCHANGED <<dir_entry, calls, handles, seen>>
      BY <1>3, <1>5 DEF UnlinkClears, NameAt, callerVars
    <2>2. /\ v \in Call /\ v.slot = c.slot + 1 /\ v.op = c.op /\ v.name = c.name /\ v.inum = c.inum
      BY <1>1, <1>3, SomeKinds DEF Call
    <2> HIDE DEF v
    <2>3. /\ pc' \in [Threads -> Labels] /\ loc' \in [Threads -> Call]
          /\ pc'[t] = "clear" /\ loc'[t] = v
          /\ \A u \in Threads \ {t} : pc'[u] = pc[u] /\ loc'[u] = loc[u]
      BY <2>1, <2>2, GoWhere DEF Labels
    <2>4. UNCHANGED tables /\ UNCHANGED <<inode_lock, lock_file_entries>>
      BY <1>1, <2>1 DEF tables, locks
    <2>5. \E e \in DirSlots : e >= c.slot + 1 /\ NameAt(e) = c.name /\ InumAt(e) = c.inum
      <3>1. PICK e \in DirSlots : e >= c.slot /\ NameAt(e) = c.name /\ InumAt(e) = c.inum
        BY <1>2
      <3>2. e >= c.slot + 1
        BY <1>3, <1>5, <3>1 DEF DirSlots
      <3> QED
        BY <3>1, <3>2
    <2>6. Unlinking(t)'
      BY <1>2, <2>1, <2>2, <2>3, <2>5, SameNames DEF Unlinking, Mine
    <2>7. AtLabel(t)' /\ Plain(t)' /\ NothingOpen(t)'
      BY <1>2, <2>1, <2>3, <2>6
         DEF AtLabel, Idling, Searching, Opening, Creating, Linking, OnHandle, Fills, Plain, NothingOpen
    <2>8. LocksHeld(t)'
      BY <1>1, <2>2, <2>3, <2>4 DEF Good, LocksHeld
    <2>9. /\ calls' \in [Threads -> Nat] /\ inode_lock' \in [Inumbers -> Threads \cup {Nobody}]
          /\ \A i \in Inumbers : inode_lock'[i] \in {inode_lock[i], t, Nobody}
      BY <2>1, <2>4 DEF Typed, ThreadsTypeOK
    <2> QED
      BY <1>1, <2>1, <2>3, <2>4, <2>7, <2>8, <2>9, LooksFine
  <1> QED
    BY <1>4, <1>5

-----------------------------------------------------------------------------
(* The life of an inode.                                                   *)

\* tfs_sym_link dies when there is no inode.
AbortsFull(t) ==
  /\ died' = TRUE /\ UNCHANGED <<tables, locks, pc, loc, callerVars>>
  /\ pc[t] = "create" /\ loc[t].op = "sym_link" /\ NoneFree(freeinode_ts)

LEMMA InodeAllocFine ==
  ASSUME Typed, Shared, NEW t \in Threads, Good(t), InodeAlloc(t)
  PROVE  (Fine(t) /\ Saves(t)) \/ AbortsFull(t)
  <1> DEFINE c == loc[t]
  <1> EntriesOwned
    BY DEF Shared
  <1>1. pc[t] = "create" /\ c \in Call /\ Plain(t) /\ ~Unlocking(t)
    BY DEF InodeAlloc, At, Typed, Plain, Unlocking
  <1>2. /\ c.op \in {"open", "sym_link"} /\ MayAdd(t) /\ c.slot = 0
        /\ c.op = "open" => c.offset = 0
    BY <1>1 DEF Good, AtLabel, Creating, Idling
  <1>3. CASE NoneFree(freeinode_ts) /\ Return(t) /\ UNCHANGED <<tables, locks, died>>
    <2>1. UNCHANGED <<inode_lock, lock_file_entries>>
      BY <1>3 DEF locks
    <2> QED
      BY <1>1, <1>3, <2>1, UnlocksAll, ReturnFine
  <1>4. CASE NoneFree(freeinode_ts) /\ c.op = "sym_link" /\ Die
    BY <1>1, <1>4 DEF AbortsFull, Die
  <1>5. ASSUME NEW i \in Inumbers, IsFirstFree(freeinode_ts, i),
               freeinode_ts' = Take(freeinode_ts, i),
               Go(t, "init", [c EXCEPT !.inum = i]),
               UNCHANGED <<inode_table, dir_entry, blockVars, fileVars, locks, died, callerVars>>
        PROVE  Fine(t) /\ Saves(t)
    <2> DEFINE v == [c EXCEPT !.inum = i]
    <2>1. /\ v \in Call /\ v.inum = i /\ v.op = c.op /\ v.name = c.name /\ v.link = c.link
          /\ v.mode = c.mode /\ v.slot = 0 /\ v.offset = c.offset
      BY <1>1, <1>2, SomeKinds DEF Call
    <2>2. Go(t, "init", v)
      BY <1>5
    <2> HIDE DEF v
    <2>3. /\ pc' \in [Threads -> Labels] /\ loc' \in [Threads -> Call]
          /\ pc'[t] = "init" /\ loc'[t] = v
          /\ \A u \in Threads \ {t} : pc'[u] = pc[u] /\ loc'[u] = loc[u]
      BY <2>1, <2>2, GoWhere DEF Labels
    <2>4. UNCHANGED <<inode_table, dir_entry, free_blocks, fs_data, free_open_file_entries,
                      open_file_table, inode_lock, lock_file_entries, died, calls, handles, seen>>
      BY <1>5 DEF blockVars, fileVars, locks, callerVars
    <2>5. /\ freeinode_ts[i] = "FREE" /\ freeinode_ts'[i] = "TAKEN"
          /\ \A j \in Inumbers \ {i} : freeinode_ts'[j] = freeinode_ts[j]
          /\ freeinode_ts' \in [Inumbers -> {"FREE", "TAKEN"}]
      BY <1>5, TypedParts DEF IsFirstFree, Take
    <2>6. ~Live(i) /\ ~Owns(t, i) /\ ~Named(t, i)
      BY <2>5 DEF Good, OwnsLive, Live, Owns
    <2>7. \A j : (Named(t, j)' <=> Named(t, j)) /\ (IsSoft(j)' <=> IsSoft(j))
      BY <2>4, SameNames DEF IsSoft
    <2>8. /\ ~Fills(t) /\ \A j : Owns(t, j) <=> Named(t, j)
          /\ \A j : Sized(t, j) <=> Named(t, j) /\ inode_table[j].i_size > 0
      BY <1>1, PlainOwns
    <2>9. ~Fills(t)' /\ \A j : Owns(t, j)' <=> Named(t, j) \/ j = i
      BY <2>1, <2>3, <2>7 DEF Unnamed, Fills, Owns, Holds
    <2>10. \A j \in Inumbers : Sized(t, j)' <=> Sized(t, j)
      BY <2>1, <2>3, <2>4, <2>6, <2>8, <2>9 DEF Sized
    <2>11. \A b : Uses(t, b)' <=> Uses(t, b)
      BY <2>4, <2>8, <2>9, <2>10 DEF Uses
    <2>12. Confined(t)
      BY <2>3, <2>4, <2>5, <2>6 DEF Confined
    <2>13. Gains(t) /\ Saves(t)
      BY <2>4, <2>5, <2>6, <2>8, <2>9, <2>11 DEF Gains, Saves, Live
    <2>14. /\ NamesOnce(t)' /\ CountedFor(t)' /\ LinksSized(t)'
           /\ \A n \in Mine(t) : NotSoft(n)' <=> NotSoft(n)
           /\ \A n \in Mine(t) : LeadsToFile(n)' <=> LeadsToFile(n)
      BY <1>1, <2>3, <2>4, <2>7, KeepsNames
    <2>15. OwnsLive(t)'
      <3>1. i # ROOT_DIR_INUM
        BY <2>6 DEF Shared, RootKept
      <3> QED
        BY <2>5, <2>8, <2>9, <3>1 DEF Good, OwnsLive, Live
    <2>16. OwnContents(t)'
      BY <2>4, <2>7, <2>9, <2>10, <2>14, KeepsContents
    <2>17. HandlesHeld(t)'
      BY <2>4, <2>7, KeepsHandles
    <2>18. LocksHeld(t)' /\ NothingOpen(t)'
      BY <1>1, <2>1, <2>3, <2>4, UnlocksAll DEF Good, NothingOpen
    <2>19. MayAdd(t)'
      BY <1>2, <2>1, <2>3, <2>4, <2>14, SameNames DEF MayAdd, LinkFree, NewName, Mine
    <2>20. AtLabel(t)'
      BY <1>2, <2>1, <2>3, <2>6, <2>7, <2>9, <2>19
         DEF AtLabel, Idling, Searching, Opening, Creating, Linking, Unlinking, OnHandle
    <2>21. Typed'
      <3>1. "init" \in Labels
        BY DEF Labels
      <3> QED
        BY <2>1, <2>2, <2>4, <2>5, <3>1, TypedParts, GoTyped
    <2> QED
      BY <2>4, <2>12, <2>13, <2>14, <2>15, <2>16, <2>17, <2>18, <2>20, <2>21 DEF Fine, Good
  <1> QED
    BY <1>3, <1>4, <1>5 DEF InodeAlloc

LEMMA InodeInitFine ==
  ASSUME Typed, EntriesOwned, NEW t \in Threads, Good(t), InodeInit(t)
  PROVE  Fine(t) /\ Saves(t)
  <1> DEFINE c == loc[t]
  <1>1. PICK i, soft : i = c.inum /\ soft = (c.op = "sym_link")
    OBVIOUS
  <1>2. PICK where \in {"add", "s_block"} : where = (IF c.op = "open" THEN "add" ELSE "s_block")
    OBVIOUS
  <1>3. /\ pc[t] = "init" /\ c \in Call /\ ~Unlocking(t)
        /\ inode_table' = [inode_table EXCEPT ![i] = NewInode(soft)]
        /\ inode_lock' = [inode_lock EXCEPT ![loc[t].inum] = Nobody]
        /\ Go(t, where, c)
        /\ UNCHANGED <<freeinode_ts, dir_entry, free_blocks, fs_data, free_open_file_entries,
                       open_file_table, lock_file_entries, died, calls, handles, seen>>
    BY <1>1, <1>2 DEF InodeInit, At, Typed, Unlocking, Unlock, blockVars, fileVars, callerVars
  <1>4. /\ c.op \in {"open", "sym_link"} /\ MayAdd(t) /\ c.slot = 0
        /\ c.op = "open" => c.offset = 0
        /\ i \in Inumbers /\ ~Named(t, i) /\ soft \in BOOLEAN
    BY <1>1, <1>3 DEF Good, AtLabel, Creating, Idling
  <1>5. /\ pc' \in [Threads -> Labels] /\ loc' \in [Threads -> Call]
        /\ pc'[t] = where /\ loc'[t] = c
        /\ \A u \in Threads \ {t} : pc'[u] = pc[u] /\ loc'[u] = loc[u]
    BY <1>3, GoWhere DEF Labels
  <1>6. /\ inode_table' \in [Inumbers -> Inode]
        /\ inode_table'[i] = NewInode(soft)
        /\ \A j \in Inumbers \ {i} : inode_table'[j] = inode_table[j]
    <2>1. NewInode(soft) \in Inode
      BY <1>4 DEF NewInode, Inode
    <2> QED
      BY <1>3, <1>4, <2>1, InodeChange
  <1>7. \A j : Named(t, j)' <=> Named(t, j)
    BY <1>3, SameNames
  <1>8. \A j : Named(t, j) => j # i
    BY <1>4
  <1>9. /\ ~Fills(t) /\ \A j : Owns(t, j) <=> Named(t, j) \/ j = i
        /\ \A j : Sized(t, j) <=> Owns(t, j) /\ j # i /\ inode_table[j].i_size > 0
    BY <1>1, <1>3 DEF Unnamed, Fills, Owns, Holds, Sized
  <1>10. ~Fills(t)' /\ \A j : Owns(t, j)' <=> Owns(t, j)
    BY <1>1, <1>2, <1>4, <1>5, <1>7, <1>9 DEF Unnamed, Fills, Owns, Holds
  <1>11. \A j \in Inumbers : Sized(t, j)' <=> Sized(t, j)
    <2>1. \A j \in Inumbers : Sized(t, j)' <=> Owns(t, j) /\ inode_table'[j].i_size > 0
      BY <1>5, <1>10 DEF Sized
    <2>2. inode_table'[i].i_size = 0
      BY <1>6 DEF NewInode
    <2> QED
      BY <1>6, <1>9, <2>1, <2>2
  <1>12. \A b : Uses(t, b)' <=> Uses(t, b)
    BY <1>6, <1>9, <1>10, <1>11 DEF Uses
  <1>13. /\ LocksHeld(t)' /\ inode_lock' \in [Inumbers -> Threads \cup {Nobody}]
         /\ \A j \in Inumbers : inode_lock'[j] \in {inode_lock[j], t, Nobody}
    BY <1>3, UnlocksAll
  <1>14. Confined(t)
    BY <1>3, <1>5, <1>6, <1>9, <1>13 DEF Confined
  <1>15. Gains(t) /\ Saves(t)
    BY <1>3, <1>10, <1>12 DEF Gains, Saves, Live
  <1>16. /\ NamesOnce(t)' /\ CountedFor(t)' /\ LinksSized(t)'
         /\ \A n \in Mine(t) : NotSoft(n)' <=> NotSoft(n)
         /\ \A n \in Mine(t) : LeadsToFile(n)' <=> LeadsToFile(n)
    <2>1. \A j \in Inumbers : Named(t, j) => inode_table'[j] = inode_table[j]
      BY <1>6, <1>8
    <2> QED
      BY <1>2, <1>3, <1>5, <2>1, KeepsNames DEF IsSoft
  <1>17. OwnsLive(t)'
    BY <1>3, <1>10 DEF Good, OwnsLive, Live
  <1>18. OwnContents(t)'
    <2>1. \A j \in Inumbers : Sized(t, j) => inode_table'[j] = inode_table[j]
      BY <1>6, <1>9
    <2> QED
      BY <1>3, <1>10, <1>11, <1>16, <2>1, KeepsContents DEF IsSoft
  <1>19. HandlesHeld(t)'
    <2>1. \A j \in Inumbers : Named(t, j) => inode_table'[j] = inode_table[j]
      BY <1>6, <1>8
    <2> QED
      BY <1>3, <2>1, KeepsHandles DEF IsSoft
  <1>20. NothingOpen(t)'
    BY <1>3, <1>5 DEF Good, NothingOpen
  <1>21. MayAdd(t)'
    BY <1>3, <1>4, <1>5, <1>16, SameNames DEF MayAdd, LinkFree, NewName, Mine
  <1>22. Blank(t)'
    BY <1>1, <1>4, <1>5, <1>6, <1>7 DEF Blank, NewInode
  <1>23. AtLabel(t)'
    BY <1>2, <1>4, <1>5, <1>10, <1>21, <1>22
       DEF AtLabel, Idling, Searching, Opening, Creating, Linking, Unlinking, OnHandle
  <1>24. Typed'
    <2>1. where \in Labels
      BY <1>2 DEF Labels
    <2> QED
      BY <1>3, <1>6, <1>13, <2>1, TypedParts, GoTyped
  <1> QED
    BY <1>3, <1>13, <1>14, <1>15, <1>16, <1>17, <1>18, <1>19, <1>20, <1>23, <1>24 DEF Fine, Good

LEMMA InodeDeleteFine ==
  ASSUME Typed, EntriesOwned, NEW t \in Threads, Good(t), InodeDelete(t)
  PROVE  Fine(t) /\ Saves(t)
  <1>1. PICK i, a : i = loc[t].inum /\ a = inode_table[i].i_data_block
    OBVIOUS
  <1>2. pc[t] = "delete" /\ ~Unlocking(t) /\ i \in Inumbers /\ ~Named(t, i)
    BY <1>1 DEF InodeDelete, At, Unlocking, Good, AtLabel, Unlinking
  <1>3. /\ ~Fills(t) /\ \A j : Owns(t, j) <=> Named(t, j) \/ j = i
        /\ \A j : Sized(t, j) <=> Owns(t, j) /\ inode_table[j].i_size > 0
    BY <1>1, <1>2 DEF Unnamed, Fills, Owns, Holds, Sized
  <1>4. Live(i)
    BY <1>2, <1>3 DEF Good, OwnsLive
  <1>5. PICK cut \in BOOLEAN : cut <=> inode_table[i].i_size > 0
    OBVIOUS
  <1>6. /\ freeinode_ts' = Free(freeinode_ts, i)
        /\ free_blocks' = IF cut THEN Free(free_blocks, a) ELSE free_blocks
        /\ Go(t, "idle", NoCall)
        /\ UNCHANGED <<inode_table, dir_entry, fs_data, free_open_file_entries, open_file_table,
                       inode_lock, lock_file_entries, died, calls, handles, seen>>
    BY <1>1, <1>4, <1>5 DEF InodeDelete, Live, Return, fileVars, locks, callerVars
  <1>7. /\ pc' \in [Threads -> Labels] /\ loc' \in [Threads -> Call]
        /\ pc'[t] = "idle" /\ loc'[t] = NoCall
        /\ \A u \in Threads \ {t} : pc'[u] = pc[u] /\ loc'[u] = loc[u]
    BY <1>6, GoWhere, NoCallTyped DEF Labels
  <1>8. /\ AtLabel(t)' /\ NothingOpen(t)' /\ LocksHeld(t)'
        /\ \A j \in Inumbers : inode_lock'[j] \in {inode_lock[j], t, Nobody}
    BY <1>2, <1>6, <1>7, IdleAtLabel, UnlocksAll
  <1>9. /\ freeinode_ts'[i] = "FREE"
        /\ \A j \in Inumbers \ {i} : freeinode_ts'[j] = freeinode_ts[j]
        /\ freeinode_ts' \in [Inumbers -> {"FREE", "TAKEN"}]
    BY <1>2, <1>6, TypedParts DEF Free
  <1>10. cut => /\ a \in Blocks /\ Uses(t, a)
                /\ \A j \in Inumbers : Sized(t, j) /\ inode_table[j].i_data_block = a => j = i
    BY <1>1, <1>2, <1>3, <1>5 DEF Good, OwnContents, ClaimsBlock, Uses
  <1>11. /\ cut => free_blocks'[a] = "FREE"
         /\ \A b \in Blocks : free_blocks'[b] # free_blocks[b] => cut /\ b = a
         /\ free_blocks' \in [Blocks -> {"FREE", "TAKEN"}]
    BY <1>6, <1>10, TypedParts DEF Free
  <1>12. \A j : (Named(t, j)' <=> Named(t, j)) /\ (IsSoft(j)' <=> IsSoft(j))
    BY <1>6, SameNames DEF IsSoft
  <1>13. /\ ~Fills(t)' /\ \A j : Owns(t, j)' <=> Owns(t, j) /\ j # i
         /\ \A j : Sized(t, j)' <=> Sized(t, j) /\ j # i
    BY <1>2, <1>3, <1>6, <1>7, <1>12, IdleOwns
  <1>14. \A b : Uses(t, b)' => Uses(t, b)
    BY <1>6, <1>13 DEF Uses
  <1>15. \A b : Uses(t, b) => Uses(t, b)' \/ (cut /\ b = a)
    BY <1>1, <1>3, <1>5, <1>6, <1>13 DEF Uses
  <1>16. Confined(t)
    BY <1>3, <1>6, <1>7, <1>8, <1>9, <1>10, <1>11 DEF Confined
  <1>17. Gains(t)
    BY <1>3, <1>6, <1>9, <1>13, <1>14 DEF Gains, Live
  <1>18. Saves(t)
    BY <1>11, <1>15 DEF Saves
  <1>19. /\ NamesOnce(t)' /\ CountedFor(t)' /\ LinksSized(t)'
         /\ \A n \in Mine(t) : NotSoft(n)' <=> NotSoft(n)
    BY <1>2, <1>6, <1>7, <1>12, KeepsNames
  <1>20. OwnsLive(t)'
    BY <1>9, <1>13 DEF Good, OwnsLive, Live
  <1>21. OwnContents(t)'
    <2>1. ASSUME NEW j \in Inumbers, Sized(t, j)'
          PROVE  free_blocks'[inode_table[j].i_data_block] = free_blocks[inode_table[j].i_data_block]
      BY <1>10, <1>11, <1>13, <2>1 DEF Good, OwnContents, ClaimsBlock
    <2> QED
      BY <1>6, <1>12, <1>13, <1>19, <2>1, KeepsContents
  <1>22. HandlesHeld(t)'
    BY <1>6, <1>12, KeepsHandles
  <1>23. Typed'
    BY <1>6, <1>9, <1>11, NoCallTyped, TypedParts, GoTyped
  <1> QED
    BY <1>6, <1>8, <1>16, <1>17, <1>18, <1>19, <1>20, <1>21, <1>22, <1>23 DEF Fine, Good

-----------------------------------------------------------------------------
(* The block of a symbolic link.                                           *)

LEMMA FirstFreeBlock ==
  ASSUME Typed, Shared, NEW b \in Blocks, IsFirstFree(free_blocks, b),
         free_blocks' = Take(free_blocks, b)
  PROVE  /\ b # 0 /\ b \in SomeBlock
         /\ free_blocks[b] = "FREE" /\ free_blocks'[b] = "TAKEN"
         /\ \A a \in Blocks \ {b} : free_blocks'[a] = free_blocks[a]
         /\ free_blocks' \in [Blocks -> {"FREE", "TAKEN"}]
  BY TypedParts, SomeKinds DEF IsFirstFree, Take, Shared, RootKept

LEMMA SymLinkAllocsFine ==
  ASSUME Typed, Shared, NEW t \in Threads, Good(t), SymLinkAllocs(t)
  PROVE  Fine(t) /\ Saves(t)
  <1> DEFINE c == loc[t]
  <1>1. EntriesOwned
    BY DEF Shared
  <1>2. /\ pc[t] = "s_block" /\ c \in Call /\ ~Unlocking(t)
        /\ UNCHANGED <<freeinode_ts, inode_table, dir_entry, fs_data, free_open_file_entries,
                       open_file_table, inode_lock, lock_file_entries, died, calls, handles, seen>>
    BY DEF SymLinkAllocs, At, Typed, Unlocking, inodeVars, fileVars, locks, callerVars
  <1>3. c.op = "sym_link" /\ MayAdd(t) /\ Blank(t) /\ c.slot = 0
    BY <1>2 DEF Good, AtLabel, Creating, Idling
  <1>4. /\ \A j : (Named(t, j)' <=> Named(t, j)) /\ (IsSoft(j)' <=> IsSoft(j))
    BY <1>2, SameNames DEF IsSoft
  <1>5. /\ ~Fills(t) /\ Unnamed(t)
        /\ \A j : Owns(t, j) <=> Named(t, j) \/ j = c.inum
        /\ \A j : Sized(t, j) <=> Owns(t, j) /\ inode_table[j].i_size > 0
    BY <1>2 DEF Unnamed, Fills, Owns, Holds, Sized
  \* What is left to show, whether there is a block or not.
  <1>6. ASSUME NEW where \in {"s_lock", "delete"}, NEW v \in Call, Go(t, where, v),
               /\ v.inum = c.inum /\ v.op = c.op /\ v.name = c.name /\ v.link = c.link
               /\ v.mode = c.mode /\ v.slot = 0,
               \A b \in Blocks : free_blocks'[b] # free_blocks[b] => free_blocks[b] = "FREE",
               free_blocks' \in [Blocks -> {"FREE", "TAKEN"}],
               where = "s_lock" => /\ v.block \in Blocks \ {0} /\ free_blocks[v.block] = "FREE"
                                   /\ free_blocks'[v.block] = "TAKEN",
               \A b \in Blocks : free_blocks'[b] # free_blocks[b] => where = "s_lock" /\ b = v.block
        PROVE  Fine(t) /\ Saves(t)
    <2>1. /\ pc' \in [Threads -> Labels] /\ loc' \in [Threads -> Call]
          /\ pc'[t] = where /\ loc'[t] = v
          /\ \A u \in Threads \ {t} : pc'[u] = pc[u] /\ loc'[u] = loc[u]
      BY <1>6, GoWhere DEF Labels
    <2>2. /\ Fills(t)' <=> where = "s_lock"
          /\ \A j : Owns(t, j)' <=> Owns(t, j)
      BY <1>4, <1>5, <1>6, <2>1 DEF Unnamed, Fills, Owns, Holds
    <2>3. \A j \in Inumbers : Sized(t, j)' <=> Sized(t, j)
      BY <1>2, <1>5, <1>6, <2>1, <2>2 DEF Sized
    <2>4. \A b : Uses(t, b)' <=> Uses(t, b) \/ (where = "s_lock" /\ b = v.block)
      BY <1>2, <1>5, <2>1, <2>2, <2>3 DEF Uses
    <2>5. Confined(t)
      BY <1>2, <1>6, <2>1 DEF Confined
    <2>6. Gains(t)
      BY <1>2, <1>6, <2>2, <2>4 DEF Gains, Live
    <2>7. Saves(t)
      BY <1>6, <2>4 DEF Saves
    <2>8. /\ NamesOnce(t)' /\ CountedFor(t)' /\ LinksSized(t)'
          /\ \A n \in Mine(t) : NotSoft(n)' <=> NotSoft(n)
          /\ \A n \in Mine(t) : LeadsToFile(n)' <=> LeadsToFile(n)
      BY <1>1, <1>2, <1>4, <1>6, <2>1, KeepsNames
    <2>9. OwnsLive(t)'
      BY <1>2, <2>2 DEF Good, OwnsLive, Live
    <2>10. OwnContents(t)'
      <3>1. ASSUME NEW j \in Inumbers, Sized(t, j)
            PROVE  LET b == inode_table[j].i_data_block
                   IN  free_blocks'[b] = free_blocks[b] /\ ~(where = "s_lock" /\ v.block = b)
        BY <1>6, <3>1 DEF Good, OwnContents, ClaimsBlock
      <3> QED
        BY <1>2, <1>4, <2>1, <2>2, <2>3, <2>8, <3>1, KeepsContents
    <2>11. HandlesHeld(t)'
      BY <1>1, <1>2, <1>4, KeepsHandles
    <2>12. LocksHeld(t)' /\ NothingOpen(t)'
      BY <1>2, <1>6, <2>1, UnlocksAll DEF Good, NothingOpen
    <2>13. MayAdd(t)' /\ Blank(t)'
      BY <1>2, <1>3, <1>4, <1>6, <2>1, <2>8, SameNames DEF MayAdd, LinkFree, NewName, Mine, Blank
    <2>14. Creating(t)'
      BY <1>3, <1>6, <2>1, <2>2, <2>13 DEF Creating
    <2>15. Unlinking(t)'
      BY <1>3, <1>6, <2>1, <2>13 DEF Unlinking, HeldName, Blank, MayAdd, NewName, Mine
    <2>16. AtLabel(t)'
      BY <1>6, <2>1, <2>14, <2>15
         DEF AtLabel, Idling, Searching, Opening, Linking, OnHandle
    <2>17. Typed'
      <3>1. where \in Labels
        BY DEF Labels
      <3> QED
        BY <1>2, <1>6, <3>1, TypedParts, GoTyped
    <2> QED
      BY <1>2, <2>5, <2>6, <2>7, <2>8, <2>9, <2>10, <2>11, <2>12, <2>16, <2>17 DEF Fine, Good
  <1>7. ASSUME NEW b \in Blocks, IsFirstFree(free_blocks, b), free_blocks' = Take(free_blocks, b),
               Go(t, "s_lock", [c EXCEPT !.block = b])
        PROVE  Fine(t) /\ Saves(t)
    <2> DEFINE v == [c EXCEPT !.block = b]
    <2>1. /\ b # 0 /\ b \in SomeBlock
          /\ free_blocks[b] = "FREE" /\ free_blocks'[b] = "TAKEN"
          /\ \A a \in Blocks \ {b} : free_blocks'[a] = free_blocks[a]
          /\ free_blocks' \in [Blocks -> {"FREE", "TAKEN"}]
      BY <1>7, FirstFreeBlock
    <2>2. /\ v \in Call /\ v.inum = c.inum /\ v.op = c.op /\ v.name = c.name /\ v.link = c.link
          /\ v.mode = c.mode /\ v.slot = 0 /\ v.block = b
      BY <1>2, <1>3, <2>1 DEF Call
    <2>3. Go(t, "s_lock", v)
      BY <1>7
    <2> HIDE DEF v
    <2> QED
      BY <1>6, <2>1, <2>2, <2>3
  <1>8. CASE NoneFree(free_blocks) /\ Go(t, "delete", c) /\ UNCHANGED free_blocks
    BY <1>2, <1>3, <1>6, <1>8, TypedParts
  <1> QED
    BY <1>7, <1>8 DEF SymLinkAllocs

LEMMA SymLinkStoresFine ==
  ASSUME Typed, EntriesOwned, NEW t \in Threads, Good(t), SymLinkStores(t)
  PROVE  Fine(t) /\ Saves(t)
  <1> DEFINE c == loc[t]
  <1>1. PICK i, b, n : i = c.inum /\ b = c.block /\ n = c.name
    OBVIOUS
  <1>2. /\ pc[t] = "s_lock" /\ c \in Call /\ ~Unlocking(t)
        /\ inode_table' = [inode_table EXCEPT ![i].i_data_block = b]
        /\ fs_data' = [fs_data EXCEPT ![b] = n]
        /\ inode_lock' = [inode_lock EXCEPT ![i] = t]
        /\ Go(t, "add", c)
        /\ UNCHANGED <<freeinode_ts, dir_entry, free_blocks, free_open_file_entries,
                       open_file_table, lock_file_entries, died, calls, handles, seen>>
    BY <1>1 DEF SymLinkStores, At, Typed, Unlocking, Lock, fileVars, callerVars
  <1>3. /\ c.op = "sym_link" /\ MayAdd(t) /\ Blank(t) /\ c.slot = 0
        /\ b \in Blocks \ {0} /\ free_blocks[b] = "TAKEN" /\ i \in Inumbers
        /\ n \in Mine(t) /\ n \in Names /\ inode_table[i].i_size = 0 /\ ~Named(t, i)
    <2>1. /\ c.op = "sym_link" /\ MayAdd(t) /\ Blank(t) /\ c.slot = 0
          /\ b \in Blocks \ {0} /\ free_blocks[b] = "TAKEN"
      BY <1>1, <1>2 DEF Good, AtLabel, Creating, Idling, Fills
    <2>2. n \in Mine(t)
      BY <1>1, <2>1 DEF MayAdd, LinkFree
    <2> QED
      BY <1>1, <2>1, <2>2, MineNames DEF Blank
  <1>4. /\ pc' \in [Threads -> Labels] /\ loc' \in [Threads -> Call]
        /\ pc'[t] = "add" /\ loc'[t] = c
        /\ \A u \in Threads \ {t} : pc'[u] = pc[u] /\ loc'[u] = loc[u]
    BY <1>2, GoWhere DEF Labels
  <1>5. /\ inode_table' \in [Inumbers -> Inode]
        /\ inode_table'[i].i_data_block = b
        /\ \A j \in Inumbers \ {i} : inode_table'[j] = inode_table[j]
        /\ inode_table'[i].i_size = 0
        /\ inode_table'[i].cnt_hardlinks = inode_table[i].cnt_hardlinks
        /\ inode_table'[i].is_softlink = inode_table[i].is_softlink
    <2> DEFINE new == [inode_table[i] EXCEPT !.i_data_block = b]
    <2>1. inode_table' = [inode_table EXCEPT ![i] = new]
      BY <1>2
    <2>2. inode_table[i] \in Inode
      BY <1>3, TypedParts
    <2>3. /\ new \in Inode /\ new.i_data_block = b
          /\ new.cnt_hardlinks = inode_table[i].cnt_hardlinks /\ new.i_size = inode_table[i].i_size
          /\ new.is_softlink = inode_table[i].is_softlink
      BY <1>3, <2>2, BlockChange
    <2> HIDE DEF new
    <2> QED
      BY <1>3, <2>1, <2>3, InodeChange
  <1>6. /\ fs_data'[b] = n /\ \A a \in Blocks \ {b} : fs_data'[a] = fs_data[a]
        /\ fs_data' \in [Blocks -> Threads \cup Names \cup {Garbage}]
    BY <1>2, <1>3, TypedParts
  <1>7. \A j : Named(t, j)' <=> Named(t, j)
    BY <1>2, SameNames
  <1>8. \A j \in Inumbers : IsSoft(j)' <=> IsSoft(j)
    BY <1>5 DEF IsSoft
  <1>9. /\ Fills(t) /\ \A j : Owns(t, j) <=> Named(t, j) \/ j = i
        /\ \A j : Sized(t, j) <=> Owns(t, j) /\ inode_table[j].i_size > 0
    BY <1>1, <1>2 DEF Unnamed, Fills, Owns, Holds, Sized
  <1>10. Fills(t)' /\ \A j : Owns(t, j)' <=> Owns(t, j)
    BY <1>1, <1>3, <1>4, <1>7, <1>9 DEF Unnamed, Fills, Owns, Holds
  <1>11. /\ \A j \in Inumbers : Sized(t, j)' <=> Sized(t, j)
         /\ \A j \in Inumbers : Sized(t, j) => j # i
    BY <1>3, <1>4, <1>5, <1>9, <1>10 DEF Sized
  <1>12. \A a : Uses(t, a)' <=> Uses(t, a)
    BY <1>4, <1>5, <1>9, <1>10, <1>11 DEF Uses
  <1>13. /\ \A j \in Inumbers : inode_lock'[j] \in {inode_lock[j], t, Nobody}
         /\ inode_lock' \in [Inumbers -> Threads \cup {Nobody}]
         /\ LocksHeld(t)'
    <2>1. \A j \in Inumbers : inode_lock[j] # t
      BY <1>2, NoLockHere
    <2>2. \A j \in Inumbers : inode_lock'[j] = (IF j = i THEN t ELSE inode_lock[j])
      BY <1>2, TypedParts
    <2>3. inode_lock' \in [Inumbers -> Threads \cup {Nobody}]
      BY <1>2, TypedParts
    <2> QED
      BY <1>1, <1>2, <1>3, <1>4, <2>1, <2>2, <2>3 DEF LocksHeld, Good
  <1>14. Confined(t)
    <2>1. Uses(t, b) /\ Owns(t, i)
      BY <1>1, <1>9 DEF Uses
    <2> QED
      BY <1>2, <1>4, <1>5, <1>6, <1>13, <2>1 DEF Confined
  <1>15. Gains(t) /\ Saves(t)
    BY <1>2, <1>10, <1>12 DEF Gains, Saves, Live
  <1>16. /\ NamesOnce(t)' /\ CountedFor(t)' /\ LinksSized(t)'
         /\ \A m \in Mine(t) : NotSoft(m)' <=> NotSoft(m)
         /\ \A m \in Mine(t) : LeadsToFile(m)' <=> LeadsToFile(m)
    <2>1. \A j \in Inumbers : Named(t, j) => inode_table'[j] = inode_table[j]
      BY <1>3, <1>5
    <2> QED
      BY <1>2, <1>4, <1>8, <2>1, KeepsNames
  <1>17. OwnsLive(t)'
    BY <1>2, <1>10 DEF Good, OwnsLive, Live
  <1>18. OwnContents(t)'
    <2>1. ASSUME NEW j \in Inumbers, Sized(t, j)
          PROVE  LET a == inode_table[j].i_data_block
                 IN  inode_table'[j] = inode_table[j] /\ a # b /\ fs_data'[a] = fs_data[a]
      BY <1>1, <1>2, <1>5, <1>6, <1>9, <1>11, <2>1 DEF Good, OwnContents, ClaimsBlock
    <2> QED
      BY <1>1, <1>2, <1>4, <1>8, <1>11, <1>16, <2>1, KeepsContents
  <1>19. HandlesHeld(t)'
    <2>1. \A j \in Inumbers : Named(t, j) => inode_table'[j] = inode_table[j]
      BY <1>3, <1>5
    <2> QED
      BY <1>2, <1>8, <2>1, KeepsHandles
  <1>20. NothingOpen(t)'
    BY <1>3, <1>4 DEF NothingOpen
  <1>21. MayAdd(t)'
    BY <1>2, <1>3, <1>4, <1>16, SameNames DEF MayAdd, LinkFree, NewName, Mine
  <1>22. Blank(t)'
    BY <1>1, <1>3, <1>4, <1>5, <1>7 DEF Blank
  <1>23. AtLabel(t)'
    BY <1>1, <1>2, <1>3, <1>4, <1>5, <1>6, <1>21, <1>22
       DEF AtLabel, Idling, Searching, Opening, Creating, Linking, Unlinking, OnHandle, Fills
  <1>24. Typed'
    <2>1. "add" \in Labels
      BY DEF Labels
    <2> QED
      BY <1>2, <1>5, <1>6, <1>13, <2>1, TypedParts, GoTyped
  <1> QED
    BY <1>2, <1>13, <1>14, <1>15, <1>16, <1>17, <1>18, <1>19, <1>20, <1>23, <1>24 DEF Fine, Good

LEMMA SymLinkSizesFine ==
  ASSUME Typed, EntriesOwned, NEW t \in Threads, Good(t), SymLinkSizes(t)
  PROVE  Fine(t) /\ Saves(t)
  <1>1. PICK i, b, n : i = loc[t].inum /\ b = loc[t].block /\ n = loc[t].name
    OBVIOUS
  <1>2. /\ pc[t] = "s_done" /\ Go(t, "idle", NoCall)
        /\ UNCHANGED <<freeinode_ts, dir_entry, free_blocks, fs_data, free_open_file_entries,
                       open_file_table, lock_file_entries, died, calls, handles, seen>>
        /\ inode_table' = [inode_table EXCEPT ![i].i_size = 1]
        /\ inode_lock' = [inode_lock EXCEPT ![loc[t].inum] = Nobody]
    BY <1>1 DEF SymLinkSizes, At, Return, Unlock, callerVars, blockVars, fileVars
  <1>3. /\ i \in Inumbers /\ Named(t, i) /\ IsSoft(i) /\ inode_table[i].i_size = 0
        /\ n \in Mine(t) /\ NotSoft(n)
        /\ inode_table[i].i_data_block = b /\ fs_data[b] = n
        /\ b \in Blocks \ {0} /\ free_blocks[b] = "TAKEN"
    BY <1>1, <1>2 DEF Good, AtLabel, Creating, Fills
  <1>4. /\ pc' \in [Threads -> Labels] /\ loc' \in [Threads -> Call]
        /\ pc'[t] = "idle" /\ loc'[t] = NoCall
        /\ \A u \in Threads \ {t} : pc'[u] = pc[u] /\ loc'[u] = loc[u]
    BY <1>2, GoWhere, NoCallTyped DEF Labels
  <1>5. /\ inode_table' \in [Inumbers -> Inode]
        /\ inode_table'[i].i_size = 1
        /\ \A j \in Inumbers \ {i} : inode_table'[j] = inode_table[j]
        /\ \A j \in Inumbers : /\ inode_table'[j].cnt_hardlinks = inode_table[j].cnt_hardlinks
                               /\ inode_table'[j].i_data_block = inode_table[j].i_data_block
                               /\ IsSoft(j)' <=> IsSoft(j)
    <2> DEFINE new == [inode_table[i] EXCEPT !.i_size = 1]
    <2>1. inode_table' = [inode_table EXCEPT ![i] = new]
      BY <1>2
    <2>2. inode_table[i] \in Inode
      BY <1>3, TypedParts
    <2>3. /\ new \in Inode /\ new.i_size = 1
          /\ new.cnt_hardlinks = inode_table[i].cnt_hardlinks
          /\ new.i_data_block = inode_table[i].i_data_block
          /\ new.is_softlink = inode_table[i].is_softlink
      BY <2>2, SizeChange
    <2> HIDE DEF new
    <2> QED
      BY <1>3, <2>1, <2>3, InodeChange DEF IsSoft
  <1>6. \A j : Named(t, j)' <=> Named(t, j)
    BY <1>2, SameNames
  <1>7. /\ Fills(t) /\ \A j : Owns(t, j) <=> Named(t, j)
        /\ \A j : Sized(t, j) <=> Named(t, j) /\ inode_table[j].i_size > 0
    BY <1>2 DEF Unnamed, Fills, Owns, Holds, Sized
  <1>8. /\ ~Fills(t)' /\ \A j : Owns(t, j)' <=> Owns(t, j)
        /\ \A j \in Inumbers : Sized(t, j)' <=> Sized(t, j) \/ j = i
    BY <1>3, <1>4, <1>5, <1>6, <1>7, IdleOwns
  <1>9. \A a : Uses(t, a)' <=> Uses(t, a)
    BY <1>1, <1>3, <1>5, <1>7, <1>8 DEF Uses
  <1>10. /\ AtLabel(t)' /\ NothingOpen(t)' /\ LocksHeld(t)'
         /\ inode_lock' \in [Inumbers -> Threads \cup {Nobody}]
         /\ \A j \in Inumbers : inode_lock'[j] \in {inode_lock[j], t, Nobody}
    BY <1>2, <1>4, IdleAtLabel, UnlocksAll
  <1>11. Confined(t)
    BY <1>2, <1>3, <1>4, <1>5, <1>7, <1>10 DEF Confined
  <1>12. Gains(t) /\ Saves(t)
    BY <1>2, <1>8, <1>9 DEF Gains, Saves, Live
  <1>13. NamesOnce(t)'
    BY <1>2, SameNames DEF Good, NamesOnce, Mine
  <1>14. OwnsLive(t)'
    BY <1>2, <1>8 DEF Good, OwnsLive, Live
  <1>15. CountedFor(t)'
    BY <1>2, <1>4, <1>5, SameNames DEF Good, CountedFor
  <1>16. \A m \in Mine(t) : NotSoft(m) => NotSoft(m)'
    BY <1>2, <1>5, SameSoft
  <1>17. OwnContents(t)'
    <2>1. ASSUME NEW j \in Inumbers, Sized(t, j)
          PROVE  /\ ClaimsBlock(t, j) /\ inode_table[j].i_data_block # b
                 /\ inode_table'[j] = inode_table[j]
      <3>1. ClaimsBlock(t, j) /\ j # i
        BY <1>3, <1>7, <2>1 DEF Good, OwnContents
      <3> QED
        BY <1>1, <1>2, <1>5, <1>7, <3>1 DEF ClaimsBlock
    <2>2. ASSUME NEW j \in Inumbers, Sized(t, j) PROVE ClaimsBlock(t, j)'
      <3>1. \A k \in Inumbers : Sized(t, k)' /\ inode_table'[k].i_data_block = inode_table'[j].i_data_block
              => k = j
        BY <1>3, <1>5, <1>8, <2>1, <2>2 DEF ClaimsBlock
      <3>2. IsSoft(j) => \E m \in Mine(t) : fs_data[inode_table[j].i_data_block] = m /\ NotSoft(m)'
        BY <1>16, <2>1, <2>2 DEF ClaimsBlock
      <3> QED
        BY <1>2, <1>5, <1>8, <2>1, <2>2, <3>1, <3>2 DEF ClaimsBlock, Mine
    <2>3. ClaimsBlock(t, i)'
      <3>1. \A k \in Inumbers : Sized(t, k)' /\ inode_table'[k].i_data_block = b => k = i
        BY <1>5, <1>8, <2>1
      <3>2. \E m \in Mine(t) : fs_data[b] = m /\ NotSoft(m)'
        BY <1>3, <1>16
      <3> QED
        BY <1>2, <1>3, <1>5, <1>8, <3>1, <3>2 DEF ClaimsBlock, Mine
    <2> QED
      BY <1>8, <2>2, <2>3 DEF OwnContents
  <1>18. LinksSized(t)'
    BY <1>1, <1>5, <1>6 DEF Good, LinksSized
  <1>19. HandlesHeld(t)'
    <2> SUFFICES ASSUME NEW h \in handles[t] PROVE HandleGood(t, h)'
      BY <1>2 DEF HandlesHeld
    <2>1. HandleGood(t, h)
      BY DEF Good, HandlesHeld
    <2>2. /\ open_file_table[h].of_inumber \in Inumbers /\ open_file_table[h].of_inumber # i
          /\ Named(t, open_file_table[h].of_inumber)
      BY <1>3, <2>1, NamedInode DEF HandleGood
    <2> QED
      BY <1>2, <1>5, <1>6, <2>1, <2>2 DEF HandleGood
  <1>20. Typed'
    BY <1>2, <1>5, <1>10, NoCallTyped, TypedParts, GoTyped
  <1> QED
    BY <1>2, <1>10, <1>11, <1>12, <1>13, <1>14, <1>15, <1>17, <1>18, <1>19, <1>20 DEF Fine, Good

-----------------------------------------------------------------------------
(* The steps of tfs_open and tfs_write on the blocks of a file.            *)

LEMMA OpenUnderLockFine ==
  ASSUME Typed, EntriesOwned, NEW t \in Threads, Good(t), pc[t] \in {"o_first", "o_second"},
         ~IsSoft(loc[t].inum), OpenUnderLock(t),
         UNCHANGED <<freeinode_ts, dir_entry, fs_data, fileVars, locks, died, callerVars>>
  PROVE  Fine(t) /\ Saves(t)
  <1> DEFINE c == loc[t]
  <1>1. PICK i, a : i = c.inum /\ a = inode_table[i].i_data_block
    OBVIOUS
  <1>2. PICK cut \in BOOLEAN : cut <=> "TRUNC" \in c.mode /\ inode_table[i].i_size > 0
    OBVIOUS
  <1>3. PICK o : o = IF "APPEND" \in c.mode THEN inode_table'[i].i_size ELSE 0
    OBVIOUS
  <1>4. /\ c \in Call /\ Plain(t) /\ ~Unlocking(t)
        /\ UNCHANGED <<freeinode_ts, dir_entry, fs_data, free_open_file_entries, open_file_table,
                       inode_lock, lock_file_entries, died, calls, handles, seen>>
    BY DEF Typed, Plain, Unlocking, fileVars, locks, callerVars
  <1>5. /\ free_blocks' = IF cut THEN Free(free_blocks, a) ELSE free_blocks
        /\ inode_table' = IF cut THEN [inode_table EXCEPT ![i].i_size = 0] ELSE inode_table
        /\ Go(t, "o_add", [c EXCEPT !.offset = o])
    BY <1>1, <1>2, <1>3 DEF OpenUnderLock
  <1>6. /\ c.op = "open" /\ i \in Inumbers /\ Named(t, i) /\ ~IsSoft(i) /\ c.slot = 0
        /\ cut => handles[t] = {}
    BY <1>1, <1>2 DEF Good, AtLabel, Opening, Idling, NothingOpen
  <1>7. /\ inode_table' \in [Inumbers -> Inode]
        /\ inode_table'[i].i_size = IF cut THEN 0 ELSE inode_table[i].i_size
        /\ \A j \in Inumbers : j # i \/ ~cut => inode_table'[j] = inode_table[j]
        /\ \A j \in Inumbers : /\ inode_table'[j].cnt_hardlinks = inode_table[j].cnt_hardlinks
                               /\ inode_table'[j].i_data_block = inode_table[j].i_data_block
                               /\ IsSoft(j)' <=> IsSoft(j)
    <2>1. CASE ~cut
      BY <1>5, <2>1, TypedParts DEF IsSoft
    <2>2. CASE cut
      <3> DEFINE new == [inode_table[i] EXCEPT !.i_size = 0]
      <3>1. inode_table' = [inode_table EXCEPT ![i] = new]
        BY <1>5, <2>2
      <3>2. inode_table[i] \in Inode
        BY <1>6, TypedParts
      <3>3. /\ new \in Inode /\ new.i_size = 0
            /\ new.cnt_hardlinks = inode_table[i].cnt_hardlinks
            /\ new.i_data_block = inode_table[i].i_data_block
            /\ new.is_softlink = inode_table[i].is_softlink
        BY <3>2, SizeChange
      <3> HIDE DEF new
      <3> QED
        BY <1>6, <2>2, <3>1, <3>3, InodeChange DEF IsSoft
    <2> QED
      BY <2>1, <2>2
  <1>8. o \in {0, 1} /\ o <= inode_table'[i].i_size
    <2>1. inode_table'[i].i_size \in {0, 1}
      BY <1>6, <1>7 DEF Inode
    <2> QED
      BY <1>3, <2>1
  <1> DEFINE v == [c EXCEPT !.offset = o]
  <1>9. /\ v \in Call /\ v.inum = i /\ v.op = "open" /\ v.mode = c.mode /\ v.slot = 0 /\ v.offset = o
    <2>1. o \in Offsets
      BY <1>8 DEF Offsets
    <2> QED
      BY <1>1, <1>4, <1>6, <2>1 DEF Call
  <1>10. Go(t, "o_add", v)
    BY <1>5
  <1> HIDE DEF v
  <1>11. /\ pc' \in [Threads -> Labels] /\ loc' \in [Threads -> Call]
         /\ pc'[t] = "o_add" /\ loc'[t] = v
         /\ \A u \in Threads \ {t} : pc'[u] = pc[u] /\ loc'[u] = loc[u]
    BY <1>9, <1>10, GoWhere DEF Labels
  <1>12. \A j : Named(t, j)' <=> Named(t, j)
    BY <1>4, SameNames
  <1>13. /\ ~Fills(t) /\ \A j : Owns(t, j) <=> Named(t, j)
         /\ \A j : Sized(t, j) <=> Named(t, j) /\ inode_table[j].i_size > 0
    BY <1>4, PlainOwns
  <1>14. /\ Plain(t)' /\ ~Fills(t)' /\ \A j : Owns(t, j)' <=> Owns(t, j)
         /\ \A j : Sized(t, j)' <=> Named(t, j) /\ inode_table'[j].i_size > 0
    BY <1>11, <1>12, <1>13 DEF Plain, Unnamed, Fills, Owns, Holds, Sized
  <1>15. \A j \in Inumbers : Sized(t, j)' <=> Sized(t, j) /\ ~(cut /\ j = i)
    BY <1>7, <1>13, <1>14
  <1>16. cut => /\ a \in Blocks /\ Uses(t, a)
                /\ \A j \in Inumbers : Sized(t, j) /\ inode_table[j].i_data_block = a => j = i
    BY <1>1, <1>2, <1>6, <1>13 DEF Good, OwnContents, ClaimsBlock, Uses
  <1>17. /\ cut => free_blocks'[a] = "FREE"
         /\ \A b \in Blocks : free_blocks'[b] # free_blocks[b] => cut /\ b = a
         /\ free_blocks' \in [Blocks -> {"FREE", "TAKEN"}]
    BY <1>5, <1>16, TypedParts DEF Free
  <1>18. \A b : Uses(t, b)' => Uses(t, b)
    BY <1>7, <1>14, <1>15 DEF Uses
  <1>19. \A b : Uses(t, b) => Uses(t, b)' \/ (cut /\ b = a)
    BY <1>1, <1>7, <1>13, <1>15 DEF Uses
  <1>20. Confined(t)
    BY <1>4, <1>6, <1>7, <1>11, <1>13, <1>16, <1>17 DEF Confined
  <1>21. Gains(t) /\ Saves(t)
    BY <1>4, <1>14, <1>17, <1>18, <1>19 DEF Gains, Saves, Live
  <1>22. /\ NamesOnce(t)' /\ CountedFor(t)' /\ LinksSized(t)'
         /\ \A n \in Mine(t) : NotSoft(n)' <=> NotSoft(n)
    <2>1. \A j \in Inumbers : IsSoft(j) => inode_table'[j].i_size = inode_table[j].i_size
      BY <1>6, <1>7
    <2> QED
      BY <1>4, <1>7, <1>11, <2>1, KeepsNames
  <1>23. OwnsLive(t)'
    BY <1>4, <1>14 DEF Good, OwnsLive, Live
  <1>24. OwnContents(t)'
    <2>1. ASSUME NEW j \in Inumbers, Sized(t, j)'
          PROVE  free_blocks'[inode_table[j].i_data_block] = free_blocks[inode_table[j].i_data_block]
      BY <1>15, <1>16, <1>17, <2>1 DEF Good, OwnContents, ClaimsBlock
    <2> QED
      BY <1>4, <1>7, <1>14, <1>15, <1>22, <2>1, KeepsContents
  <1>25. HandlesHeld(t)'
    BY <1>4, <1>6, <1>7, KeepsHandles
  <1>26. LocksHeld(t)' /\ NothingOpen(t)'
    BY <1>4, <1>6, <1>9, <1>11, UnlocksAll DEF Good, NothingOpen
  <1>27. AtLabel(t)'
    BY <1>6, <1>7, <1>8, <1>9, <1>11, <1>12
       DEF AtLabel, Idling, Searching, Opening, Creating, Linking, Unlinking, OnHandle, Fills
  <1>28. Typed'
    <2>1. "o_add" \in Labels
      BY DEF Labels
    <2> QED
      BY <1>4, <1>7, <1>9, <1>10, <1>17, <2>1, TypedParts, GoTyped
  <1> QED
    BY <1>4, <1>20, <1>21, <1>22, <1>23, <1>24, <1>25, <1>26, <1>27, <1>28 DEF Fine, Good

LEMMA OpenFirstFine ==
  ASSUME Typed, EntriesOwned, NEW t \in Threads, Good(t), OpenFirst(t)
  PROVE  Fine(t) /\ Saves(t)
  <1>1. CASE IsSoft(loc[t].inum)
    BY <1>1, OpenFirstSoftFine
  <1>2. CASE ~IsSoft(loc[t].inum)
    <2>1. /\ pc[t] \in {"o_first", "o_second"} /\ OpenUnderLock(t)
          /\ UNCHANGED <<freeinode_ts, dir_entry, fs_data, fileVars, locks, died, callerVars>>
      BY <1>2 DEF OpenFirst, IsSoft, At
    <2> QED
      BY <1>2, <2>1, OpenUnderLockFine
  <1> QED
    BY <1>1, <1>2

LEMMA OpenSecondFine ==
  ASSUME Typed, EntriesOwned, NEW t \in Threads, Good(t), OpenSecond(t)
  PROVE  Fine(t) /\ Saves(t)
  <1>1. /\ pc[t] = "o_second" /\ OpenUnderLock(t)
        /\ UNCHANGED <<freeinode_ts, dir_entry, fs_data, fileVars, locks, died, callerVars>>
    BY DEF OpenSecond, At
  <1>2. ~IsSoft(loc[t].inum)
    BY <1>1 DEF Good, AtLabel, Opening
  <1> QED
    BY <1>1, <1>2, OpenUnderLockFine

LEMMA WritePicksBlockFine ==
  ASSUME Typed, Shared, NEW t \in Threads, Good(t), WritePicksBlock(t)
  PROVE  Fine(t) /\ Saves(t)
  <1> DEFINE c == loc[t]
  <1>1. PICK i : i = c.inum
    OBVIOUS
  <1>2. /\ pc[t] = "w_block" /\ c \in Call /\ Plain(t) /\ ~Unlocking(t) /\ EntriesOwned
        /\ UNCHANGED <<freeinode_ts, dir_entry, fs_data, free_open_file_entries, open_file_table,
                       inode_lock, lock_file_entries, died>>
    BY DEF WritePicksBlock, At, Typed, Plain, Unlocking, Shared, fileVars, locks
  <1>3. /\ c.fhandle \in handles[t] /\ c.fhandle \in Handles /\ c.slot = 0
        /\ i = open_file_table[c.fhandle].of_inumber
        /\ Named(t, i) /\ ~IsSoft(i) /\ i \in Inumbers
        /\ open_file_table[c.fhandle].of_offset \in 0 .. 2
    <2>1. c.fhandle \in handles[t] /\ c.slot = 0 /\ i = open_file_table[c.fhandle].of_inumber
      BY <1>1, <1>2 DEF Good, AtLabel, OnHandle, Idling
    <2>2. c.fhandle \in Handles /\ HandleGood(t, c.fhandle)
      BY <2>1, TypedParts DEF Good, HandlesHeld
    <2> QED
      BY <2>1, <2>2, TypedParts DEF HandleGood
  <1>4. CASE Return(t) /\ UNCHANGED <<inode_table, free_blocks>>
    <2>1. UNCHANGED <<tables, lock_file_entries, died>>
      BY <1>2, <1>4 DEF tables, inodeVars, blockVars, fileVars
    <2> QED
      BY <1>2, <1>4, <2>1, UnlocksAll, ReturnFine
  <1>5. /\ ~Fills(t) /\ \A j : Owns(t, j) <=> Named(t, j)
        /\ \A j : Sized(t, j) <=> Named(t, j) /\ inode_table[j].i_size > 0
    BY <1>2, PlainOwns
  \* What is left to show when the file has a block, or gets one.
  <1>6. ASSUME NEW b \in Blocks \ {0}, Go(t, "w_copy", [c EXCEPT !.block = b]),
               UNCHANGED <<calls, handles, seen>>,
               ~(open_file_table[c.fhandle].of_offset > 0),
               /\ inode_table' \in [Inumbers -> Inode]
               /\ inode_table'[i].i_data_block = b
               /\ \A j \in Inumbers \ {i} : inode_table'[j] = inode_table[j]
               /\ \A j \in Inumbers : /\ inode_table'[j].i_size = inode_table[j].i_size
                                      /\ inode_table'[j].cnt_hardlinks = inode_table[j].cnt_hardlinks
                                      /\ IsSoft(j)' <=> IsSoft(j),
               /\ free_blocks' \in [Blocks -> {"FREE", "TAKEN"}]
               /\ free_blocks'[b] = "TAKEN"
               /\ \A a \in Blocks \ {b} : free_blocks'[a] = free_blocks[a],
               free_blocks[b] = "FREE" \/ (Sized(t, i) /\ inode_table[i].i_data_block = b),
               Sized(t, i) => inode_table[i].i_data_block = b
        PROVE  Fine(t) /\ Saves(t)
    <2> DEFINE v == [c EXCEPT !.block = b]
    <2>1. /\ v \in Call /\ v.inum = i /\ v.op = c.op /\ v.mode = c.mode /\ v.slot = 0
          /\ v.fhandle = c.fhandle /\ v.block = b
      BY <1>1, <1>2, <1>3, SomeKinds DEF Call
    <2>2. Go(t, "w_copy", v)
      BY <1>6
    <2> HIDE DEF v
    <2>3. /\ pc' \in [Threads -> Labels] /\ loc' \in [Threads -> Call]
          /\ pc'[t] = "w_copy" /\ loc'[t] = v
          /\ \A u \in Threads \ {t} : pc'[u] = pc[u] /\ loc'[u] = loc[u]
      BY <2>1, <2>2, GoWhere DEF Labels
    <2>4. \A j : Named(t, j)' <=> Named(t, j)
      BY <1>2, SameNames
    <2>5. Fills(t)' /\ \A j : Owns(t, j)' <=> Owns(t, j)
      BY <1>5, <2>3, <2>4 DEF Unnamed, Fills, Owns, Holds
    <2>6. \A j \in Inumbers : Sized(t, j)' <=> Sized(t, j)
      BY <1>5, <1>6, <2>3, <2>5 DEF Sized
    <2>7. \A j \in Inumbers : Sized(t, j) => inode_table'[j].i_data_block = inode_table[j].i_data_block
      BY <1>6
    <2>8. \A a : Uses(t, a)' <=> Uses(t, a) \/ a = b
      BY <1>3, <1>5, <1>6, <2>1, <2>3, <2>5, <2>6, <2>7 DEF Uses
    <2>9. Uses(t, b) \/ free_blocks[b] = "FREE"
      BY <1>3, <1>6 DEF Uses
    <2>10. Confined(t)
      BY <1>2, <1>3, <1>5, <1>6, <2>3, <2>9 DEF Confined
    <2>11. Gains(t)
      BY <1>2, <1>6, <2>5, <2>8, <2>9 DEF Gains, Live
    <2>12. Saves(t)
      BY <1>6, <2>8 DEF Saves
    <2>13. /\ NamesOnce(t)' /\ CountedFor(t)' /\ LinksSized(t)'
           /\ \A n \in Mine(t) : NotSoft(n)' <=> NotSoft(n)
      BY <1>2, <1>6, <2>3, KeepsNames
    <2>14. OwnsLive(t)'
      BY <1>2, <2>5 DEF Good, OwnsLive, Live
    <2>15. OwnContents(t)'
      <3>1. ASSUME NEW j \in Inumbers, Sized(t, j)
            PROVE  LET a == inode_table[j].i_data_block
                   IN  free_blocks'[a] = free_blocks[a] /\ (a = b => j = i)
        BY <1>3, <1>6, <3>1 DEF Good, OwnContents, ClaimsBlock
      <3> QED
        BY <1>2, <1>6, <2>1, <2>3, <2>6, <2>7, <2>13, <3>1, KeepsContents
    <2>16. HandlesHeld(t)'
      BY <1>2, <1>6, KeepsHandles
    <2>17. LocksHeld(t)' /\ NothingOpen(t)'
      BY <1>2, <1>6, <2>1, <2>3, UnlocksAll DEF Good, NothingOpen
    <2>18. OnHandle(t)'
      BY <1>2, <1>3, <1>6, <2>1, <2>3 DEF OnHandle
    <2>19. AtLabel(t)'
      BY <1>6, <2>1, <2>3, <2>18
         DEF AtLabel, Idling, Searching, Opening, Creating, Linking, Unlinking
    <2>20. Typed'
      <3>1. "w_copy" \in Labels
        BY DEF Labels
      <3> QED
        BY <1>2, <1>6, <2>1, <2>2, <3>1, TypedParts, GoTyped
    <2> QED
      BY <1>2, <2>10, <2>11, <2>12, <2>13, <2>14, <2>15, <2>16, <2>17, <2>19, <2>20 DEF Fine, Good
  <1>7. CASE /\ ~(open_file_table[c.fhandle].of_offset > 0) /\ inode_table[i].i_size > 0
             /\ Go(t, "w_copy", [c EXCEPT !.block = inode_table[i].i_data_block])
             /\ UNCHANGED <<inode_table, free_blocks, callerVars>>
    <2>1. PICK b : b = inode_table[i].i_data_block
      OBVIOUS
    <2>2. Sized(t, i)
      BY <1>3, <1>5, <1>7
    <2>3. b \in Blocks \ {0} /\ free_blocks[b] = "TAKEN"
      BY <1>3, <2>1, <2>2 DEF Good, OwnContents, ClaimsBlock
    <2>4. /\ Go(t, "w_copy", [c EXCEPT !.block = b]) /\ UNCHANGED <<calls, handles, seen>>
          /\ \A j \in Inumbers : IsSoft(j)' <=> IsSoft(j)
      BY <1>7, <2>1 DEF callerVars, IsSoft
    <2> QED
      BY <1>6, <1>7, <2>1, <2>2, <2>3, <2>4, TypedParts
  <1>8. ASSUME NEW b \in Blocks,
               ~(open_file_table[c.fhandle].of_offset > 0), inode_table[i].i_size = 0,
               IsFirstFree(free_blocks, b), free_blocks' = Take(free_blocks, b),
               inode_table' = [inode_table EXCEPT ![i].i_data_block = b],
               Go(t, "w_copy", [c EXCEPT !.block = b]), UNCHANGED callerVars
        PROVE  Fine(t) /\ Saves(t)
    <2>1. /\ b # 0 /\ free_blocks[b] = "FREE" /\ free_blocks'[b] = "TAKEN"
          /\ \A a \in Blocks \ {b} : free_blocks'[a] = free_blocks[a]
          /\ free_blocks' \in [Blocks -> {"FREE", "TAKEN"}]
      BY <1>8, FirstFreeBlock
    <2>2. /\ inode_table' \in [Inumbers -> Inode]
          /\ inode_table'[i].i_data_block = b
          /\ \A j \in Inumbers \ {i} : inode_table'[j] = inode_table[j]
          /\ \A j \in Inumbers : /\ inode_table'[j].i_size = inode_table[j].i_size
                                 /\ inode_table'[j].cnt_hardlinks = inode_table[j].cnt_hardlinks
                                 /\ IsSoft(j)' <=> IsSoft(j)
      <3> DEFINE new == [inode_table[i] EXCEPT !.i_data_block = b]
      <3>1. inode_table' = [inode_table EXCEPT ![i] = new]
        BY <1>8
      <3>2. inode_table[i] \in Inode
        BY <1>3, TypedParts
      <3>3. /\ new \in Inode /\ new.i_data_block = b
            /\ new.cnt_hardlinks = inode_table[i].cnt_hardlinks /\ new.i_size = inode_table[i].i_size
            /\ new.is_softlink = inode_table[i].is_softlink
        BY <3>2, BlockChange
      <3> HIDE DEF new
      <3> QED
        BY <1>3, <3>1, <3>3, InodeChange DEF IsSoft
    <2>3. ~Sized(t, i) /\ UNCHANGED <<calls, handles, seen>>
      BY <1>5, <1>8 DEF callerVars
    <2> QED
      BY <1>6, <1>8, <2>1, <2>2, <2>3
  <1> QED
    BY <1>1, <1>4, <1>7, <1>8 DEF WritePicksBlock

LEMMA WriteCopiesFine ==
  ASSUME Typed, EntriesOwned, NEW t \in Threads, Good(t), WriteCopies(t)
  PROVE  Fine(t) /\ Saves(t)
  <1>1. PICK i, b, h : i = loc[t].inum /\ b = loc[t].block /\ h = loc[t].fhandle
    OBVIOUS
  <1>2. /\ pc[t] = "w_copy" /\ ~Unlocking(t) /\ Go(t, "idle", NoCall)
        /\ UNCHANGED <<freeinode_ts, dir_entry, free_blocks, free_open_file_entries, inode_lock,
                       lock_file_entries, died, calls, handles, seen>>
    BY DEF WriteCopies, At, Return, Unlocking, callerVars, locks
  <1>3. /\ h \in handles[t] /\ h \in Handles /\ i = open_file_table[h].of_inumber
        /\ open_file_table[h].of_offset = 0 /\ inode_table[i].i_data_block = b
        /\ Named(t, i) /\ ~IsSoft(i) /\ i \in Inumbers
        /\ b \in Blocks \ {0} /\ free_blocks[b] = "TAKEN" /\ inode_table[i].i_size \in {0, 1}
    <2>1. /\ h \in handles[t] /\ i = open_file_table[h].of_inumber
          /\ open_file_table[h].of_offset = 0 /\ inode_table[i].i_data_block = b
          /\ b \in Blocks \ {0} /\ free_blocks[b] = "TAKEN"
      BY <1>1, <1>2 DEF Good, AtLabel, OnHandle, Creating, Fills
    <2>2. h \in Handles /\ HandleGood(t, h)
      BY <2>1, TypedParts DEF Good, HandlesHeld
    <2>3. Named(t, i) /\ ~IsSoft(i) /\ i \in Inumbers
      BY <2>1, <2>2, TypedParts DEF HandleGood
    <2> QED
      BY <2>1, <2>2, <2>3, InodeFields
  <1>4. /\ fs_data' = [fs_data EXCEPT ![b] = t]
        /\ open_file_table' = [open_file_table EXCEPT ![h].of_offset = 1]
        /\ inode_table' = [inode_table EXCEPT ![i].i_size = 1]
    <2>1. PICK at, end, size : /\ end = open_file_table[h].of_offset + 1 /\ at = b + end - 1
                               /\ size = IF end > inode_table[i].i_size THEN end
                                                                       ELSE inode_table[i].i_size
      OBVIOUS
    <2>2. /\ fs_data' = [fs_data EXCEPT ![at] = t]
          /\ open_file_table' = [open_file_table EXCEPT ![h].of_offset = end]
          /\ inode_table' = [inode_table EXCEPT ![i].i_size = size]
      BY <1>1, <2>1 DEF WriteCopies
    <2>3. at = b /\ end = 1 /\ size = 1
      BY <1>3, <2>1 DEF Blocks
    <2> QED
      BY <2>2, <2>3
  <1>5. /\ pc' \in [Threads -> Labels] /\ loc' \in [Threads -> Call]
        /\ pc'[t] = "idle" /\ loc'[t] = NoCall
        /\ \A u \in Threads \ {t} : pc'[u] = pc[u] /\ loc'[u] = loc[u]
    BY <1>2, GoWhere, NoCallTyped DEF Labels
  <1>6. /\ inode_table' \in [Inumbers -> Inode]
        /\ inode_table'[i].i_size = 1
        /\ \A j \in Inumbers \ {i} : inode_table'[j] = inode_table[j]
        /\ \A j \in Inumbers : /\ inode_table'[j].cnt_hardlinks = inode_table[j].cnt_hardlinks
                               /\ inode_table'[j].i_data_block = inode_table[j].i_data_block
                               /\ IsSoft(j)' <=> IsSoft(j)
    <2> DEFINE new == [inode_table[i] EXCEPT !.i_size = 1]
    <2>1. inode_table' = [inode_table EXCEPT ![i] = new]
      BY <1>4
    <2>2. inode_table[i] \in Inode
      BY <1>3, TypedParts
    <2>3. /\ new \in Inode /\ new.i_size = 1
          /\ new.cnt_hardlinks = inode_table[i].cnt_hardlinks
          /\ new.i_data_block = inode_table[i].i_data_block
          /\ new.is_softlink = inode_table[i].is_softlink
      BY <2>2, SizeChange
    <2> HIDE DEF new
    <2> QED
      BY <1>3, <2>1, <2>3, InodeChange DEF IsSoft
  <1>7. /\ fs_data'[b] = t /\ \A a \in Blocks \ {b} : fs_data'[a] = fs_data[a]
        /\ fs_data' \in [Blocks -> Threads \cup Names \cup {Garbage}]
        /\ open_file_table'[h].of_inumber = i /\ open_file_table'[h].of_offset = 1
        /\ \A g \in Handles \ {h} : open_file_table'[g] = open_file_table[g]
        /\ open_file_table' \in [Handles -> [of_inumber : Inumbers, of_offset : 0 .. 2]]
    BY <1>3, <1>4, TypedParts
  <1>8. \A j : Named(t, j)' <=> Named(t, j)
    BY <1>2, SameNames
  <1>9. /\ Fills(t) /\ \A j : Owns(t, j) <=> Named(t, j)
        /\ \A j : Sized(t, j) <=> Named(t, j) /\ inode_table[j].i_size > 0
    BY <1>2 DEF Unnamed, Fills, Owns, Holds, Sized
  <1>10. /\ ~Fills(t)' /\ \A j : Owns(t, j)' <=> Owns(t, j)
         /\ \A j \in Inumbers : Sized(t, j)' <=> Sized(t, j) \/ j = i
    BY <1>3, <1>5, <1>6, <1>8, <1>9, IdleOwns
  <1>11. \A a : Uses(t, a)' <=> Uses(t, a)
    BY <1>1, <1>3, <1>6, <1>9, <1>10 DEF Uses
  <1>12. /\ AtLabel(t)' /\ NothingOpen(t)' /\ LocksHeld(t)'
         /\ inode_lock' \in [Inumbers -> Threads \cup {Nobody}]
         /\ \A j \in Inumbers : inode_lock'[j] \in {inode_lock[j], t, Nobody}
    BY <1>2, <1>5, IdleAtLabel, UnlocksAll
  <1>13. Confined(t)
    <2>1. Uses(t, b) /\ Owns(t, i)
      BY <1>1, <1>3, <1>9 DEF Uses
    <2> QED
      BY <1>2, <1>3, <1>5, <1>6, <1>7, <1>12, <2>1 DEF Confined
  <1>14. Gains(t) /\ Saves(t)
    BY <1>2, <1>10, <1>11 DEF Gains, Saves, Live
  <1>15. /\ NamesOnce(t)' /\ CountedFor(t)' /\ LinksSized(t)'
         /\ \A m \in Mine(t) : NotSoft(m)' <=> NotSoft(m)
    <2>1. \A j \in Inumbers : IsSoft(j) => inode_table'[j].i_size = inode_table[j].i_size
      BY <1>3, <1>6
    <2> QED
      BY <1>2, <1>5, <1>6, <2>1, KeepsNames
  <1>16. OwnsLive(t)'
    BY <1>2, <1>10 DEF Good, OwnsLive, Live
  <1>17. OwnContents(t)'
    <2>1. ASSUME NEW j \in Inumbers, j # i, Sized(t, j)
          PROVE  /\ ClaimsBlock(t, j) /\ inode_table[j].i_data_block # b
                 /\ inode_table'[j] = inode_table[j]
      <3>1. ClaimsBlock(t, j)
        BY <2>1 DEF Good, OwnContents
      <3> QED
        BY <1>1, <1>6, <1>9, <2>1, <3>1 DEF ClaimsBlock
    <2>2. ASSUME NEW j \in Inumbers, j # i, Sized(t, j) PROVE ClaimsBlock(t, j)'
      <3>1. \A k \in Inumbers : Sized(t, k)' /\ inode_table'[k].i_data_block = inode_table'[j].i_data_block
              => k = j
        BY <1>3, <1>6, <1>10, <2>1, <2>2 DEF ClaimsBlock
      <3>2. IsSoft(j) => \E m \in Mine(t) : fs_data[inode_table[j].i_data_block] = m /\ NotSoft(m)'
        BY <1>15, <2>1, <2>2 DEF ClaimsBlock
      <3>3. /\ fs_data'[inode_table[j].i_data_block] = fs_data[inode_table[j].i_data_block]
            /\ IsSoft(j)' <=> IsSoft(j)
        BY <1>6, <1>7, <2>1, <2>2 DEF ClaimsBlock
      <3> QED
        BY <1>2, <1>10, <2>1, <2>2, <3>1, <3>2, <3>3 DEF ClaimsBlock, Mine
    <2>3. ClaimsBlock(t, i)'
      <3>1. \A k \in Inumbers : Sized(t, k)' /\ inode_table'[k].i_data_block = b => k = i
        BY <1>6, <1>10, <2>1
      <3> QED
        BY <1>2, <1>3, <1>6, <1>7, <1>10, <3>1 DEF ClaimsBlock
    <2> QED
      BY <1>10, <2>2, <2>3 DEF OwnContents
  <1>18. HandlesHeld(t)'
    <2> SUFFICES ASSUME NEW g \in handles[t] PROVE HandleGood(t, g)'
      BY <1>2 DEF HandlesHeld
    <2>1. g \in Handles /\ HandleGood(t, g)
      BY TypedParts DEF Good, HandlesHeld
    <2>2. CASE g = h
      BY <1>2, <1>3, <1>6, <1>7, <1>8, <2>1, <2>2 DEF HandleGood
    <2>3. CASE g # h
      <3>1. PICK k : k = open_file_table[g].of_inumber
        OBVIOUS
      <3>2. /\ k \in Inumbers /\ open_file_table[g].of_offset \in 0 .. 2
            /\ open_file_table[g].of_offset <= inode_table[k].i_size
            /\ inode_table[k].i_size \in {0, 1}
        BY <2>1, <3>1, TypedParts, InodeFields DEF HandleGood
      <3>3. open_file_table[g].of_offset <= inode_table'[k].i_size
        BY <1>3, <1>6, <3>2
      <3> QED
        BY <1>2, <1>6, <1>7, <1>8, <2>1, <2>3, <3>1, <3>2, <3>3 DEF HandleGood
    <2> QED
      BY <2>2, <2>3
  <1>19. Typed'
    BY <1>2, <1>6, <1>7, <1>12, NoCallTyped, TypedParts, GoTyped
  <1> QED
    BY <1>2, <1>12, <1>13, <1>14, <1>15, <1>16, <1>17, <1>18, <1>19 DEF Fine, Good


-----------------------------------------------------------------------------
(* add_dir_entry.                                                          *)

LEMMA AddsEntryFine ==
  ASSUME Typed, EntriesOwned, NEW t \in Threads, Good(t), AddDirEntry(t),
         loc[t].slot \in DirSlots, InumAt(loc[t].slot) = -1
  PROVE  Fine(t) /\ Saves(t)
  <1> DEFINE c == loc[t]
  <1>1. PICK i, s, n : i = c.inum /\ s = c.slot /\ n = NewName(c)
    OBVIOUS
  <1>2. PICK where : where = CASE c.op = "open" -> "o_add"
                               [] c.op = "link" -> "l_done"
                               [] c.op = "sym_link" -> "s_done"
    OBVIOUS
  <1>3. /\ pc[t] = "add" /\ c \in Call
        /\ UNCHANGED <<freeinode_ts, inode_table, free_blocks, fs_data, free_open_file_entries,
                       open_file_table, inode_lock, lock_file_entries, died, calls, handles, seen>>
        /\ dir_entry' = [dir_entry EXCEPT ![s] = [d_name |-> n, d_inumber |-> i]]
        /\ Go(t, where, [c EXCEPT !.slot = 0])
    BY <1>1, <1>2 DEF AddDirEntry, At, Typed, InumAt, inodeVars, blockVars, fileVars, locks, callerVars
  <1>4. /\ c.op \in {"open", "link", "sym_link"} /\ MayAdd(t)
        /\ n \in Mine(t) /\ NoEntry(n) /\ i \in Inumbers
        /\ c.op # "link" => Blank(t)
        /\ c.op = "link" => Leads(c.name, i) /\ c.name \in Mine(t) /\ ~IsSoft(i)
        /\ c.op = "open" => c.offset = 0
    BY <1>1, <1>3 DEF Good, AtLabel, Creating, MayAdd, LinkFree, Blank
  <1>5. where \in {"o_add", "l_done", "s_done"}
    BY <1>2, <1>4
  <1> DEFINE v == [c EXCEPT !.slot = 0]
  <1>6. /\ v \in Call /\ v.slot = 0 /\ v.op = c.op /\ v.name = c.name /\ v.mode = c.mode
        /\ v.inum = i /\ v.block = c.block /\ v.offset = c.offset
    BY <1>1, <1>3, SomeKinds DEF Call
  <1>7. Go(t, where, v)
    BY <1>3
  <1> HIDE DEF v
  <1>8. /\ pc' \in [Threads -> Labels] /\ loc' \in [Threads -> Call]
        /\ pc'[t] = where /\ loc'[t] = v
        /\ \A u \in Threads \ {t} : pc'[u] = pc[u] /\ loc'[u] = loc[u]
    BY <1>5, <1>6, <1>7, GoWhere DEF Labels
  <1>9. /\ s \in DirSlots /\ dir_entry[s] = FreeEntry /\ NameAt(s) = NoName /\ NoName \notin Mine(t)
    <2>1. dir_entry[s] = FreeEntry
      BY <1>1, ThreadsAssumption DEF EntriesOwned, Inumbers
    <2> QED
      BY <1>1, <2>1, MineReal DEF FreeEntry, NameAt
  <1>10. /\ NameAt(s)' = n /\ InumAt(s)' = i
         /\ \A e \in DirSlots \ {s} : NameAt(e)' = NameAt(e) /\ InumAt(e)' = InumAt(e)
    BY <1>3, <1>9 DEF NameAt, InumAt, Typed, ThreadsTypeOK
  <1>11. /\ \A j : Named(t, j)' <=> Named(t, j) \/ j = i
         /\ \A m \in Mine(t) : \A j : Leads(m, j)' <=> Leads(m, j) \/ (m = n /\ j = i)
    <2>1. \A j : Named(t, j)' <=> Named(t, j) \/ j = i
      BY <1>4, <1>9, <1>10 DEF Named, Mine
    <2>2. \A m \in Mine(t) : \A j : Leads(m, j)' <=> Leads(m, j) \/ (m = n /\ j = i)
      BY <1>4, <1>9, <1>10 DEF Leads
    <2> QED
      BY <2>1, <2>2
  <1>12. /\ EntriesOf(t, i)' = EntriesOf(t, i) \cup {s} /\ s \notin EntriesOf(t, i)
         /\ \A j : j # i => EntriesOf(t, j)' = EntriesOf(t, j)
    <2>1. EntriesOf(t, i)' = EntriesOf(t, i) \cup {s} /\ s \notin EntriesOf(t, i)
      BY <1>4, <1>9, <1>10 DEF EntriesOf, Mine
    <2>2. ASSUME NEW j, j # i PROVE EntriesOf(t, j)' = EntriesOf(t, j)
      BY <1>9, <1>10, <2>2 DEF EntriesOf, Mine
    <2> QED
      BY <2>1, <2>2
  <1>13. Cardinality(EntriesOf(t, i)') = Cardinality(EntriesOf(t, i)) + 1
    BY <1>12, EntriesCount, FS_AddElement
  <1>14. /\ Fills(t) <=> c.op = "sym_link"
         /\ \A j : Owns(t, j) <=> Named(t, j) \/ j = i
         /\ \A j : Sized(t, j) <=> Owns(t, j) /\ inode_table[j].i_size > 0
    <2>1. c.op = "link" => Named(t, i)
      BY <1>4 DEF Named, Leads
    <2> QED
      BY <1>1, <1>3, <2>1 DEF Unnamed, Fills, Owns, Holds, Sized
  <1>15. /\ Fills(t)' <=> Fills(t)
         /\ \A j : Owns(t, j)' <=> Owns(t, j)
         /\ \A j \in Inumbers : Sized(t, j)' <=> Sized(t, j)
    <2>1. Fills(t)' <=> Fills(t)
      BY <1>2, <1>4, <1>5, <1>8, <1>14 DEF Fills
    <2>2. \A j : Owns(t, j)' <=> Owns(t, j)
      BY <1>5, <1>8, <1>11, <1>14 DEF Unnamed, Owns, Holds
    <2>3. \A j \in Inumbers : Sized(t, j)' <=> Sized(t, j)
      BY <1>3, <1>5, <1>8, <1>14, <2>2 DEF Sized
    <2> QED
      BY <2>1, <2>2, <2>3
  <1>16. \A b : Uses(t, b)' <=> Uses(t, b)
    BY <1>3, <1>6, <1>8, <1>15 DEF Uses
  <1>17. Confined(t)
    BY <1>3, <1>4, <1>8, <1>9, <1>10 DEF Confined, NameAt, InumAt, Typed, ThreadsTypeOK
  <1>18. Gains(t) /\ Saves(t)
    BY <1>3, <1>15, <1>16 DEF Gains, Saves, Live
  <1>19. NamesOnce(t)'
    <2>1. NamesOnce(t)
      BY DEF Good
    <2>2. \A e \in DirSlots : NameAt(e) # n
      BY <1>4 DEF NoEntry
    <2> QED
      BY <1>10, <2>1, <2>2 DEF NamesOnce, Mine
  <1>20. OwnsLive(t)'
    BY <1>3, <1>15 DEF Good, OwnsLive, Live
  <1>21. CountedFor(t)'
    <2>1. SUFFICES ASSUME NEW j \in Inumbers, Named(t, j) \/ j = i
                   PROVE  inode_table[j].cnt_hardlinks =
                            Cardinality(EntriesOf(t, j)') + 0
                              - (IF where = "l_done" /\ i = j THEN 1 ELSE 0)
      BY <1>3, <1>5, <1>6, <1>8, <1>11 DEF CountedFor
    <2>2. Named(t, j) =>
            inode_table[j].cnt_hardlinks = Cardinality(EntriesOf(t, j)) + 0 - 0
      BY <1>3 DEF Good, CountedFor
    <2>3. CASE j # i
      BY <1>12, <2>1, <2>2, <2>3
    <2>4. CASE j = i /\ c.op = "link"
      <3>1. Named(t, i)
        BY <1>4, <2>4 DEF Named, Leads
      <3> QED
        BY <1>2, <1>13, <2>2, <2>4, <3>1, EntriesCount
    <2>5. CASE j = i /\ c.op # "link"
      <3>1. ~Named(t, i) /\ inode_table[i].cnt_hardlinks = 1
        BY <1>1, <1>4, <2>5 DEF Blank
      <3>2. where # "l_done"
        BY <1>2, <1>4, <2>5
      <3> QED
        BY <1>13, <2>5, <3>1, <3>2, EntriesCount
    <2> QED
      BY <2>3, <2>4, <2>5
  <1>22. c.op # "sym_link" => ~IsSoft(i)
    BY <1>1, <1>4 DEF Blank, IsSoft
  <1>23. c.op = "sym_link" =>
           /\ c.name \in Mine(t) /\ c.name # n /\ Mine(t) = {c.name, n}
           /\ NotSoft(c.name) /\ inode_table[i].i_size = 0 /\ IsSoft(i)
    <2>1. SUFFICES ASSUME c.op = "sym_link"
                   PROVE  /\ c.name \in Mine(t) /\ c.name # n /\ Mine(t) = {c.name, n}
                          /\ NotSoft(c.name) /\ inode_table[i].i_size = 0 /\ IsSoft(i)
      OBVIOUS
    <2>2. c.name \in Mine(t) /\ c.name # n /\ LeadsToFile(c.name)
      BY <1>1, <1>4, <2>1 DEF MayAdd, LinkFree, NewName
    <2>3. Mine(t) = {c.name, n}
      BY <1>4, <2>2 DEF Mine
    <2>4. NotSoft(c.name)
      BY <2>2 DEF Good, NamesOnce, LeadsToFile, NotSoft, Leads
    <2>5. inode_table[i].i_size = 0 /\ IsSoft(i)
      BY <1>1, <1>4, <2>1 DEF Blank, IsSoft
    <2> QED
      BY <2>2, <2>3, <2>4, <2>5
  <1>24. OwnContents(t)'
    <2>1. ASSUME NEW j \in Inumbers, Sized(t, j), IsSoft(j), NEW m \in Mine(t), NotSoft(m)
          PROVE  NotSoft(m)'
      <3>1. c.op # "sym_link"
        <4>1. SUFFICES ASSUME c.op = "sym_link" PROVE FALSE
          OBVIOUS
        <4>2. Named(t, j) /\ j # i
          BY <1>14, <1>23, <2>1, <4>1
        <4>3. Leads(c.name, j)
          BY <1>4, <1>23, <4>1, <4>2 DEF Named, Leads, NoEntry
        <4> QED
          BY <1>23, <2>1, <4>1, <4>3 DEF NotSoft
      <3> QED
        BY <1>3, <1>11, <1>22, <2>1, <3>1 DEF NotSoft, IsSoft
    <2>2. \A j : IsSoft(j)' <=> IsSoft(j)
      BY <1>3 DEF IsSoft
    <2>3. ASSUME NEW j \in Inumbers, Sized(t, j), Fills(t)', loc'[t].block = inode_table[j].i_data_block
          PROVE  FALSE
      <3>1. ClaimsBlock(t, j) /\ Fills(t) /\ loc[t].block = inode_table[j].i_data_block
        BY <1>6, <1>8, <1>15, <2>3 DEF Good, OwnContents
      <3> QED
        BY <1>3, <3>1 DEF ClaimsBlock
    <2> QED
      BY <1>3, <1>15, <2>1, <2>2, <2>3, KeepsBlocks
  <1>25. LinksSized(t)'
    BY <1>2, <1>3, <1>4, <1>6, <1>8, <1>11, <1>22 DEF Good, LinksSized, IsSoft
  <1>26. HandlesHeld(t)'
    BY <1>3, <1>11 DEF Good, HandlesHeld, HandleGood, IsSoft
  <1>27. NothingOpen(t)'
    BY <1>3, <1>6, <1>8 DEF Good, NothingOpen
  <1>28. LocksHeld(t)'
    BY <1>1, <1>2, <1>3, <1>4, <1>6, <1>8 DEF Good, LocksHeld
  <1>29. AtLabel(t)'
    <2>1. Idling(t)' /\ Searching(t)' /\ Unlinking(t)' /\ OnHandle(t)'
      BY <1>5, <1>6, <1>8 DEF Idling, Searching, Unlinking, OnHandle
    <2>2. Opening(t)'
      <3>1. where = "o_add" => c.op = "open" /\ ~IsSoft(i) /\ 0 <= inode_table[i].i_size
        BY <1>2, <1>4, <1>22, InodeFields
      <3> QED
        BY <1>3, <1>4, <1>5, <1>6, <1>8, <1>11, <3>1 DEF Opening, IsSoft
    <2>3. Linking(t)'
      <3>1. where = "l_done" => ~IsSoft(i)
        BY <1>2, <1>4
      <3> QED
        BY <1>3, <1>4, <1>5, <1>6, <1>8, <1>11, <3>1 DEF Linking, IsSoft
    <2>4. Creating(t)'
      <3>1. where = "s_done" => c.op = "sym_link"
        BY <1>2, <1>4
      <3>2. c.op = "sym_link" =>
              /\ inode_table[i].i_data_block = c.block /\ fs_data[c.block] = c.name
              /\ c.block \in Blocks \ {0} /\ free_blocks[c.block] = "TAKEN"
        BY <1>1, <1>3 DEF Good, AtLabel, Creating, Fills
      <3>3. PICK m : m = c.name
        OBVIOUS
      <3>4. c.op = "sym_link" => m \in Mine(t) /\ m # n /\ NotSoft(m)
        BY <1>23, <3>3
      <3>5. c.op = "sym_link" => NotSoft(m)'
        BY <1>3, <1>11, <3>4 DEF NotSoft, IsSoft
      <3>6. c.op = "sym_link" => NotSoft(loc[t].name)'
        BY <1>6, <1>8, <3>3, <3>5 DEF NotSoft
      <3> QED
        BY <1>3, <1>4, <1>5, <1>6, <1>8, <1>11, <1>14, <1>15, <1>23, <3>1, <3>2, <3>6
           DEF Creating, Mine, IsSoft
    <2> QED
      BY <2>1, <2>2, <2>3, <2>4 DEF AtLabel
  <1>30. Typed'
    <2>1. dir_entry' \in [DirSlots -> [d_name : Names \cup {NoName}, d_inumber : Inumbers \cup {-1}]]
      BY <1>3, <1>4, MineNames DEF Typed, ThreadsTypeOK
    <2>2. \A u \in Threads : loc'[u].slot \in 0 .. MAX_DIR_ENTRIES
      BY <1>8, CallFields DEF Slots
    <2> QED
      BY <1>3, <1>8, <2>1, <2>2 DEF Typed, ThreadsTypeOK
  <1> QED
    BY <1>3, <1>17, <1>18, <1>19, <1>20, <1>21, <1>24, <1>25, <1>26, <1>27, <1>28, <1>29, <1>30
       DEF Fine, Good

\* The entry is used: the search goes on at the next one.
LEMMA AddGoesOnFine ==
  ASSUME Typed, EntriesOwned, NEW t \in Threads, Good(t), AddDirEntry(t),
         loc[t].slot \in DirSlots, InumAt(loc[t].slot) # -1
  PROVE  /\ Fine(t) /\ Saves(t)
         /\ pc'[t] = "add" /\ loc'[t].slot = loc[t].slot + 1 /\ dir_entry' = dir_entry
  <1> DEFINE c == loc[t]
             v == [c EXCEPT !.slot = c.slot + 1]
  <1>1. /\ pc[t] = "add" /\ c \in Call /\ Go(t, "add", v)
        /\ UNCHANGED <<freeinode_ts, inode_table, dir_entry, free_blocks, fs_data,
                       free_open_file_entries, open_file_table, inode_lock, lock_file_entries,
                       died, calls, handles, seen>>
    BY DEF AddDirEntry, At, Typed, InumAt, inodeVars, blockVars, fileVars, locks, callerVars
  <1>2. /\ v \in Call /\ v.slot = c.slot + 1 /\ v.op = c.op /\ v.name = c.name /\ v.link = c.link
        /\ v.mode = c.mode /\ v.inum = c.inum /\ v.block = c.block /\ v.offset = c.offset
    BY <1>1, SomeKinds DEF Call
  <1> HIDE DEF v
  <1>3. /\ pc' \in [Threads -> Labels] /\ loc' \in [Threads -> Call]
        /\ pc'[t] = "add" /\ loc'[t] = v
        /\ \A u \in Threads \ {t} : pc'[u] = pc[u] /\ loc'[u] = loc[u]
    BY <1>1, <1>2, GoWhere DEF Labels
  <1>4. /\ \A j : Named(t, j)' <=> Named(t, j)
        /\ \A j : EntriesOf(t, j)' = EntriesOf(t, j)
        /\ \A n, j : Leads(n, j)' <=> Leads(n, j)
        /\ \A n : NoEntry(n)' <=> NoEntry(n)
        /\ \A n : (NotSoft(n)' <=> NotSoft(n)) /\ (LeadsToFile(n)' <=> LeadsToFile(n))
        /\ \A j : IsSoft(j)' <=> IsSoft(j)
    BY <1>1, SameNames, SameSoft DEF IsSoft
  <1>5. /\ Fills(t)' <=> Fills(t)
        /\ \A j : Owns(t, j)' <=> Owns(t, j)
        /\ \A j : Sized(t, j)' <=> Sized(t, j)
    BY <1>1, <1>2, <1>3, <1>4 DEF Unnamed, Fills, Owns, Holds, Sized
  <1>6. \A b : Uses(t, b)' <=> Uses(t, b)
    BY <1>1, <1>2, <1>3, <1>5 DEF Uses
  <1>7. Confined(t)
    BY <1>1, <1>3 DEF Confined
  <1>8. Gains(t) /\ Saves(t)
    BY <1>1, <1>5, <1>6 DEF Gains, Saves, Live
  <1>9. NamesOnce(t)' /\ CountedFor(t)' /\ LinksSized(t)'
    BY <1>1, <1>3, KeepsNames DEF IsSoft
  <1>10. OwnsLive(t)'
    BY <1>1, <1>5 DEF Good, OwnsLive, Live
  <1>11. OwnContents(t)'
    <2>1. ASSUME NEW j \in Inumbers, Sized(t, j), Fills(t)', loc'[t].block = inode_table[j].i_data_block
          PROVE  FALSE
      <3>1. ClaimsBlock(t, j) /\ Fills(t) /\ loc[t].block = inode_table[j].i_data_block
        BY <1>2, <1>3, <1>5, <2>1 DEF Good, OwnContents
      <3> QED
        BY <1>1, <3>1 DEF ClaimsBlock
    <2> QED
      BY <1>1, <1>4, <1>5, <2>1, KeepsContents
  <1>12. HandlesHeld(t)'
    BY <1>1, <1>4, KeepsHandles
  <1>13. NothingOpen(t)' /\ LocksHeld(t)'
    BY <1>1, <1>2, <1>3 DEF Good, NothingOpen, LocksHeld
  <1>14. AtLabel(t)'
    <2>1. Creating(t)
      BY DEF Good, AtLabel
    <2>2. LinkFree(t) => LinkFree(t)'
      BY <1>2, <1>3, <1>4 DEF LinkFree, Mine
    <2>3. MayAdd(t) => MayAdd(t)'
      BY <1>2, <1>3, <1>4, <2>2 DEF MayAdd, NewName, Mine
    <2>4. Blank(t) => Blank(t)'
      BY <1>1, <1>2, <1>3, <1>4 DEF Blank
    <2>5. Creating(t)'
      BY <1>1, <1>2, <1>3, <1>4, <1>5, <2>1, <2>3, <2>4 DEF Creating
    <2> QED
      BY <1>3, <2>5 DEF AtLabel, Idling, Searching, Opening, Linking, Unlinking, OnHandle
  <1>15. Typed'
    <2>1. \A u \in Threads : loc'[u].slot \in 0 .. MAX_DIR_ENTRIES
      BY <1>3, CallFields DEF Slots
    <2> QED
      BY <1>1, <1>3, <2>1 DEF Typed, ThreadsTypeOK
  <1> QED
    BY <1>1, <1>2, <1>3, <1>7, <1>8, <1>9, <1>10, <1>11, <1>12, <1>13, <1>14, <1>15 DEF Fine, Good

\* The directory is full.
LEMMA AddFullFine ==
  ASSUME Typed, EntriesOwned, NEW t \in Threads, Good(t), AddDirEntry(t),
         loc[t].slot \notin DirSlots
  PROVE  Fine(t) /\ pc'[t] # "add" /\ dir_entry' = dir_entry
  <1> DEFINE c == loc[t]
  <1>1. /\ pc[t] = "add" /\ c \in Call
        /\ UNCHANGED <<tables, lock_file_entries, died>>
        /\ IF c.op = "link" THEN Return(t) ELSE Go(t, "delete", c) /\ UNCHANGED callerVars
        /\ IF c.op = "open" THEN UNCHANGED inode_lock
                            ELSE inode_lock' = [inode_lock EXCEPT ![c.inum] = Nobody]
    BY DEF AddDirEntry, At, Typed, Unlock, tables, locks
  <1>2. UNCHANGED <<freeinode_ts, inode_table, dir_entry, free_blocks, fs_data,
                    free_open_file_entries, open_file_table>>
    BY <1>1 DEF tables, inodeVars, blockVars, fileVars
  <1>3. /\ c.op \in {"open", "link", "sym_link"} /\ MayAdd(t)
        /\ c.op # "link" => Blank(t)
    BY <1>1 DEF Good, AtLabel, Creating
  <1>4. /\ LocksHeld(t)' /\ inode_lock' \in [Inumbers -> Threads \cup {Nobody}]
        /\ \A i \in Inumbers : inode_lock'[i] \in {inode_lock[i], Nobody} /\ inode_lock'[i] # t
    <2>1. \/ inode_lock' = [inode_lock EXCEPT ![loc[t].inum] = Nobody]
          \/ ~Unlocking(t) /\ inode_lock' = inode_lock
      BY <1>1 DEF Unlocking
    <2> QED
      BY <1>1, <2>1, UnlocksAll
  <1>5. CASE c.op = "link"
    <2>1. Plain(t) /\ Return(t)
      BY <1>1, <1>5 DEF Plain
    <2>2. pc'[t] = "idle"
      BY <2>1, GoWhere, NoCallTyped DEF Return, Labels
    <2> QED
      BY <1>1, <1>2, <1>4, <2>1, <2>2, ReturnFine
  <1>6. CASE c.op # "link"
    <2>1. Go(t, "delete", c) /\ UNCHANGED <<calls, handles, seen>>
      BY <1>1, <1>6 DEF callerVars
    <2>2. /\ pc' \in [Threads -> Labels] /\ loc' \in [Threads -> Call]
          /\ pc'[t] = "delete" /\ loc'[t] = c
          /\ \A u \in Threads \ {t} : pc'[u] = pc[u] /\ loc'[u] = loc[u]
      BY <1>1, <2>1, GoWhere DEF Labels
    <2>3. /\ \A j : (Named(t, j)' <=> Named(t, j)) /\ (IsSoft(j)' <=> IsSoft(j))
          /\ \A n : NoEntry(n)' <=> NoEntry(n)
          /\ \A n : NotSoft(n)' <=> NotSoft(n)
      BY <1>2, SameNames, SameSoft DEF IsSoft
    <2>4. /\ ~Fills(t)'
          /\ \A j : Owns(t, j)' <=> Owns(t, j)
          /\ \A j : Sized(t, j)' <=> Sized(t, j)
      BY <1>1, <1>2, <1>6, <2>2, <2>3 DEF Unnamed, Fills, Owns, Holds, Sized
    <2>5. \A b : Uses(t, b)' => Uses(t, b)
      BY <1>2, <2>4 DEF Uses
    <2>6. Confined(t)
      BY <1>1, <1>2, <1>4, <2>1, <2>2 DEF Confined
    <2>7. Gains(t)
      BY <1>2, <2>1, <2>4, <2>5 DEF Gains, Live
    <2>8. NamesOnce(t)' /\ CountedFor(t)' /\ LinksSized(t)'
      BY <1>1, <1>2, <2>2, KeepsNames DEF IsSoft
    <2>9. OwnsLive(t)'
      BY <1>2, <2>4 DEF Good, OwnsLive, Live
    <2>10. OwnContents(t)'
      BY <1>2, <2>3, <2>4, KeepsContents
    <2>11. HandlesHeld(t)'
      BY <1>2, <2>1, <2>3, KeepsHandles
    <2>12. NothingOpen(t)'
      BY <2>1, <2>2 DEF Good, NothingOpen
    <2>13. AtLabel(t)'
      <3>1. /\ c.inum \in Inumbers /\ ~Named(t, c.inum) /\ inode_table[c.inum].i_size = 0
            /\ NewName(c) \in Mine(t) /\ NoEntry(NewName(c)) /\ c.op \in {"open", "sym_link"}
            /\ HeldName(c) = NewName(c)
        BY <1>3, <1>6 DEF Blank, MayAdd, HeldName
      <3>2. PICK n, i : n = HeldName(c) /\ i = c.inum
        OBVIOUS
      <3>3. NoEntry(n)' /\ ~Named(t, i)' /\ inode_table'[i].i_size = 0
        BY <1>2, <2>3, <3>1, <3>2
      <3>4. HeldName(loc'[t]) = n /\ loc'[t].inum = i
        BY <2>2, <3>2
      <3>5. Unlinking(t)'
        BY <2>2, <3>1, <3>2, <3>3, <3>4 DEF Unlinking, Mine, HeldName, NewName, NoEntry, Named
      <3> QED
        BY <2>2, <2>4, <3>5 DEF AtLabel, Idling, Searching, Opening, Creating, Linking, OnHandle
    <2>14. Typed'
      <3>1. "delete" \in Labels
        BY DEF Labels
      <3> QED
        BY <1>1, <1>2, <1>4, <2>1, <3>1, TypedParts, GoTyped
    <2> QED
      BY <1>1, <1>2, <1>4, <2>2, <2>6, <2>7, <2>8, <2>9, <2>10, <2>11, <2>12, <2>13, <2>14
         DEF Fine, Good
  <1> QED
    BY <1>5, <1>6

\* A block is lost when a symbolic link finds the directory full.
LEMMA AddDirEntryFine ==
  ASSUME Typed, EntriesOwned, NEW t \in Threads, Good(t), AddDirEntry(t)
  PROVE  Fine(t) /\ (loc[t].slot \in DirSlots => Saves(t))
  BY AddsEntryFine, AddGoesOnFine, AddFullFine

-----------------------------------------------------------------------------
(* The invariant holds at the start.                                       *)

LEMMA ExistingFiles ==
  ASSUME NEW i \in Int, HasFile(i)
  PROVE  /\ i \in Inumbers /\ i \in Blocks /\ i # 0 /\ i # ROOT_DIR_INUM
         /\ i \in DOMAIN Existing /\ Existing[i] \in Threads /\ i - 1 \in DirSlots
  <1>1. Len(Existing) \in Nat /\ DOMAIN Existing = 1 .. Len(Existing)
    BY ThreadsAssumption
  <1>2. i \in 1 .. Len(Existing)
    BY <1>1 DEF HasFile
  <1> QED
    BY <1>1, <1>2, ThreadsAssumption DEF Inumbers, Blocks, DirSlots, ROOT_DIR_INUM

LEMMA InitNames ==
  ASSUME NamesApart, Init, NEW t \in Threads
  PROVE  /\ \A e \in DirSlots : NameAt(e) \in Mine(t) =>
              HasFile(e + 1) /\ Existing[e + 1] = t /\ InumAt(e) = e + 1
         /\ \A i \in Inumbers : Named(t, i) <=> HasFile(i) /\ Existing[i] = t
         /\ \A i : Owns(t, i) <=> Named(t, i)
         /\ ~Fills(t)
  <1>1. ASSUME NEW e \in DirSlots, NameAt(e) \in Mine(t)
        PROVE  HasFile(e + 1) /\ Existing[e + 1] = t /\ InumAt(e) = e + 1
    <2>1. HasFile(e + 1)
      BY <1>1, MineReal DEF Init, NameAt, FreeEntry
    <2>2. NameAt(e) = File[Existing[e + 1]] /\ InumAt(e) = e + 1
      BY <2>1 DEF Init, NameAt, InumAt
    <2>3. e + 1 \in Int
      BY SomeKinds
    <2>4. Existing[e + 1] \in Threads
      BY <2>1, <2>3, ExistingFiles
    <2>5. Existing[e + 1] = t
      BY <1>1, <2>2, <2>4 DEF NamesApart, Mine
    <2> QED
      BY <2>1, <2>2, <2>5
  <1>2. ASSUME NEW i \in Inumbers
        PROVE  Named(t, i) <=> HasFile(i) /\ Existing[i] = t
    <2>1. ASSUME Named(t, i) PROVE HasFile(i) /\ Existing[i] = t
      BY <1>1, <2>1 DEF Named
    <2>2. ASSUME HasFile(i), Existing[i] = t PROVE Named(t, i)
      <3>1. i \in Int /\ i - 1 \in DirSlots /\ (i - 1) + 1 = i
        BY <2>2, ExistingFiles, ThreadsAssumption DEF Inumbers
      <3>2. NameAt(i - 1) = File[t] /\ InumAt(i - 1) = i
        BY <2>2, <3>1 DEF Init, NameAt, InumAt
      <3> QED
        BY <3>1, <3>2, MineNames DEF Named
    <2> QED
      BY <2>1, <2>2
  <1>3. (\A i : Owns(t, i) <=> Named(t, i)) /\ ~Fills(t)
    BY DEF Init, Owns, Holds, Unnamed, Fills
  <1> QED
    BY <1>1, <1>2, <1>3

LEMMA InitGood ==
  ASSUME NamesApart, Init, NEW t \in Threads
  PROVE  Good(t)
  <1>1. /\ pc[t] = "idle" /\ loc[t] = NoCall /\ handles[t] = {}
        /\ lock_file_entries # t /\ \A i \in Inumbers : inode_lock[i] # t
    BY ThreadsAssumption DEF Init
  <1>2. \A i \in Inumbers : i \in Int
    BY ThreadsAssumption DEF Inumbers
  <1>3. ASSUME NEW i \in Inumbers, Named(t, i)
        PROVE  /\ Existing[i] = t /\ i # ROOT_DIR_INUM /\ Live(i) /\ i \in Blocks \ {0}
               /\ inode_table[i].i_size = 1 /\ inode_table[i].i_data_block = i
               /\ inode_table[i].cnt_hardlinks = 1 /\ inode_table[i].is_softlink = FALSE
               /\ free_blocks[i] = "TAKEN" /\ fs_data[i] = t
    <2>1. HasFile(i) /\ Existing[i] = t
      BY <1>3, InitNames
    <2>2. i # ROOT_DIR_INUM /\ i \in Blocks \ {0}
      BY <1>2, <2>1, ExistingFiles
    <2> QED
      BY <2>1, <2>2 DEF Init, Live, NewInode
  <1>4. \A i : Named(t, i) => i \in Inumbers
    <2>1. SUFFICES ASSUME NEW e \in DirSlots, NameAt(e) \in Mine(t) PROVE InumAt(e) \in Inumbers
      BY DEF Named
    <2>2. e + 1 \in Int /\ HasFile(e + 1) /\ InumAt(e) = e + 1
      BY <2>1, InitNames, SomeKinds
    <2> QED
      BY <2>2, ExistingFiles
  <1>5. NamesOnce(t)
    <2>1. SUFFICES ASSUME NEW e \in DirSlots, NEW f \in DirSlots,
                          NameAt(e) \in Mine(t), NameAt(f) = NameAt(e)
                   PROVE  e = f
      BY DEF NamesOnce
    <2>2. /\ HasFile(e + 1) /\ HasFile(f + 1)
          /\ Existing[e + 1] = t /\ Existing[f + 1] = t
      BY <2>1, InitNames
    <2>3. e \in Int /\ f \in Int
      BY SomeKinds
    <2>4. e + 1 \in DOMAIN Existing /\ f + 1 \in DOMAIN Existing
      BY <2>2, <2>3, ExistingFiles
    <2>5. e + 1 = f + 1
      BY <2>2, <2>4 DEF NamesApart
    <2> QED
      BY <2>3, <2>5
  <1>6. OwnsLive(t)
    BY <1>3, InitNames DEF OwnsLive
  <1>7. CountedFor(t)
    <2>1. SUFFICES ASSUME NEW i \in Inumbers, Named(t, i)
                   PROVE  inode_table[i].cnt_hardlinks = Cardinality(EntriesOf(t, i))
      BY <1>1, EntriesCount DEF CountedFor
    <2>2. EntriesOf(t, i) = {i - 1}
      <3>1. i - 1 \in DirSlots /\ (i - 1) + 1 = i
        BY <1>2, <2>1, InitNames, ExistingFiles
      <3>2. \A e \in EntriesOf(t, i) : e + 1 = i /\ e \in Int
        BY InitNames, SomeKinds DEF EntriesOf
      <3>3. \A e \in EntriesOf(t, i) : e = i - 1
        BY <1>2, <3>2
      <3>4. EntriesOf(t, i) # {}
        BY <2>1 DEF EntriesOf, Named
      <3> QED
        BY <3>3, <3>4
    <2> QED
      BY <1>3, <2>1, <2>2, FS_Singleton
  <1>8. \A i \in Inumbers : Sized(t, i) => Named(t, i)
    BY InitNames DEF Sized
  <1>9. OwnContents(t)
    <2>1. SUFFICES ASSUME NEW i \in Inumbers, Named(t, i) PROVE ClaimsBlock(t, i)
      BY <1>8 DEF OwnContents
    <2>2. \A j \in Inumbers : Sized(t, j) /\ inode_table[j].i_data_block = i => j = i
      BY <1>3, <1>8
    <2>3. ~Fills(t)
      BY InitNames
    <2>4. /\ i \in Blocks \ {0} /\ inode_table[i].i_data_block = i
          /\ free_blocks[i] = "TAKEN" /\ fs_data[i] = t /\ ~IsSoft(i)
      BY <1>3, <2>1 DEF IsSoft
    <2> QED
      BY <2>2, <2>3, <2>4 DEF ClaimsBlock
  <1>10. LinksSized(t)
    BY <1>3 DEF LinksSized, IsSoft
  <1>11. HandlesHeld(t) /\ NothingOpen(t) /\ LocksHeld(t)
    BY <1>1 DEF HandlesHeld, NothingOpen, LocksHeld
  <1>12. AtLabel(t)
    BY <1>1, NoCallTyped
       DEF AtLabel, Idling, Searching, Opening, Creating, Linking, Unlinking, OnHandle, Fills
  <1> QED
    BY <1>5, <1>6, <1>7, <1>9, <1>10, <1>11, <1>12 DEF Good

LEMMA InitTyped ==
  ASSUME Init
  PROVE  Typed
  <1>1. \A i \in Inumbers : i \in Int
    BY ThreadsAssumption DEF Inumbers
  <1>2. \A i \in Blocks : i \in Int
    BY ThreadsAssumption DEF Blocks
  <1>3. \A e \in DirSlots : e + 1 \in Int
    BY SomeKinds
  <1>4. /\ freeinode_ts \in [Inumbers -> {"FREE", "TAKEN"}]
        /\ inode_lock \in [Inumbers -> Threads \cup {Nobody}]
        /\ free_blocks \in [Blocks -> {"FREE", "TAKEN"}]
        /\ free_open_file_entries \in [Handles -> {"FREE", "TAKEN"}]
        /\ lock_file_entries \in Threads \cup {Nobody} /\ died \in BOOLEAN
    BY DEF Init
  <1>5. inode_table \in [Inumbers -> Inode]
    <2>1. \A i \in Inumbers : HasFile(i) => i \in Blocks
      BY <1>1, ExistingFiles
    <2>2. NewInode(FALSE) \in Inode
      BY DEF NewInode, Inode
    <2>3. \A b \in Blocks : [NewInode(FALSE) EXCEPT !.i_size = 1, !.i_data_block = b] \in Inode
      BY DEF NewInode, Inode
    <2>4. \A i \in Inumbers : i = ROOT_DIR_INUM \/ HasFile(i) => i \in Blocks
      BY <2>1, RootAndBlock DEF ROOT_DIR_INUM
    <2> QED
      BY <2>2, <2>3, <2>4 DEF Init
  <1>6. dir_entry \in [DirSlots -> [d_name : Names \cup {NoName}, d_inumber : Inumbers \cup {-1}]]
    <2>1. ASSUME NEW e \in DirSlots, HasFile(e + 1)
          PROVE  [d_name |-> File[Existing[e + 1]], d_inumber |-> e + 1]
                   \in [d_name : Names \cup {NoName}, d_inumber : Inumbers \cup {-1}]
      <3>1. e + 1 \in Inumbers /\ Existing[e + 1] \in Threads
        BY <1>3, <2>1, ExistingFiles
      <3>2. File[Existing[e + 1]] \in Names
        BY <3>1, ThreadsAssumption
      <3> QED
        BY <3>1, <3>2
    <2> QED
      BY <2>1 DEF Init, FreeEntry
  <1>7. fs_data \in [Blocks -> Threads \cup Names \cup {Garbage}]
    <2>1. \A b \in Blocks : HasFile(b) => Existing[b] \in Threads
      BY <1>2, ExistingFiles
    <2> QED
      BY <2>1 DEF Init
  <1>8. open_file_table \in [Handles -> [of_inumber : Inumbers, of_offset : 0 .. 2]]
    <2>1. [of_inumber |-> ROOT_DIR_INUM, of_offset |-> 0]
            \in [of_inumber : Inumbers, of_offset : 0 .. 2]
      BY RootAndBlock
    <2> QED
      BY <2>1 DEF Init
  <1>9. /\ calls \in [Threads -> Nat]
        /\ seen \in [Threads -> Threads \cup Names \cup {Garbage, "nothing"}]
        /\ handles \in [Threads -> SUBSET Handles]
        /\ pc \in [Threads -> Labels] /\ loc \in [Threads -> Call]
    BY NoCallTyped DEF Init, Labels
  <1>10. \A t \in Threads : loc[t].slot \in 0 .. MAX_DIR_ENTRIES /\ handles[t] \subseteq Handles
    BY <1>9, CallFields DEF Slots
  <1> QED
    BY <1>4, <1>5, <1>6, <1>7, <1>8, <1>9, <1>10 DEF Typed, ThreadsTypeOK

LEMMA InitUses ==
  ASSUME NamesApart, Init, NEW t \in Threads, NEW b \in Blocks
  PROVE  Uses(t, b) <=> HasFile(b) /\ Existing[b] = t
  <1>1. /\ ~Fills(t) /\ \A i \in Inumbers : Owns(t, i) <=> HasFile(i) /\ Existing[i] = t
        /\ pc[t] = "idle"
    BY InitNames DEF Init
  <1>2. \A i \in Inumbers : HasFile(i) =>
          inode_table[i].i_size = 1 /\ inode_table[i].i_data_block = i
    BY DEF Init, NewInode
  <1>3. ASSUME HasFile(b), Existing[b] = t PROVE Uses(t, b)
    <2>1. b \in Inumbers
      BY <1>3, ExistingFiles, ThreadsAssumption DEF Blocks
    <2> QED
      BY <1>1, <1>2, <1>3, <2>1 DEF Uses, Sized
  <1>4. ASSUME Uses(t, b) PROVE HasFile(b) /\ Existing[b] = t
    BY <1>1, <1>2, <1>4 DEF Uses, Sized
  <1> QED
    BY <1>3, <1>4

LEMMA InvInit ==
  ASSUME NamesApart, Init
  PROVE  ApartInv /\ BlocksUsed
  <1>1. \A i \in Inumbers : i \in Int
    BY ThreadsAssumption DEF Inumbers
  <1>2. \A b \in Blocks : b \in Int
    BY ThreadsAssumption DEF Blocks
  <1>3. EntriesOwned
    <2>1. SUFFICES ASSUME NEW e \in DirSlots, HasFile(e + 1)
                   PROVE  InumAt(e) \in Inumbers /\ \E t \in Threads : NameAt(e) \in Mine(t)
      BY DEF EntriesOwned, Init
    <2>2. e + 1 \in Inumbers /\ Existing[e + 1] \in Threads
      BY <2>1, ExistingFiles, SomeKinds
    <2>3. InumAt(e) = e + 1 /\ NameAt(e) = File[Existing[e + 1]]
      BY <2>1 DEF Init, InumAt, NameAt
    <2> QED
      BY <2>2, <2>3, MineNames
  <1>4. InodesApart
    BY InitNames DEF InodesApart
  <1>5. BlocksApart
    BY InitUses DEF BlocksApart
  <1>6. HandlesApart /\ lock_file_entries = Nobody /\ ~died
    BY DEF HandlesApart, Init
  <1>7. LiveOwned
    <2>1. SUFFICES ASSUME NEW i \in Inumbers, i # ROOT_DIR_INUM, Live(i)
                   PROVE  \E t \in Threads : Owns(t, i)
      BY DEF LiveOwned
    <2>2. HasFile(i)
      BY <2>1 DEF Live, Init
    <2>3. Existing[i] \in Threads
      BY <1>1, <2>2, ExistingFiles
    <2> QED
      BY <2>2, <2>3, InitNames
  <1>8. RootKept
    BY RootAndBlock DEF RootKept, Init, Live, NewInode, ROOT_DIR_INUM
  <1>9. BlocksUsed
    <2>1. SUFFICES ASSUME NEW b \in Blocks, b # 0, free_blocks[b] = "TAKEN"
                   PROVE  \E t \in Threads : Uses(t, b)
      BY DEF BlocksUsed
    <2>2. HasFile(b)
      BY <2>1 DEF Init
    <2>3. Existing[b] \in Threads
      BY <1>2, <2>2, ExistingFiles
    <2> QED
      BY <2>2, <2>3, InitUses
  <1> QED
    BY <1>3, <1>4, <1>5, <1>6, <1>7, <1>8, <1>9, InitTyped, InitGood
       DEF ApartInv, Shared, DiesWhenFull

-----------------------------------------------------------------------------
(* Every step keeps the invariant.                                         *)

LEMMA NotDead ==
  ASSUME NEW t \in Threads, Step(t) \/ ApartCall(t)
  PROVE  ~died
  <1>1. ASSUME ApartCall(t) PROVE ~died
    BY <1>1 DEF ApartCall, ApartOpens, ApartLinks, ApartUnlinks, UsesHandle,
                CallOpen, CallLink, CallSymLink, CallUnlink, CallOnHandle, MayCall, At
  <1>2. ASSUME Step(t) PROVE ~died
    BY <1>2 DEF Step, Find, InodeAlloc, InodeInit, InodeDelete, AddDirEntry, OpenFirst, OpenSecond,
                OpenAdds, LinkLocks, LinkCounts, SymLinkChecks, SymLinkAllocs, SymLinkStores,
                SymLinkSizes, UnlinkLocks, UnlinkClears, UnlinkCounts, GetOpenFileEntry,
                CloseChecks, CloseFrees, WriteFindsInode, WritePicksBlock, WriteCopies,
                ReadUnderLock, At
  <1> QED
    BY <1>1, <1>2

\* The one step that can lose a block.
FindsDirFull(t) == pc[t] = "add" /\ loc[t].slot \notin DirSlots

LEMMA StepFine ==
  ASSUME NamesApart, Typed, Shared, NEW t \in Threads, Good(t), Step(t) \/ ApartCall(t)
  PROVE  \/ Fine(t) /\ (FindsDirFull(t) \/ Saves(t))
         \/ AbortsFull(t)
  <1>1. EntriesOwned
    BY DEF Shared
  <1>2. CASE ApartCall(t)
    BY <1>1, <1>2, ApartCallFine
  <1>3. CASE AddDirEntry(t)
    <2>1. pc[t] = "add"
      BY <1>3 DEF AddDirEntry, At
    <2> QED
      BY <1>1, <1>3, <2>1, AddDirEntryFine DEF FindsDirFull
  <1>4. CASE Find(t) \/ InodeAlloc(t) \/ InodeInit(t) \/ InodeDelete(t)
    BY <1>1, <1>4, FindFine, InodeAllocFine, InodeInitFine, InodeDeleteFine
  <1>5. CASE OpenFirst(t) \/ OpenSecond(t) \/ OpenAdds(t)
    BY <1>1, <1>5, OpenFirstFine, OpenSecondFine, OpenAddsFine
  <1>6. CASE LinkLocks(t) \/ LinkCounts(t)
    BY <1>1, <1>6, LinkLocksFine, LinkCountsFine
  <1>7. CASE SymLinkChecks(t) \/ SymLinkAllocs(t) \/ SymLinkStores(t) \/ SymLinkSizes(t)
    BY <1>1, <1>7, SymLinkChecksFine, SymLinkAllocsFine, SymLinkStoresFine, SymLinkSizesFine
  <1>8. CASE UnlinkLocks(t) \/ UnlinkClears(t) \/ UnlinkCounts(t)
    BY <1>1, <1>8, UnlinkLocksFine, UnlinkClearsFine, UnlinkCountsFine
  <1>9. CASE GetOpenFileEntry(t) \/ CloseChecks(t) \/ CloseFrees(t)
    BY <1>1, <1>9, GetOpenFileEntryFine, CloseChecksFine, CloseFreesFine
  <1>10. CASE WriteFindsInode(t) \/ WritePicksBlock(t) \/ WriteCopies(t) \/ ReadUnderLock(t)
    BY <1>1, <1>10, WriteFindsInodeFine, WritePicksBlockFine, WriteCopiesFine, ReadUnderLockFine
  <1> QED
    BY <1>2, <1>3, <1>4, <1>5, <1>6, <1>7, <1>8, <1>9, <1>10 DEF Step

\* Nothing but died changes.
LEMMA SameButDied ==
  ASSUME Typed, Shared, UNCHANGED <<tables, locks, pc, loc, callerVars>>, died' \in BOOLEAN
  PROVE  /\ Typed' /\ Shared'
         /\ \A t \in Threads : Good(t) => Good(t)'
         /\ BlocksUsed => BlocksUsed'
  <1>1. UNCHANGED <<freeinode_ts, inode_table, inode_lock, dir_entry, free_blocks, fs_data,
                    free_open_file_entries, open_file_table, lock_file_entries, pc, loc, calls,
                    handles, seen>>
    BY DEF tables, locks, callerVars, inodeVars, blockVars, fileVars
  <1>2. Typed'
    BY <1>1 DEF Typed, ThreadsTypeOK
  <1>3. \A t \in Threads : Unmoved(t)
    BY <1>1 DEF Unmoved
  <1>4. \A t \in Threads : /\ \A i : Owns(t, i)' <=> Owns(t, i)
                          /\ \A b : Uses(t, b)' <=> Uses(t, b)
    BY <1>3, UnmovedOwns
  <1>5. BlocksUsed => BlocksUsed'
    BY <1>1, <1>4 DEF BlocksUsed
  <1>6. Shared'
    BY <1>1, <1>4 DEF Shared, EntriesOwned, InodesApart, BlocksApart, HandlesApart, LiveOwned,
                      RootKept, Live, InumAt, NameAt, Mine
  <1>7. \A t \in Threads : Good(t) => Good(t)'
    BY <1>3, UnmovedGood DEF Shared
  <1> QED
    BY <1>2, <1>5, <1>6, <1>7

LEMMA InvStep ==
  ASSUME NamesApart, ApartInv, [ApartNext]_vars
  PROVE  ApartInv'
  <1>1. Typed /\ Shared /\ DiesWhenFull /\ \A u \in Threads : Good(u)
    BY DEF ApartInv
  <1>2. ASSUME NEW t \in Threads, Step(t) \/ ApartCall(t)
        PROVE  ApartInv'
    <2>1. ~died
      BY <1>2, NotDead
    <2>2. CASE Fine(t)
      <3>1. (\A u \in Threads : Good(u)') /\ Shared'
        BY <1>1, <2>2, ConfinedGood DEF Fine
      <3>2. Typed' /\ ~died'
        BY <2>1, <2>2 DEF Fine
      <3> QED
        BY <3>1, <3>2 DEF ApartInv, DiesWhenFull
    <2>3. CASE AbortsFull(t)
      <3>1. UNCHANGED <<tables, locks, pc, loc, callerVars>> /\ died' \in BOOLEAN
        BY <2>3 DEF AbortsFull
      <3>2. Typed' /\ Shared' /\ \A u \in Threads : Good(u)'
        BY <1>1, <3>1, SameButDied
      <3>3. DiesWhenFull'
        BY <2>3 DEF AbortsFull, DiesWhenFull, NoneFree, tables, inodeVars
      <3> QED
        BY <3>2, <3>3 DEF ApartInv
    <2> QED
      BY <1>1, <1>2, <2>2, <2>3, StepFine
  <1>3. CASE UNCHANGED vars
    <2>1. UNCHANGED <<tables, locks, pc, loc, callerVars>> /\ died' = died
      BY <1>3 DEF vars
    <2>2. died' \in BOOLEAN
      BY <1>1, <2>1 DEF Typed, ThreadsTypeOK
    <2>3. Typed' /\ Shared' /\ \A u \in Threads : Good(u)'
      BY <1>1, <2>1, <2>2, SameButDied
    <2>4. DiesWhenFull'
      BY <1>1, <2>1 DEF DiesWhenFull, NoneFree, tables, inodeVars
    <2> QED
      BY <2>3, <2>4 DEF ApartInv
  <1> QED
    BY <1>2, <1>3 DEF ApartNext

-----------------------------------------------------------------------------
(* Types, and locks that are given back.                                   *)

\* Threads that keep apart keep the invariant.
THEOREM ApartInvariant ==
  ASSUME NamesApart
  PROVE  ApartSpec => []ApartInv
  <1>1. Init => ApartInv
    BY InvInit
  <1>2. ApartInv /\ [ApartNext]_vars => ApartInv'
    BY InvStep
  <1> QED
    BY <1>1, <1>2, PTL DEF ApartSpec

\* The tables, the locks and what the callers know keep their types, among
\* them that no slot, block or inode number leaves its table.
THEOREM ThreadsTypeCorrect ==
  ASSUME NamesApart
  PROVE  ApartSpec => []ThreadsTypeOK
  <1>1. ApartInv => ThreadsTypeOK
    BY DEF ApartInv, Typed
  <1> QED
    BY <1>1, ApartInvariant, PTL

\* tfs_link, tfs_sym_link and tfs_unlink give back the lock of the inode, and
\* get_open_file_entry that of the handles, on every path on which they return.
THEOREM NoLockAlwaysKept ==
  ASSUME NamesApart
  PROVE  ApartSpec => []NoLockKept
  <1>1. ApartInv => NoLockKept
    BY DEF ApartInv, Good, LocksHeld, NoLockKept
  <1> QED
    BY <1>1, ApartInvariant, PTL

-----------------------------------------------------------------------------
(* What a step of one thread is to the others.                             *)

\* A step that changes a table moves its thread.
LEMMA Moves ==
  ASSUME Typed, NEW t \in Threads, Good(t), Step(t) \/ ApartCall(t)
  PROVE  pc'[t] # pc[t] \/ loc'[t] # loc[t] \/ UNCHANGED tables
  <1>1. \A where, v : Go(t, where, v) => pc'[t] = where
    BY DEF Go, Typed
  <1>2. ASSUME ApartCall(t) PROVE UNCHANGED tables
    BY <1>2 DEF ApartCall, ApartOpens, ApartLinks, ApartUnlinks, UsesHandle,
                CallOpen, CallLink, CallSymLink, CallUnlink, CallOnHandle
  <1>3. ASSUME Find(t) \/ LinkLocks(t) \/ SymLinkChecks(t) \/ UnlinkLocks(t)
               \/ GetOpenFileEntry(t) \/ CloseChecks(t) \/ WriteFindsInode(t)
        PROVE  UNCHANGED tables
    BY <1>3 DEF Find, LinkLocks, SymLinkChecks, UnlinkLocks, GetOpenFileEntry, CloseChecks,
                WriteFindsInode, Die
  <1>4. ASSUME InodeAlloc(t) \/ InodeInit(t) \/ InodeDelete(t)
        PROVE  pc'[t] # pc[t] \/ UNCHANGED tables
    BY <1>1, <1>4 DEF InodeAlloc, InodeInit, InodeDelete, At, Return, Die
  <1>5. ASSUME AddDirEntry(t)
        PROVE  pc'[t] # pc[t] \/ UNCHANGED tables
    <2>1. pc[t] = "add" /\ loc[t].op \in {"open", "link", "sym_link"}
      BY <1>5 DEF AddDirEntry, At, Good, AtLabel, Creating
    <2>2. (CASE loc[t].op = "open" -> "o_add"
             [] loc[t].op = "link" -> "l_done"
             [] loc[t].op = "sym_link" -> "s_done") # "add"
      BY <2>1
    <2> QED
      BY <1>1, <1>5, <2>1, <2>2 DEF AddDirEntry, tables
  <1>6. ASSUME OpenFirst(t) \/ OpenSecond(t) \/ OpenAdds(t)
        PROVE  pc'[t] # pc[t]
    BY <1>1, <1>6 DEF OpenFirst, OpenSecond, OpenAdds, OpenUnderLock, At
  <1>7. ASSUME LinkCounts(t) \/ SymLinkAllocs(t) \/ SymLinkStores(t) \/ SymLinkSizes(t)
        PROVE  pc'[t] # pc[t]
    BY <1>1, <1>7 DEF LinkCounts, SymLinkAllocs, SymLinkStores, SymLinkSizes, At, Return
  <1>8. ASSUME UnlinkClears(t) \/ UnlinkCounts(t) \/ CloseFrees(t)
        PROVE  pc'[t] # pc[t] \/ UNCHANGED tables
    BY <1>1, <1>8 DEF UnlinkClears, UnlinkCounts, CloseFrees, At, Return, tables
  <1>9. ASSUME WritePicksBlock(t) \/ WriteCopies(t) \/ ReadUnderLock(t)
        PROVE  pc'[t] # pc[t] \/ UNCHANGED tables
    BY <1>1, <1>9 DEF WritePicksBlock, WriteCopies, ReadUnderLock, At, Return, tables, fileVars
  <1> QED
    BY <1>2, <1>3, <1>4, <1>5, <1>6, <1>7, <1>8, <1>9 DEF Step

\* What a thread left alone finds under its names.
LEMMA UnmovedFiles ==
  ASSUME Typed, EntriesOwned, NEW u \in Threads, Good(u), Unmoved(u)
  PROVE  FilesOf(u)' = FilesOf(u)
  <1>1. \A name \in Mine(u) : \A e \in DirSlots :
          (Matches(e, name) \/ Matches(e, name)') => dir_entry'[e] = dir_entry[e]
    BY DEF Unmoved, Matches, NameAt
  <1>2. ASSUME NEW name \in Mine(u)
        PROVE  /\ {d \in DirSlots : Matches(d, name)}' = {d \in DirSlots : Matches(d, name)}
               /\ \A e \in {d \in DirSlots : Matches(d, name)} : dir_entry'[e] = dir_entry[e]
    BY <1>1 DEF Matches
  <1>3. ASSUME NEW name \in Mine(u), NEW e \in {d \in DirSlots : Matches(d, name)},
               NEW i, i = dir_entry[e].d_inumber
        PROVE  /\ inode_table'[i] = inode_table[i]
               /\ inode_table[i].i_size > 0 =>
                    fs_data'[inode_table[i].i_data_block] = fs_data[inode_table[i].i_data_block]
    <2>1. Named(u, i)
      BY <1>3 DEF Matches, Named, NameAt, InumAt
    <2>2. i \in Inumbers /\ Owns(u, i)
      BY <2>1, NamedInode DEF Owns
    <2>3. ASSUME inode_table[i].i_size > 0
          PROVE  fs_data'[inode_table[i].i_data_block] = fs_data[inode_table[i].i_data_block]
      <3>1. Sized(u, i)
        BY <2>1, <2>2, <2>3 DEF Sized, Good, AtLabel, Creating
      <3>2. inode_table[i].i_data_block \in Blocks /\ Uses(u, inode_table[i].i_data_block)
        BY <2>2, <3>1 DEF Good, OwnContents, ClaimsBlock, Uses
      <3> QED
        BY <3>2 DEF Unmoved
    <2> QED
      BY <2>2, <2>3 DEF Unmoved
  <1> DEFINE What(i) == <<inode_table[i], IF inode_table[i].i_size > 0
                                            THEN fs_data[inode_table[i].i_data_block] ELSE Garbage>>
             Found(name) == {dir_entry[e].d_inumber : e \in {d \in DirSlots : Matches(d, name)}}
  <1>4. ASSUME NEW name \in Mine(u)
        PROVE  /\ Found(name)' = Found(name)
               /\ \A i \in Found(name) : What(i)' = What(i)
    <2>1. Found(name)' = Found(name)
      BY <1>2
    <2>2. \A i \in Found(name) : What(i)' = What(i)
      BY <1>3
    <2> QED
      BY <2>1, <2>2
  <1>5. ASSUME NEW name \in Mine(u)
        PROVE  {What(i) : i \in Found(name)}' = {What(i) : i \in Found(name)}
    BY <1>4
  <1> QED
    BY <1>5 DEF FilesOf, Mine

LEMMA OthersKept ==
  ASSUME NamesApart, ApartInv, [ApartNext]_vars, NEW u \in Threads,
         pc'[u] = pc[u], loc'[u] = loc[u]
  PROVE  FilesOf(u)' = FilesOf(u)
  <1>1. Typed /\ Shared /\ EntriesOwned /\ \A t \in Threads : Good(t)
    BY DEF ApartInv, Shared
  <1>2. ASSUME UNCHANGED tables PROVE FilesOf(u)' = FilesOf(u)
    BY <1>2 DEF tables, inodeVars, blockVars, FilesOf, Matches
  <1>3. ASSUME NEW t \in Threads, Step(t) \/ ApartCall(t)
        PROVE  FilesOf(u)' = FilesOf(u)
    <2>1. CASE t = u
      BY <1>1, <1>2, <1>3, <2>1, Moves
    <2>2. CASE t # u /\ Fine(t)
      <3>1. Unmoved(u)
        BY <1>1, <2>2, ConfinedUnmoved DEF Fine
      <3> QED
        BY <1>1, <3>1, UnmovedFiles
    <2>3. CASE AbortsFull(t)
      BY <1>2, <2>3 DEF AbortsFull
    <2> QED
      BY <1>1, <1>3, <2>1, <2>2, <2>3, StepFine
  <1>4. CASE UNCHANGED vars
    BY <1>2, <1>4 DEF vars
  <1> QED
    BY <1>3, <1>4 DEF ApartNext

\* The threads share the directory, the inode table and the blocks; a step of
\* one of them leaves what the names of the others lead to as it is.
THEOREM IsolationHolds ==
  ASSUME NamesApart
  PROVE  ApartSpec => Isolation
  <1>1. ApartInv /\ [ApartNext]_vars =>
          [\A t \in Threads : pc'[t] = pc[t] /\ loc'[t] = loc[t] => FilesOf(t)' = FilesOf(t)]_vars
    BY OthersKept
  <1> QED
    BY <1>1, ApartInvariant, PTL DEF ApartSpec, Isolation

\* Only tfs_read gives data to its caller.
LEMMA OnlyReadSees ==
  ASSUME NEW t \in Threads, Step(t) \/ ApartCall(t), ~ReadUnderLock(t)
  PROVE  seen' = seen
  <1>1. ASSUME ApartCall(t) PROVE seen' = seen
    BY <1>1 DEF ApartCall, ApartOpens, ApartLinks, ApartUnlinks, UsesHandle,
                CallOpen, CallLink, CallSymLink, CallUnlink, CallOnHandle
  <1>2. ASSUME Find(t) \/ InodeAlloc(t) \/ InodeInit(t) \/ InodeDelete(t) \/ AddDirEntry(t)
        PROVE  seen' = seen
    BY <1>2 DEF Find, InodeAlloc, InodeInit, InodeDelete, AddDirEntry, Return, Die, callerVars
  <1>3. ASSUME OpenFirst(t) \/ OpenSecond(t) \/ OpenAdds(t) \/ LinkLocks(t) \/ LinkCounts(t)
        PROVE  seen' = seen
    BY <1>3 DEF OpenFirst, OpenSecond, OpenAdds, LinkLocks, LinkCounts, Return, callerVars
  <1>4. ASSUME SymLinkChecks(t) \/ SymLinkAllocs(t) \/ SymLinkStores(t) \/ SymLinkSizes(t)
        PROVE  seen' = seen
    BY <1>4 DEF SymLinkChecks, SymLinkAllocs, SymLinkStores, SymLinkSizes, Return, callerVars
  <1>5. ASSUME UnlinkLocks(t) \/ UnlinkClears(t) \/ UnlinkCounts(t)
        PROVE  seen' = seen
    BY <1>5 DEF UnlinkLocks, UnlinkClears, UnlinkCounts, Return, callerVars
  <1>6. ASSUME GetOpenFileEntry(t) \/ CloseChecks(t) \/ CloseFrees(t) \/ WriteFindsInode(t)
               \/ WritePicksBlock(t) \/ WriteCopies(t)
        PROVE  seen' = seen
    BY <1>6 DEF GetOpenFileEntry, CloseChecks, CloseFrees, WriteFindsInode, WritePicksBlock,
                WriteCopies, Return, Die, callerVars
  <1> QED
    BY <1>1, <1>2, <1>3, <1>4, <1>5, <1>6 DEF Step

\* tfs_read gives a thread what that thread wrote, whatever blocks the other
\* threads free and take meanwhile, or says that there is nothing to read.
THEOREM OwnDataAlways ==
  ASSUME NamesApart
  PROVE  ApartSpec => OwnDataOnly
  <1>1. ASSUME ApartInv, [ApartNext]_vars, NEW u \in Threads, seen'[u] # seen[u]
        PROVE  seen'[u] \in {u, "nothing"}
    <2>1. Typed /\ EntriesOwned /\ \A t \in Threads : Good(t)
      BY <1>1 DEF ApartInv, Shared
    <2>2. seen' # seen
      BY <1>1
    <2>3. PICK t \in Threads : Step(t) \/ ApartCall(t)
      BY <1>1, <2>2 DEF ApartNext, vars, callerVars
    <2>4. ReadUnderLock(t)
      BY <2>2, <2>3, OnlyReadSees
    <2>5. PICK data \in {t, "nothing"} : seen' = [seen EXCEPT ![t] = data]
      BY <2>1, <2>4, ReadUnderLockFine
    <2>6. u = t /\ seen'[t] = data
      BY <1>1, <2>1, <2>5 DEF Typed, ThreadsTypeOK
    <2> QED
      BY <2>6
  <1>2. ApartInv /\ [ApartNext]_vars =>
          [\A t \in Threads : seen'[t] # seen[t] => seen'[t] \in {t, "nothing"}]_vars
    BY <1>1
  <1> QED
    BY <1>2, ApartInvariant, PTL DEF ApartSpec, OwnDataOnly

-----------------------------------------------------------------------------
(* Counting: there are two names for each thread.                          *)

AllNames == {File[t] : t \in Threads} \cup {Link[t] : t \in Threads}

LEMMA MineCounted ==
  /\ \A t \in Threads : Mine(t) \subseteq AllNames
  /\ IsFiniteSet(Threads) =>
       /\ IsFiniteSet(AllNames) /\ Cardinality(Threads) \in Nat
       /\ Cardinality(AllNames) <= 2 * Cardinality(Threads)
  <1>1. \A t \in Threads : Mine(t) \subseteq AllNames
    BY DEF Mine, AllNames
  <1>2. ASSUME IsFiniteSet(Threads)
        PROVE  /\ IsFiniteSet(AllNames) /\ Cardinality(Threads) \in Nat
               /\ Cardinality(AllNames) <= 2 * Cardinality(Threads)
    <2> DEFINE F == {File[t] : t \in Threads}
               L == {Link[t] : t \in Threads}
    <2>1. File \in Surjection(Threads, F) /\ Link \in Surjection(Threads, L)
      BY ThreadsAssumption DEF Surjection
    <2>2. /\ IsFiniteSet(F) /\ Cardinality(F) <= Cardinality(Threads)
          /\ IsFiniteSet(L) /\ Cardinality(L) <= Cardinality(Threads)
      BY <1>2, <2>1, FS_Surjection
    <2>3. IsFiniteSet(F \cap L)
      BY <2>2, FS_Subset
    <2>4. /\ Cardinality(F) \in Nat /\ Cardinality(L) \in Nat /\ Cardinality(Threads) \in Nat
          /\ Cardinality(F \cap L) \in Nat
      BY <1>2, <2>2, <2>3, FS_CardinalityType
    <2>5. /\ IsFiniteSet(F \cup L)
          /\ Cardinality(F \cup L) = Cardinality(F) + Cardinality(L) - Cardinality(F \cap L)
      BY <2>2, FS_Union
    <2> HIDE DEF F, L
    <2>6. Cardinality(F \cup L) <= 2 * Cardinality(Threads)
      BY <2>2, <2>4, <2>5
    <2> QED
      BY <2>4, <2>5, <2>6 DEF AllNames, F, L
  <1> QED
    BY <1>1, <1>2

LEMMA TableSize ==
  ASSUME NEW n \in Nat
  PROVE  IsFiniteSet(0 .. n - 1) /\ Cardinality(0 .. n - 1) = n
  <1>1. 0 \in Int /\ n - 1 \in Int
    OBVIOUS
  <1>2. /\ IsFiniteSet(0 .. n - 1)
        /\ Cardinality(0 .. n - 1) = IF 0 > n - 1 THEN 0 ELSE n - 1 - 0 + 1
    BY <1>1, FS_Interval
  <1> QED
    BY <1>2

\* A set with a name for each of its elements is not larger than the names.
LEMMA NamedApart ==
  ASSUME NEW S, IsFiniteSet(S), NEW T, IsFiniteSet(T), NEW f \in [S -> T],
         \A x, y \in S : f[x] = f[y] => x = y
  PROVE  Cardinality(S) <= Cardinality(T)
  <1>1. ~(Cardinality(T) < Cardinality(S))
    BY FS_PigeonHole
  <1>2. Cardinality(S) \in Nat /\ Cardinality(T) \in Nat
    BY FS_CardinalityType
  <1> QED
    BY <1>1, <1>2

LEMMA OneOwner ==
  ASSUME NamesApart, NEW t \in Threads, NEW u \in Threads, NEW n, n \in Mine(t), n \in Mine(u)
  PROVE  t = u
  BY DEF NamesApart, Mine

-----------------------------------------------------------------------------
(* An inode for each name.                                                 *)

\* n is the name of the inode, or the one it has lost or will get.
NameFor(u, n, i) ==
  /\ n \in Mine(u)
  /\ Leads(n, i) \/ (Holds(u, i) /\ n = HeldName(loc[u]) /\ NoEntry(n))

LEMMA OwnedNamed ==
  ASSUME NEW u \in Threads, Good(u), NEW i \in Inumbers, Owns(u, i)
  PROVE  \E n : NameFor(u, n, i)
  <1>1. CASE Named(u, i)
    BY <1>1 DEF Named, NameFor, Leads
  <1>2. CASE Holds(u, i)
    <2>1. CASE pc[u] \in {"u_done", "delete"}
      BY <1>2, <2>1 DEF Good, AtLabel, Unlinking, NameFor
    <2>2. CASE pc[u] \in {"init", "s_block", "s_lock"} \/ (pc[u] = "add" /\ loc[u].op # "link")
      <3>1. MayAdd(u) /\ loc[u].op # "unlink"
        BY <2>2 DEF Good, AtLabel, Creating
      <3> QED
        BY <1>2, <3>1 DEF NameFor, MayAdd, HeldName
    <2> QED
      BY <1>2, <2>1, <2>2 DEF Holds, Unnamed
  <1> QED
    BY <1>1, <1>2 DEF Owns

LEMMA NamesOne ==
  ASSUME NEW u \in Threads, Good(u), NEW n, NEW i, NEW j, NameFor(u, n, i), NameFor(u, n, j)
  PROVE  i = j
  <1>1. n \in Mine(u) /\ NamesOnce(u)
    BY DEF NameFor, Good
  <1>2. CASE Leads(n, i) /\ Leads(n, j)
    BY <1>1, <1>2 DEF Leads, NamesOnce
  <1>3. CASE NoEntry(n)
    <2>1. Holds(u, i) /\ Holds(u, j)
      BY <1>3 DEF NameFor, Leads, NoEntry
    <2> QED
      BY <2>1 DEF Holds
  <1> QED
    BY <1>2, <1>3 DEF NameFor

\* tfs_sym_link always finds an inode.
LEMMA RoomForInodes ==
  ASSUME NamesApart, EnoughInodes, ApartInv
  PROVE  ~died
  <1>1. SUFFICES ASSUME died PROVE FALSE
    OBVIOUS
  <1>2. Typed /\ LiveOwned /\ \A u \in Threads : Good(u)
    BY DEF ApartInv, Shared
  <1>3. PICK t \in Threads : /\ pc[t] = "create" /\ loc[t].op = "sym_link"
                             /\ NoneFree(freeinode_ts)
    BY <1>1 DEF ApartInv, DiesWhenFull
  <1>4. \A i \in Inumbers : Live(i)
    BY <1>2, <1>3 DEF NoneFree, Live, Typed, ThreadsTypeOK
  <1>5. PICK link : link = loc[t].link
    OBVIOUS
  <1>6. link \in Mine(t) /\ NoEntry(link) /\ link \in AllNames
    <2>1. LinkFree(t)
      BY <1>2, <1>3 DEF Good, AtLabel, Creating, MayAdd
    <2> QED
      BY <1>5, <2>1, MineCounted DEF LinkFree
  <1> DEFINE S == Inumbers \ {ROOT_DIR_INUM}
             T == AllNames \ {link}
             Is(n, i) == \E u \in Threads : NameFor(u, n, i)
             f == [i \in S |-> CHOOSE n \in T : Is(n, i)]
  <1>7. ASSUME NEW i \in S PROVE \E n \in T : Is(n, i)
    <2>1. PICK u \in Threads : Owns(u, i)
      BY <1>2, <1>4 DEF LiveOwned
    <2>2. PICK n : NameFor(u, n, i)
      BY <1>2, <2>1, OwnedNamed
    <2>3. n # link
      <3>1. SUFFICES ASSUME n = link PROVE FALSE
        OBVIOUS
      <3>2. u = t
        BY <1>6, <2>2, <3>1, OneOwner DEF NameFor
      <3>3. ~Holds(t, i)
        BY <1>3 DEF Holds, Unnamed
      <3> QED
        BY <1>6, <2>2, <3>1, <3>2, <3>3 DEF NameFor, Leads, NoEntry
    <2>4. n \in AllNames
      BY <2>2, MineCounted DEF NameFor
    <2> QED
      BY <2>2, <2>3, <2>4
  <1>8. f \in [S -> T]
    BY <1>7
  <1>9. \A i \in S : Is(f[i], i)
    BY <1>7
  <1>10. ASSUME NEW i \in S, NEW j \in S, f[i] = f[j] PROVE i = j
    <2>1. PICK n : n = f[i]
      OBVIOUS
    <2>2. Is(n, i) /\ Is(n, j)
      BY <1>9, <1>10, <2>1
    <2>3. PICK u \in Threads : NameFor(u, n, i)
      BY <2>2
    <2>4. PICK v \in Threads : NameFor(v, n, j)
      BY <2>2
    <2>5. u = v
      BY <2>3, <2>4, OneOwner DEF NameFor
    <2> QED
      BY <1>2, <2>3, <2>4, <2>5, NamesOne
  <1> HIDE DEF f
  <1>11. IsFiniteSet(S) /\ Cardinality(S) = INODE_TABLE_SIZE - 1
    <2>1. IsFiniteSet(Inumbers) /\ Cardinality(Inumbers) = INODE_TABLE_SIZE
      BY ThreadsAssumption, TableSize DEF Inumbers
    <2> QED
      BY <2>1, RootAndBlock, FS_RemoveElement
  <1>12. /\ IsFiniteSet(T) /\ Cardinality(T) = Cardinality(AllNames) - 1
         /\ Cardinality(AllNames) \in Nat
         /\ Cardinality(AllNames) <= 2 * Cardinality(Threads) /\ Cardinality(Threads) \in Nat
    BY <1>6, MineCounted, FS_RemoveElement, FS_CardinalityType DEF EnoughInodes
  <1>13. Cardinality(S) <= Cardinality(T)
    <2> HIDE DEF S, T, Is
    <2> QED
      BY <1>8, <1>10, <1>11, <1>12, NamedApart
  <1>14. INODE_TABLE_SIZE > 2 * Cardinality(Threads) /\ INODE_TABLE_SIZE \in Nat
    BY ThreadsAssumption DEF EnoughInodes
  <1> QED
    BY <1>11, <1>12, <1>13, <1>14

\* With an inode for each file and each symbolic link of the threads, besides
\* the root directory, no assertion fails and the process does not end.
THEOREM NeverDiesWithRoom ==
  ASSUME NamesApart, EnoughInodes
  PROVE  ApartSpec => []NeverDies
  <1>1. ApartInv => NeverDies
    BY RoomForInodes DEF NeverDies
  <1> QED
    BY <1>1, ApartInvariant, PTL

-----------------------------------------------------------------------------
(* An entry for each name.                                                 *)

LEMMA RoomForEntries ==
  ASSUME NamesApart, EnoughEntries, ApartInv
  PROVE  Cardinality(Adders(0)) <= Cardinality(Spare(0))
  <1>1. Typed /\ EntriesOwned /\ \A u \in Threads : Good(u)
    BY DEF ApartInv, Shared
  <1> DEFINE Used == {e \in DirSlots : dir_entry[e] # FreeEntry}
             U    == {NameAt(e) : e \in Used}
             A    == {NewName(loc[t]) : t \in Adders(0)}
  <1>2. ASSUME NEW t \in Adders(0)
        PROVE  t \in Threads /\ NewName(loc[t]) \in Mine(t) /\ NoEntry(NewName(loc[t]))
    BY <1>1, <1>2 DEF Adders, Good, AtLabel, Creating, MayAdd
  <1>3. ASSUME NEW e \in Used
        PROVE  \E t \in Threads : NameAt(e) \in Mine(t)
    BY <1>1 DEF EntriesOwned
  <1>4. U \subseteq AllNames /\ A \subseteq AllNames
    BY <1>2, <1>3, MineCounted
  <1>5. U \cap A = {}
    BY <1>2 DEF NoEntry
  <1>6. IsFiniteSet(DirSlots) /\ Cardinality(DirSlots) = MAX_DIR_ENTRIES
    BY ThreadsAssumption, TableSize DEF DirSlots
  <1>7. /\ IsFiniteSet(Used) /\ IsFiniteSet(Spare(0)) /\ IsFiniteSet(Adders(0))
        /\ IsFiniteSet(U) /\ IsFiniteSet(A) /\ IsFiniteSet(AllNames)
    <2>1. IsFiniteSet(AllNames) /\ IsFiniteSet(Threads)
      BY MineCounted DEF EnoughEntries
    <2>2. Adders(0) \in SUBSET Threads /\ Spare(0) \in SUBSET DirSlots
      BY DEF Adders, Spare
    <2> QED
      BY <1>4, <1>6, <2>1, <2>2, FS_Subset
  <1>8. /\ Cardinality(Used) \in Nat /\ Cardinality(Spare(0)) \in Nat /\ Cardinality(Adders(0)) \in Nat
        /\ Cardinality(U) \in Nat /\ Cardinality(A) \in Nat
        /\ Cardinality(AllNames) \in Nat /\ Cardinality(Threads) \in Nat
        /\ Cardinality(AllNames) <= 2 * Cardinality(Threads)
    BY <1>7, FS_CardinalityType, MineCounted DEF EnoughEntries
  <1>9. Cardinality(Spare(0)) = MAX_DIR_ENTRIES - Cardinality(Used)
    <2>1. Spare(0) = DirSlots \ Used /\ DirSlots \cap Used = Used
      BY SomeKinds DEF Spare
    <2>2. Cardinality(DirSlots \ Used) = Cardinality(DirSlots) - Cardinality(DirSlots \cap Used)
      BY <1>6, FS_Difference
    <2> QED
      BY <1>6, <2>1, <2>2
  <1>10. Cardinality(Used) <= Cardinality(U)
    <2> DEFINE f == [e \in Used |-> NameAt(e)]
    <2>1. f \in [Used -> U]
      OBVIOUS
    <2>2. ASSUME NEW x \in Used, NEW y \in Used, f[x] = f[y] PROVE x = y
      <3>1. NameAt(x) = NameAt(y)
        BY <2>2
      <3>2. PICK t \in Threads : NameAt(x) \in Mine(t)
        BY <1>3
      <3> QED
        BY <1>1, <3>1, <3>2 DEF Good, NamesOnce
    <2> HIDE DEF f, Used, U
    <2> QED
      BY <1>7, <2>1, <2>2, NamedApart
  <1>11. Cardinality(Adders(0)) <= Cardinality(A)
    <2> DEFINE f == [t \in Adders(0) |-> NewName(loc[t])]
    <2>1. f \in [Adders(0) -> A]
      OBVIOUS
    <2>2. ASSUME NEW x \in Adders(0), NEW y \in Adders(0), f[x] = f[y] PROVE x = y
      BY <1>2, <2>2, OneOwner
    <2> HIDE DEF f, A
    <2> QED
      BY <1>7, <2>1, <2>2, NamedApart
  <1> HIDE DEF Used, U, A
  <1>12. Cardinality(U) + Cardinality(A) <= Cardinality(AllNames)
    <2>1. /\ IsFiniteSet(U \cup A)
          /\ Cardinality(U \cup A) = Cardinality(U) + Cardinality(A) - Cardinality(U \cap A)
      BY <1>7, FS_Union
    <2>2. Cardinality(U \cap A) = 0
      BY <1>5, FS_EmptySet
    <2>3. Cardinality(U \cup A) <= Cardinality(AllNames)
      BY <1>4, <1>7, FS_Subset
    <2> QED
      BY <1>8, <2>1, <2>2, <2>3
  <1>13. MAX_DIR_ENTRIES >= 2 * Cardinality(Threads) /\ MAX_DIR_ENTRIES \in Nat
    BY ThreadsAssumption DEF EnoughEntries
  <1> QED
    BY <1>8, <1>9, <1>10, <1>11, <1>12, <1>13

-----------------------------------------------------------------------------
(* No thread that looks for a free entry comes to the end of the directory. *)

LEMMA RoomFinite ==
  ASSUME EnoughEntries, NEW k
  PROVE  /\ IsFiniteSet(Adders(k)) /\ Cardinality(Adders(k)) \in Nat
         /\ IsFiniteSet(Spare(k)) /\ Cardinality(Spare(k)) \in Nat
         /\ IsFiniteSet(Adders(k)') /\ Cardinality(Adders(k)') \in Nat
         /\ IsFiniteSet(Spare(k)') /\ Cardinality(Spare(k)') \in Nat
  <1>1. IsFiniteSet(DirSlots) /\ IsFiniteSet(Threads)
    BY ThreadsAssumption, TableSize DEF DirSlots, EnoughEntries
  <1>2. /\ Adders(k) \in SUBSET Threads /\ Spare(k) \in SUBSET DirSlots
        /\ Adders(k)' \in SUBSET Threads /\ Spare(k)' \in SUBSET DirSlots
    BY DEF Adders, Spare
  <1> QED
    BY <1>1, <1>2, FS_Subset, FS_CardinalityType

\* Who begins to look for an entry begins with the first one, and who does
\* not look for one takes none.
LEMMA AddStarts ==
  ASSUME Typed, NEW t \in Threads, Good(t), Step(t) \/ ApartCall(t), pc[t] # "add"
  PROVE  /\ pc'[t] = "add" => loc'[t].slot = 0
         /\ \A e \in DirSlots : dir_entry[e] = FreeEntry => dir_entry'[e] = FreeEntry
  <1>1. \A where, v : Go(t, where, v) => pc'[t] = where /\ loc'[t] = v
    BY DEF Go, Typed
  <1>2. pc[t] \notin {"find", "clear", "u_done", "delete"} => loc[t].slot = 0
    BY DEF Good, AtLabel, Idling
  <1>a. pc \in [Threads -> Labels]
    BY DEF Typed
  <1>3. ASSUME ApartCall(t) PROVE pc'[t] # "add" /\ UNCHANGED dir_entry
    <2>1. \A v : Go(t, "find", v) \/ Go(t, "get", v) => pc'[t] # "add"
      BY <1>1
    <2>2. UNCHANGED tables /\ \E v : Go(t, "find", v) \/ Go(t, "get", v)
      BY <1>3 DEF ApartCall, ApartOpens, ApartLinks, ApartUnlinks, UsesHandle,
                  CallOpen, CallLink, CallSymLink, CallUnlink, CallOnHandle
    <2> QED
      BY <2>1, <2>2 DEF tables
  <1>4. ASSUME Find(t) PROVE pc'[t] # "add" /\ UNCHANGED dir_entry
    <2>1. loc[t].then # "add"
      BY CallFields DEF Typed, Nexts
    <2> QED
      BY <1>1, <1>4, <2>1 DEF Find, Return, tables
  <1>5. ASSUME InodeAlloc(t) \/ InodeDelete(t) PROVE pc'[t] # "add" /\ UNCHANGED dir_entry
    <2>1. Die => pc'[t] # "add" /\ UNCHANGED dir_entry
      BY DEF Die, tables
    <2>2. CASE InodeAlloc(t)
      BY <1>a, <2>1, <2>2 DEF InodeAlloc, Return, Go, tables
    <2>3. CASE InodeDelete(t)
      BY <1>1, <2>1, <2>3 DEF InodeDelete, Return
    <2> QED
      BY <1>5, <2>2, <2>3
  <1>6. ASSUME InodeInit(t) \/ SymLinkStores(t) PROVE loc'[t].slot = 0 /\ UNCHANGED dir_entry
    BY <1>1, <1>2, <1>6 DEF InodeInit, SymLinkStores, At
  <1>7. ASSUME LinkLocks(t) PROVE (pc'[t] = "add" => loc'[t].slot = 0) /\ UNCHANGED dir_entry
    BY <1>1, <1>2, <1>7 DEF LinkLocks, At, Return, tables
  <1>8. ASSUME OpenFirst(t) \/ OpenSecond(t) \/ OpenAdds(t) PROVE pc'[t] # "add" /\ UNCHANGED dir_entry
    BY <1>1, <1>8 DEF OpenFirst, OpenSecond, OpenUnderLock, OpenAdds
  <1>9. ASSUME LinkCounts(t) \/ SymLinkChecks(t) \/ SymLinkAllocs(t) \/ SymLinkSizes(t)
        PROVE  pc'[t] # "add" /\ UNCHANGED dir_entry
    <2>1. CASE LinkCounts(t) \/ SymLinkSizes(t)
      BY <1>1, <2>1 DEF LinkCounts, SymLinkSizes, Return
    <2>2. CASE SymLinkChecks(t)
      BY <1>1, <2>2 DEF SymLinkChecks, tables
    <2>3. CASE SymLinkAllocs(t)
      BY <1>a, <2>3 DEF SymLinkAllocs, Go
    <2> QED
      BY <1>9, <2>1, <2>2, <2>3
  <1>10. ASSUME UnlinkLocks(t) \/ UnlinkCounts(t) PROVE pc'[t] # "add" /\ UNCHANGED dir_entry
    BY <1>1, <1>10 DEF UnlinkLocks, UnlinkCounts, Return, tables
  <1>11. ASSUME UnlinkClears(t)
         PROVE  /\ pc'[t] # "add"
                /\ \A e \in DirSlots : dir_entry[e] = FreeEntry => dir_entry'[e] = FreeEntry
    BY <1>1, <1>11 DEF UnlinkClears, Return, Typed, ThreadsTypeOK
  <1>12. ASSUME GetOpenFileEntry(t) \/ CloseChecks(t) \/ CloseFrees(t)
         PROVE  pc'[t] # "add" /\ UNCHANGED dir_entry
    <2>1. pc[t] = "get" => loc[t].op # "add"
      BY DEF Good, AtLabel, OnHandle
    <2> QED
      BY <1>1, <1>12, <2>1 DEF GetOpenFileEntry, CloseChecks, CloseFrees, At, Return, Die, tables
  <1>13. ASSUME WriteFindsInode(t) \/ WritePicksBlock(t) \/ WriteCopies(t)
         PROVE  pc'[t] # "add" /\ UNCHANGED dir_entry
    <2>1. CASE WriteFindsInode(t)
      BY <1>1, <2>1 DEF WriteFindsInode, tables
    <2>2. CASE WritePicksBlock(t)
      BY <1>a, <2>2 DEF WritePicksBlock, Return, Go
    <2>3. CASE WriteCopies(t)
      BY <1>1, <2>3 DEF WriteCopies, Return
    <2> QED
      BY <1>13, <2>1, <2>2, <2>3
  <1>14. ASSUME ReadUnderLock(t) PROVE pc'[t] # "add" /\ UNCHANGED dir_entry
    BY <1>1, <1>14 DEF ReadUnderLock, At
  <1>15. ~AddDirEntry(t)
    BY DEF AddDirEntry, At
  <1> QED
    BY <1>3, <1>4, <1>5, <1>6, <1>7, <1>8, <1>9, <1>10, <1>11, <1>12, <1>13, <1>14, <1>15 DEF Step

LEMMA AddsHere ==
  ASSUME NEW t \in Threads, Step(t) \/ ApartCall(t), pc[t] = "add"
  PROVE  AddDirEntry(t)
  <1>1. ~ApartCall(t)
    BY DEF ApartCall, ApartOpens, ApartLinks, ApartUnlinks, UsesHandle,
           CallOpen, CallLink, CallSymLink, CallUnlink, CallOnHandle, MayCall, At
  <1> QED
    BY <1>1 DEF Step, Find, InodeAlloc, InodeInit, InodeDelete, OpenFirst, OpenSecond,
                OpenAdds, LinkLocks, LinkCounts, SymLinkChecks, SymLinkAllocs, SymLinkStores,
                SymLinkSizes, UnlinkLocks, UnlinkClears, UnlinkCounts, GetOpenFileEntry,
                CloseChecks, CloseFrees, WriteFindsInode, WritePicksBlock, WriteCopies,
                ReadUnderLock, At

LEMMA RoomEverywhere ==
  ASSUME NamesApart, EnoughEntries, ApartInv, RoomAhead
  PROVE  /\ \A k \in Slots : Cardinality(Adders(k)) <= Cardinality(Spare(k))
         /\ \A t \in Threads : ~FindsDirFull(t)
  <1>1. \A k \in Slots : Cardinality(Adders(k)) <= Cardinality(Spare(k))
    <2>1. \A k \in Slots : k = 0 \/ k \in 1 .. MAX_DIR_ENTRIES
      BY ThreadsAssumption DEF Slots
    <2> QED
      BY <2>1, RoomForEntries DEF RoomAhead
  <1>2. ASSUME NEW t \in Threads, FindsDirFull(t) PROVE FALSE
    <2>1. PICK k : k = loc[t].slot
      OBVIOUS
    <2>2. k \in Slots /\ k \notin DirSlots /\ t \in Adders(k)
      <3>1. k \in Slots /\ k \in Int
        BY <2>1, CallFields, ThreadsAssumption DEF ApartInv, Typed, Slots
      <3> QED
        BY <1>2, <2>1, <3>1 DEF FindsDirFull, Adders
    <2>3. Spare(k) = {}
      BY <2>2, SomeKinds DEF Spare, Slots, DirSlots
    <2>4. Cardinality(Adders(k)) = 0
      BY <1>1, <2>2, <2>3, RoomFinite, FS_EmptySet
    <2> QED
      BY <2>2, <2>4, RoomFinite, FS_EmptySet
  <1> QED
    BY <1>1, <1>2

LEMMA RoomStep ==
  ASSUME NamesApart, EnoughEntries, ApartInv, RoomAhead, NEW t \in Threads,
         Step(t) \/ ApartCall(t), NEW k \in 1 .. MAX_DIR_ENTRIES
  PROVE  Cardinality(Adders(k)') <= Cardinality(Spare(k)')
  <1>1. Typed /\ Shared /\ EntriesOwned /\ Good(t) /\ k \in Slots /\ k \in Int
    BY ThreadsAssumption DEF ApartInv, Shared, Slots
  <1>2. Cardinality(Adders(k)) <= Cardinality(Spare(k))
    BY <1>1, RoomEverywhere
  <1>3. ASSUME NEW u \in Threads, u # t PROVE pc'[u] = pc[u] /\ loc'[u] = loc[u]
    BY <1>1, <1>3, StepFine DEF Fine, Confined, AbortsFull
  <1>4. ASSUME Adders(k)' \subseteq Adders(k), Spare(k) \subseteq Spare(k)'
        PROVE  Cardinality(Adders(k)') <= Cardinality(Spare(k)')
    <2>1. Cardinality(Adders(k)') <= Cardinality(Adders(k))
      BY <1>4, RoomFinite, FS_Subset
    <2>2. Cardinality(Spare(k)) <= Cardinality(Spare(k)')
      BY <1>4, RoomFinite, FS_Subset
    <2> QED
      BY <1>2, <2>1, <2>2, RoomFinite
  <1>5. CASE pc[t] # "add"
    <2>1. /\ pc'[t] = "add" => loc'[t].slot = 0
          /\ \A e \in DirSlots : dir_entry[e] = FreeEntry => dir_entry'[e] = FreeEntry
      BY <1>1, <1>5, AddStarts
    <2>2. FreeEntry' = FreeEntry
      BY DEF FreeEntry
    <2>3. Spare(k) \subseteq Spare(k)'
      BY <2>1, <2>2 DEF Spare
    <2>4. Adders(k)' \subseteq Adders(k)
      BY <1>3, <2>1 DEF Adders
    <2> QED
      BY <1>4, <2>3, <2>4
  <1>6. CASE pc[t] = "add"
    <2>1. PICK s : s = loc[t].slot
      OBVIOUS
    <2>2. AddDirEntry(t) /\ s \in DirSlots /\ s \in Int /\ s >= 0
      BY <1>6, <2>1, AddsHere, RoomEverywhere, SomeKinds DEF FindsDirFull
    <2>3. \A u \in Threads : u # t =>
            (u \in Adders(k)' <=> u \in Adders(k))
      BY <1>3 DEF Adders
    <2>4. t \in Adders(k) <=> s >= k
      BY <1>6, <2>1 DEF Adders
    <2>5. CASE InumAt(s) = -1
      <3>1. pc'[t] # "add"
        <4>1. loc[t].op \in {"open", "link", "sym_link"}
          BY <1>1, <1>6 DEF Good, AtLabel, Creating
        <4>2. (CASE loc[t].op = "open" -> "o_add"
                 [] loc[t].op = "link" -> "l_done"
                 [] loc[t].op = "sym_link" -> "s_done") # "add"
          BY <4>1
        <4>3. \A where, v : Go(t, where, v) => pc'[t] = where
          BY <1>1 DEF Go, Typed
        <4> QED
          BY <2>1, <2>2, <2>5, <4>2, <4>3 DEF AddDirEntry, InumAt
      <3>2. \A e \in DirSlots : e # s => dir_entry'[e] = dir_entry[e]
        BY <1>1, <2>1, <2>2, <2>5 DEF AddDirEntry, InumAt, Typed, ThreadsTypeOK
      <3>3. Adders(k)' = Adders(k) \ {t}
        BY <2>3, <3>1 DEF Adders
      <3>4. Spare(k) \ {s} \subseteq Spare(k)'
        BY <3>2 DEF Spare, FreeEntry
      <3>5. CASE s < k
        <4>1. s \notin Spare(k)
          BY <1>1, <2>2, <3>5 DEF Spare
        <4> QED
          BY <1>4, <3>3, <3>4, <4>1
      <3>6. CASE s >= k
        <4>1. Cardinality(Adders(k)') = Cardinality(Adders(k)) - 1
          BY <2>4, <3>3, <3>6, RoomFinite, FS_RemoveElement
        <4>2. Cardinality(Spare(k) \ {s}) >= Cardinality(Spare(k)) - 1
          <5>1. IsFiniteSet(Spare(k)) /\ Cardinality(Spare(k)) \in Nat
            BY RoomFinite
          <5>2. Cardinality(Spare(k) \ {s})
                  = IF s \in Spare(k) THEN Cardinality(Spare(k)) - 1
                    ELSE Cardinality(Spare(k))
            BY <5>1, FS_RemoveElement
          <5> QED
            BY <5>1, <5>2
        <4>3. Cardinality(Spare(k) \ {s}) <= Cardinality(Spare(k)')
          BY <3>4, RoomFinite, FS_Subset
        <4>4. Cardinality(Spare(k) \ {s}) \in Nat
          BY RoomFinite, FS_RemoveElement, FS_CardinalityType
        <4> QED
          BY <1>2, <4>1, <4>2, <4>3, <4>4, RoomFinite
      <3> QED
        BY <1>1, <2>2, <3>5, <3>6
    <2>6. CASE InumAt(s) # -1
      <3>1. pc'[t] = "add" /\ loc'[t].slot = s + 1 /\ dir_entry' = dir_entry
        BY <1>1, <2>1, <2>2, <2>6, AddGoesOnFine
      <3>2. t \in Adders(k)' <=> s + 1 >= k
        BY <3>1 DEF Adders
      <3>3. Spare(k)' = Spare(k)
        BY <3>1 DEF Spare, FreeEntry
      <3>4. CASE k # s + 1
        <4>1. Adders(k)' \subseteq Adders(k)
          BY <1>1, <2>2, <2>3, <2>4, <3>2, <3>4 DEF Adders
        <4> QED
          BY <1>4, <3>3, <4>1
      <3>5. CASE k = s + 1
        <4>1. Spare(k) = Spare(s)
          <5>1. dir_entry[s] # FreeEntry
            BY <2>6 DEF InumAt, FreeEntry
          <5>2. \A e \in DirSlots : e >= s + 1 <=> e >= s /\ e # s
            BY <2>2, SomeKinds
          <5> QED
            BY <3>5, <5>1, <5>2 DEF Spare
        <4>2. Adders(k)' \subseteq Adders(s)
          <5>1. \A u \in Threads : pc[u] = "add" => loc[u].slot \in Int
            BY <1>1, CallFields, ThreadsAssumption DEF Typed, Slots
          <5> QED
            BY <1>3, <1>6, <2>1, <2>2, <3>5, <5>1 DEF Adders
        <4>3. Cardinality(Adders(s)) <= Cardinality(Spare(s))
          BY <1>1, <2>2, SomeKinds, RoomEverywhere
        <4>4. Cardinality(Adders(k)') <= Cardinality(Adders(s))
          BY <4>2, RoomFinite, FS_Subset
        <4> QED
          BY <3>3, <4>1, <4>3, <4>4, RoomFinite
      <3> QED
        BY <3>4, <3>5
    <2> QED
      BY <2>5, <2>6
  <1> QED
    BY <1>5, <1>6

LEMMA RoomInvStep ==
  ASSUME NamesApart, EnoughEntries, ApartInv, RoomInv, [ApartNext]_vars
  PROVE  RoomInv'
  <1>1. Typed /\ Shared /\ BlocksUsed /\ RoomAhead /\ \A u \in Threads : Good(u)
    BY DEF ApartInv, RoomInv
  <1>2. ASSUME NEW t \in Threads, Step(t) \/ ApartCall(t)
        PROVE  RoomInv'
    <2>1. RoomAhead'
      BY <1>1, <1>2, RoomStep DEF RoomAhead
    <2>2. CASE Fine(t) /\ Saves(t)
      BY <1>1, <2>1, <2>2, ConfinedSaves DEF Fine, RoomInv
    <2>3. CASE AbortsFull(t)
      BY <1>1, <2>1, <2>3, SameButDied DEF AbortsFull, RoomInv
    <2> QED
      BY <1>1, <1>2, <2>2, <2>3, StepFine, RoomEverywhere
  <1>3. CASE UNCHANGED vars
    <2>1. UNCHANGED <<tables, locks, pc, loc, callerVars>> /\ died' \in BOOLEAN
      BY <1>1, <1>3 DEF vars, Typed, ThreadsTypeOK
    <2>2. BlocksUsed'
      BY <1>1, <2>1, SameButDied
    <2>3. RoomAhead'
      BY <1>1, <2>1 DEF RoomAhead, Adders, Spare, FreeEntry, tables
    <2> QED
      BY <2>2, <2>3 DEF RoomInv
  <1> QED
    BY <1>2, <1>3 DEF ApartNext

\* With an entry for each name, no thread finds the directory full, and no
\* block is lost.
THEOREM RoomInvariant ==
  ASSUME NamesApart, EnoughEntries
  PROVE  ApartSpec => []RoomInv
  <1>1. Init => RoomInv
    <2>1. ASSUME Init, NEW k \in 1 .. MAX_DIR_ENTRIES
          PROVE  Cardinality(Adders(k)) <= Cardinality(Spare(k))
      <3>1. Adders(k) = {}
        BY <2>1 DEF Init, Adders
      <3> QED
        BY <3>1, FS_EmptySet, RoomFinite
    <2> QED
      BY <2>1, InvInit DEF RoomInv, RoomAhead
  <1>2. ApartInv /\ RoomInv /\ [ApartNext]_vars => RoomInv'
    BY RoomInvStep
  <1> QED
    BY <1>1, <1>2, ApartInvariant, PTL DEF ApartSpec

-----------------------------------------------------------------------------
(* No call in progress: the tables agree.                                  *)

AtRest == \A t \in Threads : pc[t] = "idle"

LEMMA RestOwns ==
  ASSUME AtRest, NEW t \in Threads
  PROVE  /\ ~Fills(t)
         /\ \A i : Owns(t, i) <=> Named(t, i)
         /\ \A i : Sized(t, i) <=> Named(t, i) /\ inode_table[i].i_size > 0
  BY DEF AtRest, Fills, Owns, Holds, Unnamed, Sized

\* The links of an inode are the entries of its only owner.
LEMMA RestLinks ==
  ASSUME NamesApart, ApartInv, AtRest, NEW i \in Inumbers, i # ROOT_DIR_INUM
  PROVE  /\ Live(i) => inode_table[i].cnt_hardlinks > 0
         /\ Cardinality({e \in DirSlots : dir_entry[e].d_inumber = i})
              = IF Live(i) THEN inode_table[i].cnt_hardlinks ELSE 0
  <1>1. /\ Typed /\ EntriesOwned /\ InodesApart /\ LiveOwned
        /\ \A u \in Threads : Good(u)
    BY DEF ApartInv, Shared
  <1> DEFINE links == {e \in DirSlots : dir_entry[e].d_inumber = i}
  <1>2. ASSUME NEW e \in links
        PROVE  \E u \in Threads : NameAt(e) \in Mine(u) /\ InumAt(e) = i /\ Named(u, i)
    <2>1. e \in DirSlots /\ InumAt(e) = i
      BY DEF InumAt
    <2>2. dir_entry[e] # FreeEntry
      BY <2>1 DEF InumAt, FreeEntry, Inumbers
    <2>3. PICK u \in Threads : NameAt(e) \in Mine(u)
      BY <1>1, <2>1, <2>2 DEF EntriesOwned
    <2> QED
      BY <2>1, <2>3 DEF Named
  <1>3. CASE Live(i)
    <2>1. PICK t \in Threads : Owns(t, i)
      BY <1>1, <1>3 DEF LiveOwned
    <2>2. Named(t, i)
      BY <2>1, RestOwns
    <2>3. links \subseteq EntriesOf(t, i)
      <3>1. ASSUME NEW e \in links PROVE e \in EntriesOf(t, i)
        <4>1. PICK u \in Threads : NameAt(e) \in Mine(u) /\ InumAt(e) = i /\ Named(u, i)
          BY <1>2
        <4>2. u = t
          BY <1>1, <2>1, <4>1, RestOwns DEF InodesApart
        <4> QED
          BY <4>1, <4>2 DEF EntriesOf
      <3> QED
        BY <3>1
    <2>4. links = EntriesOf(t, i)
      BY <2>3 DEF EntriesOf, InumAt
    <2>5. inode_table[i].cnt_hardlinks = Cardinality(EntriesOf(t, i)) + 0 - 0
      <3>1. pc[t] # "u_done" /\ pc[t] # "l_done"
        BY DEF AtRest
      <3> QED
        BY <1>1, <2>2, <3>1 DEF Good, CountedFor
    <2>6. Cardinality(EntriesOf(t, i)) \in Nat /\ Cardinality(EntriesOf(t, i)) # 0
      BY <2>2, EntriesCount
    <2> QED
      BY <1>3, <2>4, <2>5, <2>6
  <1>4. CASE ~Live(i)
    <2>1. links = {}
      <3>1. SUFFICES ASSUME NEW e \in links PROVE FALSE
        OBVIOUS
      <3>2. PICK u \in Threads : Named(u, i)
        BY <1>2
      <3> QED
        BY <1>1, <1>4, <3>2 DEF Good, OwnsLive, Owns
    <2> QED
      BY <1>4, <2>1, FS_EmptySet
  <1> QED
    BY <1>3, <1>4

\* The inodes that claim a block.
Claimers(b) ==
  {i \in Inumbers : /\ Live(i) /\ inode_table[i].i_size > 0
                    /\ inode_table[i].i_data_block = b}

LEMMA RestClaims ==
  ASSUME ApartInv, AtRest, NEW i \in Inumbers, NEW b, i \in Claimers(b), i # ROOT_DIR_INUM
  PROVE  \E t \in Threads : Sized(t, i) /\ Uses(t, b) /\ ClaimsBlock(t, i)
  <1>1. LiveOwned /\ \A u \in Threads : Good(u)
    BY DEF ApartInv, Shared
  <1>2. Live(i) /\ inode_table[i].i_size > 0 /\ inode_table[i].i_data_block = b
    BY DEF Claimers
  <1>3. PICK t \in Threads : Owns(t, i)
    BY <1>1, <1>2 DEF LiveOwned
  <1>4. Sized(t, i)
    BY <1>2, <1>3, RestOwns
  <1>5. Uses(t, b)
    BY <1>2, <1>4 DEF Uses
  <1>6. ClaimsBlock(t, i)
    BY <1>1, <1>4 DEF Good, OwnContents
  <1> QED
    BY <1>4, <1>5, <1>6

LEMMA RestBlocks ==
  ASSUME ApartInv, BlocksUsed, AtRest, NEW b \in Blocks, free_blocks[b] = "TAKEN"
  PROVE  \E i : Claimers(b) = {i}
  <1>1. /\ BlocksApart /\ RootKept /\ \A u \in Threads : Good(u)
    BY DEF ApartInv, Shared
  <1>2. CASE b = 0
    <2>1. ROOT_DIR_INUM \in Claimers(b)
      BY <1>1, <1>2, RootAndBlock DEF RootKept, Claimers
    <2>2. ASSUME NEW i \in Claimers(b), i # ROOT_DIR_INUM PROVE FALSE
      <3>1. i \in Inumbers /\ inode_table[i].i_data_block = b
        BY DEF Claimers
      <3>2. PICK t \in Threads : ClaimsBlock(t, i)
        BY <2>2, <3>1, RestClaims
      <3> QED
        BY <1>2, <3>1, <3>2 DEF ClaimsBlock
    <2> QED
      BY <2>1, <2>2
  <1>3. CASE b # 0
    <2>1. PICK t \in Threads : Uses(t, b)
      BY <1>3 DEF BlocksUsed
    <2>2. PICK i \in Inumbers : Sized(t, i) /\ inode_table[i].i_data_block = b
      BY <2>1, RestOwns DEF Uses
    <2>3. i \in Claimers(b)
      <3>1. Live(i) /\ inode_table[i].i_size > 0
        BY <1>1, <2>2 DEF Good, OwnsLive, Sized
      <3> QED
        BY <2>2, <3>1 DEF Claimers
    <2>4. ASSUME NEW j \in Claimers(b) PROVE j = i
      <3>1. j \in Inumbers /\ inode_table[j].i_data_block = b
        BY DEF Claimers
      <3>2. j # ROOT_DIR_INUM
        BY <1>1, <1>3, <3>1 DEF RootKept
      <3>3. PICK u \in Threads : Sized(u, j) /\ Uses(u, b) /\ ClaimsBlock(u, j)
        BY <2>4, <3>1, <3>2, RestClaims
      <3>4. u = t
        BY <1>1, <2>1, <3>3 DEF BlocksApart
      <3>5. ClaimsBlock(t, i)
        BY <1>1, <2>2 DEF Good, OwnContents
      <3> QED
        BY <2>2, <3>1, <3>3, <3>4, <3>5 DEF ClaimsBlock
    <2> QED
      BY <2>3, <2>4
  <1> QED
    BY <1>2, <1>3

\* With an entry for each name, whenever no call is in progress the counters of
\* links are those of the entries, no live inode is without a link, and each
\* block that is taken is claimed by one file and no more.
THEOREM AgreesAtRest ==
  ASSUME NamesApart, EnoughEntries
  PROVE  ApartSpec => []AgreeAtRest
  <1>1. ASSUME ApartInv, RoomInv PROVE AgreeAtRest
    <2>1. SUFFICES ASSUME AtRest
                   PROVE  /\ \A i \in Inumbers \ {ROOT_DIR_INUM} :
                               LET links == Cardinality({e \in DirSlots : dir_entry[e].d_inumber = i})
                               IN  links = IF Live(i) THEN inode_table[i].cnt_hardlinks ELSE 0
                          /\ \A i \in Inumbers : Live(i) => inode_table[i].cnt_hardlinks > 0
                          /\ \A b \in Blocks : free_blocks[b] = "TAKEN" =>
                               Cardinality({i \in Inumbers : /\ Live(i) /\ inode_table[i].i_size > 0
                                                             /\ inode_table[i].i_data_block = b}) = 1
      BY DEF AgreeAtRest, AtRest
    <2>2. ASSUME NEW i \in Inumbers \ {ROOT_DIR_INUM}
          PROVE  LET links == Cardinality({e \in DirSlots : dir_entry[e].d_inumber = i})
                 IN  links = IF Live(i) THEN inode_table[i].cnt_hardlinks ELSE 0
      BY <1>1, <2>1, <2>2, RestLinks
    <2>3. ASSUME NEW i \in Inumbers, Live(i)
          PROVE  inode_table[i].cnt_hardlinks > 0
      <3>1. CASE i = ROOT_DIR_INUM
        BY <1>1, <3>1 DEF ApartInv, Shared, RootKept
      <3> QED
        BY <1>1, <2>1, <2>3, <3>1, RestLinks
    <2>4. ASSUME NEW b \in Blocks, free_blocks[b] = "TAKEN"
          PROVE  Cardinality({i \in Inumbers : /\ Live(i) /\ inode_table[i].i_size > 0
                                               /\ inode_table[i].i_data_block = b}) = 1
      <3>1. PICK i : Claimers(b) = {i}
        BY <1>1, <2>1, <2>4, RestBlocks DEF RoomInv
      <3>2. Cardinality(Claimers(b)) = 1
        BY <3>1, FS_Singleton
      <3> QED
        BY <3>2 DEF Claimers
    <2> QED
      BY <2>2, <2>3, <2>4
  <1> QED
    BY <1>1, ApartInvariant, RoomInvariant, PTL
=============================================================================
