---------------------------- MODULE TfsThreads ----------------------------
(***************************************************************************)
(* The library of exercise1/fs called by several threads, lock by lock.    *)
(*                                                                         *)
(* A step runs from one point where a thread may have to wait, or where    *)
(* what it does next can be seen by the others, to the next one:           *)
(*  - the mutexes lock_free_inode, lock_inode_table and lock_free_block and *)
(*    the locks of directory entries are held for one step only;           *)
(*  - the root inode is only ever locked for reading, so never waited for; *)
(*  - inode locks are held across steps by tfs_link, tfs_sym_link and      *)
(*    tfs_unlink, and lock_file_entries by nobody, until a call returns    *)
(*    without giving it back; inode_lock and lock_file_entries record it;  *)
(*  - the lock of an open file covers one step of tfs_read or tfs_write.   *)
(*                                                                         *)
(* A block holds one unit: nothing yet, the data of the thread that wrote  *)
(* it, or the name a symbolic link stores (TfsLinks has the characters).   *)
(***************************************************************************)
EXTENDS Integers, Sequences, FiniteSets, Functions

CONSTANTS
  Threads,
  Names,
  NoName,             \* a d_name filled with zeros
  Garbage,            \* what a block holds before it is written
  Nobody,             \* holder of a free lock
  INODE_TABLE_SIZE,
  DATA_BLOCKS,
  MAX_OPEN_FILES,
  MAX_DIR_ENTRIES,
  OpenModes,          \* modes the threads pass to tfs_open
  File, Link,         \* the two names each thread keeps to itself in ApartSpec
  Existing,           \* threads whose file has been written before the start
  MAX_CALLS           \* calls the threads make in all (a bound for TLC)

ASSUME ThreadsAssumption ==
  /\ INODE_TABLE_SIZE \in Nat \ {0}
  /\ DATA_BLOCKS \in Nat \ {0}
  /\ MAX_OPEN_FILES \in Nat
  /\ MAX_DIR_ENTRIES \in Nat
  /\ MAX_CALLS \in Nat
  /\ Existing \in Seq(Threads)
  /\ Len(Existing) < INODE_TABLE_SIZE /\ Len(Existing) < DATA_BLOCKS
  /\ Len(Existing) <= MAX_DIR_ENTRIES
  /\ File \in [Threads -> Names] /\ Link \in [Threads -> Names]
  /\ OpenModes \subseteq SUBSET {"CREAT", "TRUNC", "APPEND"}
  /\ NoName \notin Names
  /\ Nobody \notin Threads
  /\ Garbage \notin Threads \cup Names

VARIABLES
  freeinode_ts, inode_table, inode_lock,
  dir_entry,
  free_blocks, fs_data,
  free_open_file_entries, open_file_table, lock_file_entries,
  died,      \* an assertion failed
  pc,        \* where each thread is
  loc,       \* the variables of its call
  calls,     \* how many calls it has begun
  handles,   \* the handles it was given and has not closed
  seen       \* what its last tfs_read gave

inodeVars  == <<freeinode_ts, inode_table>>
blockVars  == <<free_blocks, fs_data>>
fileVars   == <<free_open_file_entries, open_file_table>>
tables     == <<inodeVars, dir_entry, blockVars, fileVars>>
locks      == <<inode_lock, lock_file_entries>>
callerVars == <<calls, handles, seen>>
vars == <<tables, locks, died, pc, loc, callerVars>>

ROOT_DIR_INUM == 0

Inumbers == 0 .. INODE_TABLE_SIZE - 1
Blocks   == 0 .. DATA_BLOCKS - 1
Handles  == 0 .. MAX_OPEN_FILES - 1
DirSlots == 0 .. MAX_DIR_ENTRIES - 1

NewInode(soft) == [i_size |-> 0, i_data_block |-> -1, cnt_hardlinks |-> 1, is_softlink |-> soft]
FreeEntry == [d_name |-> NoName, d_inumber |-> -1]

\* The variables of a call, before it starts.
NoCall ==
  [op |-> "none", name |-> NoName, link |-> NoName, mode |-> {}, fhandle |-> -1,
   inum |-> -1, slot |-> 0, block |-> -1, offset |-> 0, result |-> 0, then |-> "idle"]

IsFirstFree(table, i) ==
  table[i] = "FREE" /\ \A j \in DOMAIN table : j < i => table[j] = "TAKEN"

NoneFree(table) == \A i \in DOMAIN table : table[i] = "TAKEN"

Take(table, i) == [table EXCEPT ![i] = "TAKEN"]
Free(table, i) == [table EXCEPT ![i] = "FREE"]

-----------------------------------------------------------------------------
(* Threads and locks.                                                      *)

At(t, where) == ~died /\ pc[t] = where

\* t goes on at where, with these values in its variables.
Go(t, where, values) ==
  /\ pc' = [pc EXCEPT ![t] = where]
  /\ loc' = [loc EXCEPT ![t] = values]

MayCall(t) == At(t, "idle") /\ FoldFunction(+, 0, calls) < MAX_CALLS

\* The call of t is over.
Return(t) == Go(t, "idle", NoCall) /\ UNCHANGED callerVars

Unlocked(i) == inode_lock[i] = Nobody
Lock(t, i)  == Unlocked(i) /\ inode_lock' = [inode_lock EXCEPT ![i] = t]
Unlock(i)   == inode_lock' = [inode_lock EXCEPT ![i] = Nobody]

\* An assertion fails and the process ends.
Die == died' = TRUE /\ UNCHANGED <<tables, locks, pc, loc, callerVars>>

-----------------------------------------------------------------------------
(* find_in_dir, one entry at a time.  The thread goes on at loc.then when   *)
(* the name is found; when it is not, only tfs_open with CREAT goes on.    *)

Matches(e, name) == dir_entry[e].d_inumber # -1 /\ dir_entry[e].d_name = name

Find(t) ==
  LET c == loc[t]
  IN  /\ At(t, "find")
      /\ \/ /\ c.slot \in DirSlots /\ Matches(c.slot, c.name)
            /\ Go(t, c.then, [c EXCEPT !.inum = dir_entry[c.slot].d_inumber, !.slot = 0])
            /\ UNCHANGED callerVars
         \/ /\ c.slot \in DirSlots /\ ~Matches(c.slot, c.name)
            /\ Go(t, "find", [c EXCEPT !.slot = @ + 1])
            /\ UNCHANGED callerVars
         \/ /\ c.slot \notin DirSlots /\ c.then = "o_first" /\ "CREAT" \in c.mode
            /\ Go(t, "create", [c EXCEPT !.slot = 0])
            /\ UNCHANGED callerVars
         \/ /\ c.slot \notin DirSlots /\ ~(c.then = "o_first" /\ "CREAT" \in c.mode)
            /\ Return(t)
      /\ UNCHANGED <<tables, locks, died>>

-----------------------------------------------------------------------------
(* inode_create and inode_delete, for tfs_open, tfs_sym_link, tfs_unlink.   *)

\* mutant: the inode is not marked TAKEN
AllocUnmarked(t) ==
  /\ At(t, "create")
  /\ \E i \in Inumbers :
       /\ IsFirstFree(freeinode_ts, i)
       /\ Go(t, "init", [loc[t] EXCEPT !.inum = i])
  /\ UNCHANGED <<tables, locks, died, callerVars>>

InodeAlloc(t) ==
  /\ At(t, "create")
  /\ \/ \E i \in Inumbers :
          /\ IsFirstFree(freeinode_ts, i)
          /\ freeinode_ts' = Take(freeinode_ts, i)
          /\ Go(t, "init", [loc[t] EXCEPT !.inum = i])
          /\ UNCHANGED <<inode_table, dir_entry, blockVars, fileVars, locks, died, callerVars>>
     \/ /\ NoneFree(freeinode_ts) /\ loc[t].op = "open"
        /\ Return(t)
        /\ UNCHANGED <<tables, locks, died>>
     \/ NoneFree(freeinode_ts) /\ loc[t].op = "sym_link" /\ Die   \* inode_get(-1)

\* mutant: the counter starts at 0
InitUncounted(t) ==
  LET c == loc[t]
  IN  /\ At(t, "init")
      /\ inode_table' = [inode_table EXCEPT ![c.inum] =
           [NewInode(c.op = "sym_link") EXCEPT !.cnt_hardlinks = 0]]
      /\ Unlock(c.inum)
      /\ Go(t, IF c.op = "open" THEN "add" ELSE "s_block", c)
      /\ UNCHANGED <<freeinode_ts, dir_entry, blockVars, fileVars, lock_file_entries, died,
                     callerVars>>

\* The lock of the inode is initialised too, whoever holds it.
InodeInit(t) ==
  LET c == loc[t]
  IN  /\ At(t, "init")
      /\ inode_table' = [inode_table EXCEPT ![c.inum] = NewInode(c.op = "sym_link")]
      /\ Unlock(c.inum)
      /\ Go(t, IF c.op = "open" THEN "add" ELSE "s_block", c)
      /\ UNCHANGED <<freeinode_ts, dir_entry, blockVars, fileVars, lock_file_entries, died,
                     callerVars>>

\* mutant: the block stays TAKEN
DeleteKeepsBlock(t) ==
  /\ At(t, "delete")
  /\ freeinode_ts[loc[t].inum] = "TAKEN"
  /\ freeinode_ts' = Free(freeinode_ts, loc[t].inum)
  /\ Return(t)
  /\ UNCHANGED <<inode_table, dir_entry, blockVars, fileVars, locks, died>>

InodeDelete(t) ==
  LET i == loc[t].inum
  IN  /\ At(t, "delete")
      /\ \/ freeinode_ts[i] = "FREE" /\ Die
         \/ /\ freeinode_ts[i] = "TAKEN"
            /\ freeinode_ts' = Free(freeinode_ts, i)
            /\ free_blocks' = IF inode_table[i].i_size > 0
                                THEN Free(free_blocks, inode_table[i].i_data_block)
                                ELSE free_blocks
            /\ Return(t)
            /\ UNCHANGED <<inode_table, dir_entry, fs_data, fileVars, locks, died>>

-----------------------------------------------------------------------------
(* add_dir_entry, one entry at a time, for tfs_open, tfs_link, tfs_sym_link. *)
(* The last two hold the lock of the inode, and give it back when the      *)
(* directory is full.                                                      *)

NewName(c) == IF c.op = "open" THEN c.name ELSE c.link

AddDirEntry(t) ==
  LET c == loc[t]
  IN  /\ At(t, "add")
      /\ \/ /\ c.slot \in DirSlots /\ dir_entry[c.slot].d_inumber = -1
            /\ dir_entry' = [dir_entry EXCEPT ![c.slot] =
                               [d_name |-> NewName(c), d_inumber |-> c.inum]]
            /\ Go(t, CASE c.op = "open" -> "o_add"
                       [] c.op = "link" -> "l_done"
                       [] c.op = "sym_link" -> "s_done", [c EXCEPT !.slot = 0])
            /\ UNCHANGED <<locks, callerVars>>
         \/ /\ c.slot \in DirSlots /\ dir_entry[c.slot].d_inumber # -1
            /\ Go(t, "add", [c EXCEPT !.slot = @ + 1])
            /\ UNCHANGED <<dir_entry, locks, callerVars>>
         \/ /\ c.slot \notin DirSlots
            /\ IF c.op = "link" THEN Return(t) ELSE Go(t, "delete", c) /\ UNCHANGED callerVars
            /\ IF c.op = "open" THEN UNCHANGED inode_lock ELSE Unlock(c.inum)
            /\ UNCHANGED <<dir_entry, lock_file_entries>>
      /\ UNCHANGED <<inodeVars, blockVars, fileVars, died>>

-----------------------------------------------------------------------------
(* tfs_open.                                                               *)

CallOpen(t, name, mode) ==
  /\ MayCall(t)
  /\ Go(t, "find", [NoCall EXCEPT !.op = "open", !.name = name, !.mode = mode,
                                  !.then = "o_first"])
  /\ calls' = [calls EXCEPT ![t] = @ + 1]
  /\ UNCHANGED <<tables, locks, died, handles, seen>>

\* mutant: truncation gives the block back and leaves the size
TruncateKeepsSize(t) ==
  LET c     == loc[t]
      inode == inode_table[c.inum]
      cut   == "TRUNC" \in c.mode /\ inode.i_size > 0
  IN  /\ free_blocks' = IF cut THEN Free(free_blocks, inode.i_data_block) ELSE free_blocks
      /\ UNCHANGED inode_table
      /\ Go(t, "o_add", [c EXCEPT !.offset = IF "APPEND" \in c.mode THEN inode.i_size ELSE 0])

OpenUnderLock(t) ==
  LET c     == loc[t]
      inode == inode_table[c.inum]
      cut   == "TRUNC" \in c.mode /\ inode.i_size > 0
  IN  /\ free_blocks' = IF cut THEN Free(free_blocks, inode.i_data_block) ELSE free_blocks
      /\ inode_table' = IF cut THEN [inode_table EXCEPT ![c.inum].i_size = 0] ELSE inode_table
      /\ Go(t, "o_add", [c EXCEPT !.offset =
           IF "APPEND" \in c.mode THEN inode_table'[c.inum].i_size ELSE 0])

\* A symbolic link: look up the name it stores.  Anything else: open it.
OpenFirst(t) ==
  LET c == loc[t]
      inode == inode_table[c.inum]
  IN  /\ At(t, "o_first")
      /\ Unlocked(c.inum)
      /\ IF inode.is_softlink
           THEN /\ Go(t, "find", [c EXCEPT !.name = fs_data[inode.i_data_block],
                                           !.then = "o_second"])
                /\ UNCHANGED <<inode_table, free_blocks>>
           ELSE OpenUnderLock(t)
      /\ UNCHANGED <<freeinode_ts, dir_entry, fs_data, fileVars, locks, died, callerVars>>

OpenSecond(t) ==
  /\ At(t, "o_second")
  /\ Unlocked(loc[t].inum)
  /\ OpenUnderLock(t)
  /\ UNCHANGED <<freeinode_ts, dir_entry, fs_data, fileVars, locks, died, callerVars>>

OpenAdds(t) ==
  /\ At(t, "o_add")
  /\ lock_file_entries = Nobody
  /\ Go(t, "idle", NoCall)
  /\ \/ \E h \in Handles :
          /\ IsFirstFree(free_open_file_entries, h)
          /\ free_open_file_entries' = Take(free_open_file_entries, h)
          /\ open_file_table' = [open_file_table EXCEPT ![h] =
               [of_inumber |-> loc[t].inum, of_offset |-> loc[t].offset]]
          /\ handles' = [handles EXCEPT ![t] = @ \cup {h}]
     \/ NoneFree(free_open_file_entries) /\ UNCHANGED <<fileVars, handles>>
  /\ UNCHANGED <<inodeVars, dir_entry, blockVars, locks, died, calls, seen>>

-----------------------------------------------------------------------------
(* tfs_link, tfs_sym_link.                                                 *)

CallLink(t, name, link) ==
  /\ MayCall(t)
  /\ Go(t, "find", [NoCall EXCEPT !.op = "link", !.name = name, !.link = link,
                                  !.then = "l_lock"])
  /\ calls' = [calls EXCEPT ![t] = @ + 1]
  /\ UNCHANGED <<tables, locks, died, handles, seen>>

\* mutant: tfs_link returns with a symbolic link locked
LinkKeepsLock(t) ==
  LET c == loc[t]
  IN  /\ At(t, "l_lock")
      /\ Lock(t, c.inum)
      /\ IF inode_table[c.inum].is_softlink
           THEN Return(t)
           ELSE Go(t, "add", c) /\ UNCHANGED callerVars
      /\ UNCHANGED <<tables, lock_file_entries, died>>

LinkLocks(t) ==
  LET c == loc[t]
  IN  /\ At(t, "l_lock")
      /\ \/ /\ inode_table[c.inum].is_softlink
            /\ Unlocked(c.inum)
            /\ Return(t)
            /\ UNCHANGED inode_lock
         \/ /\ ~inode_table[c.inum].is_softlink
            /\ Lock(t, c.inum)
            /\ Go(t, "add", c)
            /\ UNCHANGED callerVars
      /\ UNCHANGED <<tables, lock_file_entries, died>>

LinkCounts(t) ==
  LET i == loc[t].inum
  IN  /\ At(t, "l_done")
      /\ inode_table' = [inode_table EXCEPT ![i].cnt_hardlinks = @ + 1]
      /\ Unlock(i)
      /\ Return(t)
      /\ UNCHANGED <<freeinode_ts, dir_entry, blockVars, fileVars, lock_file_entries, died>>

CallSymLink(t, name, link) ==
  /\ MayCall(t)
  /\ Go(t, "find", [NoCall EXCEPT !.op = "sym_link", !.name = name, !.link = link,
                                  !.then = "s_first"])
  /\ calls' = [calls EXCEPT ![t] = @ + 1]
  /\ UNCHANGED <<tables, locks, died, handles, seen>>

\* A target that is itself a symbolic link is replaced by the name it stores.
SymLinkChecks(t) ==
  LET c == loc[t]
      inode == inode_table[c.inum]
  IN  /\ At(t, "s_first")
      /\ Unlocked(c.inum)
      /\ IF inode.is_softlink
           THEN Go(t, "find", [c EXCEPT !.name = fs_data[inode.i_data_block],
                                        !.then = "create"])
           ELSE Go(t, "create", c)
      /\ UNCHANGED <<tables, locks, died, callerVars>>

SymLinkAllocs(t) ==
  LET c == loc[t]
  IN  /\ At(t, "s_block")
      /\ \/ \E b \in Blocks :
              /\ IsFirstFree(free_blocks, b)
              /\ free_blocks' = Take(free_blocks, b)
              /\ Go(t, "s_lock", [c EXCEPT !.block = b])
         \/ NoneFree(free_blocks) /\ Go(t, "delete", c) /\ UNCHANGED free_blocks
      /\ UNCHANGED <<inodeVars, dir_entry, fs_data, fileVars, locks, died, callerVars>>

SymLinkStores(t) ==
  LET c == loc[t]
  IN  /\ At(t, "s_lock")
      /\ Lock(t, c.inum)
      /\ inode_table' = [inode_table EXCEPT ![c.inum].i_data_block = c.block]
      /\ fs_data' = [fs_data EXCEPT ![c.block] = c.name]
      /\ Go(t, "add", c)
      /\ UNCHANGED <<freeinode_ts, dir_entry, free_blocks, fileVars, lock_file_entries, died,
                     callerVars>>

SymLinkSizes(t) ==
  LET i == loc[t].inum
  IN  /\ At(t, "s_done")
      /\ inode_table' = [inode_table EXCEPT ![i].i_size = 1]
      /\ Unlock(i)
      /\ Return(t)
      /\ UNCHANGED <<freeinode_ts, dir_entry, blockVars, fileVars, lock_file_entries, died>>

-----------------------------------------------------------------------------
(* tfs_unlink.                                                             *)

CallUnlink(t, name) ==
  /\ MayCall(t)
  /\ Go(t, "find", [NoCall EXCEPT !.op = "unlink", !.name = name, !.then = "u_lock"])
  /\ calls' = [calls EXCEPT ![t] = @ + 1]
  /\ UNCHANGED <<tables, locks, died, handles, seen>>

UnlinkLocks(t) ==
  /\ At(t, "u_lock")
  /\ Lock(t, loc[t].inum)
  /\ Go(t, "clear", loc[t])
  /\ UNCHANGED <<tables, lock_file_entries, died, callerVars>>

\* clear_dir_entry, one entry at a time.  When the entry has gone meanwhile,
\* tfs_unlink returns without unlocking the inode.
UnlinkClears(t) ==
  LET c == loc[t]
  IN  /\ At(t, "clear")
      /\ \/ /\ c.slot \in DirSlots /\ dir_entry[c.slot].d_name = c.name
            /\ dir_entry' = [dir_entry EXCEPT ![c.slot] = FreeEntry]
            /\ Go(t, "u_done", c)
            /\ UNCHANGED callerVars
         \/ /\ c.slot \in DirSlots /\ dir_entry[c.slot].d_name # c.name
            /\ Go(t, "clear", [c EXCEPT !.slot = @ + 1])
            /\ UNCHANGED <<dir_entry, callerVars>>
         \/ c.slot \notin DirSlots /\ Return(t) /\ UNCHANGED dir_entry
      /\ UNCHANGED <<inodeVars, blockVars, fileVars, locks, died>>

\* mutant: the file goes with the first of its names
UnlinkAlwaysDeletes(t) ==
  LET i == loc[t].inum
  IN  /\ At(t, "u_done")
      /\ inode_table' = [inode_table EXCEPT ![i].cnt_hardlinks = @ - 1]
      /\ Unlock(i)
      /\ Go(t, "delete", loc[t])
      /\ UNCHANGED <<freeinode_ts, dir_entry, blockVars, fileVars, lock_file_entries, died,
                     callerVars>>

UnlinkCounts(t) ==
  LET i == loc[t].inum
  IN  /\ At(t, "u_done")
      /\ inode_table' = [inode_table EXCEPT ![i].cnt_hardlinks = @ - 1]
      /\ Unlock(i)
      /\ IF inode_table[i].cnt_hardlinks = 1
           THEN Go(t, "delete", loc[t]) /\ UNCHANGED callerVars
           ELSE Return(t)
      /\ UNCHANGED <<freeinode_ts, dir_entry, blockVars, fileVars, lock_file_entries, died>>

-----------------------------------------------------------------------------
(* Calls on a handle begin with get_open_file_entry, which returns NULL for  *)
(* a closed handle and keeps lock_file_entries.                            *)

CallOnHandle(t, op, h) ==
  /\ MayCall(t)
  /\ Go(t, "get", [NoCall EXCEPT !.op = op, !.fhandle = h])
  /\ calls' = [calls EXCEPT ![t] = @ + 1]
  /\ UNCHANGED <<tables, locks, died, handles, seen>>

GetOpenFileEntry(t) ==
  LET c == loc[t]
  IN  /\ At(t, "get")
      /\ lock_file_entries = Nobody
      /\ \/ /\ free_open_file_entries[c.fhandle] = "TAKEN"
            /\ Go(t, c.op, c)
            /\ UNCHANGED <<lock_file_entries, callerVars>>
         \/ /\ free_open_file_entries[c.fhandle] = "FREE"
            /\ lock_file_entries' = t
            /\ Return(t)
      /\ UNCHANGED <<tables, inode_lock, died>>

\* The entry is looked at again, without the lock, before it is freed.
CloseChecks(t) ==
  /\ At(t, "close")
  /\ \/ free_open_file_entries[loc[t].fhandle] = "FREE" /\ Die
     \/ /\ free_open_file_entries[loc[t].fhandle] = "TAKEN"
        /\ Go(t, "c_free", loc[t])
        /\ UNCHANGED <<tables, locks, died, callerVars>>

CloseFrees(t) ==
  LET h == loc[t].fhandle
  IN  /\ At(t, "c_free")
      /\ lock_file_entries = Nobody
      /\ free_open_file_entries' = Free(free_open_file_entries, h)
      /\ handles' = [handles EXCEPT ![t] = @ \ {h}]
      /\ Go(t, "idle", NoCall)
      /\ UNCHANGED <<inodeVars, dir_entry, blockVars, open_file_table, locks, died, calls, seen>>

\* tfs_write reads of_inumber, then picks the block under both locks, gives
\* both back, and takes them again to write.
WriteFindsInode(t) ==
  /\ At(t, "write")
  /\ Go(t, "w_block", [loc[t] EXCEPT !.inum = open_file_table[loc[t].fhandle].of_inumber])
  /\ UNCHANGED <<tables, locks, died, callerVars>>

WritePicksBlock(t) ==
  LET c     == loc[t]
      inode == inode_table[c.inum]
      full  == open_file_table[c.fhandle].of_offset > 0
  IN  /\ At(t, "w_block")
      /\ \/ full /\ Return(t) /\ UNCHANGED <<inode_table, free_blocks>>
         \/ /\ ~full /\ Unlocked(c.inum) /\ inode.i_size > 0
            /\ Go(t, "w_copy", [c EXCEPT !.block = inode.i_data_block])
            /\ UNCHANGED <<inode_table, free_blocks, callerVars>>
         \/ \E b \in Blocks :
              /\ ~full /\ Unlocked(c.inum) /\ inode.i_size = 0
              /\ IsFirstFree(free_blocks, b)
              /\ free_blocks' = Take(free_blocks, b)
              /\ inode_table' = [inode_table EXCEPT ![c.inum].i_data_block = b]
              /\ Go(t, "w_copy", [c EXCEPT !.block = b])
              /\ UNCHANGED callerVars
         \/ /\ ~full /\ Unlocked(c.inum) /\ inode.i_size = 0 /\ NoneFree(free_blocks)
            /\ Return(t)
            /\ UNCHANGED <<inode_table, free_blocks>>
      /\ UNCHANGED <<freeinode_ts, dir_entry, fs_data, fileVars, locks, died>>

WriteCopies(t) ==
  LET c   == loc[t]
      end == open_file_table[c.fhandle].of_offset + 1
  IN  /\ At(t, "w_copy")
      /\ Unlocked(c.inum)
      /\ fs_data' = [fs_data EXCEPT ![c.block + end - 1] = t]
      /\ open_file_table' = [open_file_table EXCEPT ![c.fhandle].of_offset = end]
      /\ inode_table' = [inode_table EXCEPT ![c.inum].i_size = IF end > @ THEN end ELSE @]
      /\ Return(t)
      /\ UNCHANGED <<freeinode_ts, dir_entry, free_blocks, free_open_file_entries, locks, died>>

\* tfs_read does all its work under both locks.
ReadUnderLock(t) ==
  LET h     == loc[t].fhandle
      file  == open_file_table[h]
      inode == inode_table[file.of_inumber]
      at    == inode.i_data_block + file.of_offset
  IN  /\ At(t, "read")
      /\ Unlocked(file.of_inumber)
      /\ \/ /\ inode.i_size = file.of_offset
            /\ seen' = [seen EXCEPT ![t] = "nothing"]
            /\ UNCHANGED open_file_table
            /\ Go(t, "idle", NoCall)
            /\ UNCHANGED <<died, calls, handles>>
         \/ /\ inode.i_size # file.of_offset /\ inode.i_data_block # -1
            /\ seen' = [seen EXCEPT ![t] = IF at \in Blocks THEN fs_data[at] ELSE Garbage]
            /\ open_file_table' = [open_file_table EXCEPT ![h].of_offset = @ + 1]
            /\ Go(t, "idle", NoCall)
            /\ UNCHANGED <<died, calls, handles>>
         \/ /\ inode.i_size # file.of_offset /\ inode.i_data_block = -1
            /\ died' = TRUE
            /\ UNCHANGED <<open_file_table, pc, loc, callerVars>>
      /\ UNCHANGED <<inodeVars, dir_entry, blockVars, free_open_file_entries, locks>>

-----------------------------------------------------------------------------

\* The files that exist come first in each table, after the root directory.
HasFile(i) == i - 1 \in 0 .. Len(Existing) - 1

Init ==
  /\ freeinode_ts = [i \in Inumbers |-> IF i = ROOT_DIR_INUM \/ HasFile(i) THEN "TAKEN" ELSE "FREE"]
  /\ inode_table = [i \in Inumbers |->
       IF i = ROOT_DIR_INUM \/ HasFile(i)
         THEN [NewInode(FALSE) EXCEPT !.i_size = 1, !.i_data_block = i]
         ELSE NewInode(FALSE)]
  /\ inode_lock = [i \in Inumbers |-> Nobody]
  /\ dir_entry = [e \in DirSlots |->
       IF HasFile(e + 1) THEN [d_name |-> File[Existing[e + 1]], d_inumber |-> e + 1] ELSE FreeEntry]
  /\ free_blocks = [b \in Blocks |-> IF b = 0 \/ HasFile(b) THEN "TAKEN" ELSE "FREE"]
  /\ fs_data = [b \in Blocks |-> IF HasFile(b) THEN Existing[b] ELSE Garbage]
  /\ free_open_file_entries = [h \in Handles |-> "FREE"]
  /\ open_file_table = [h \in Handles |-> [of_inumber |-> ROOT_DIR_INUM, of_offset |-> 0]]
  /\ lock_file_entries = Nobody
  /\ died = FALSE
  /\ pc = [t \in Threads |-> "idle"]
  /\ loc = [t \in Threads |-> NoCall]
  /\ calls = [t \in Threads |-> 0]
  /\ handles = [t \in Threads |-> {}]
  /\ seen = [t \in Threads |-> "nothing"]

\* One step of the call t is in.
Step(t) ==
  \/ Find(t) \/ InodeAlloc(t) \/ InodeInit(t) \/ InodeDelete(t) \/ AddDirEntry(t)
  \/ OpenFirst(t) \/ OpenSecond(t) \/ OpenAdds(t)
  \/ LinkLocks(t) \/ LinkCounts(t)
  \/ SymLinkChecks(t) \/ SymLinkAllocs(t) \/ SymLinkStores(t) \/ SymLinkSizes(t)
  \/ UnlinkLocks(t) \/ UnlinkClears(t) \/ UnlinkCounts(t)
  \/ GetOpenFileEntry(t) \/ CloseChecks(t) \/ CloseFrees(t)
  \/ WriteFindsInode(t) \/ WritePicksBlock(t) \/ WriteCopies(t) \/ ReadUnderLock(t)

-----------------------------------------------------------------------------
(* Threads that keep apart: each has its own names and handles, gives a new *)
(* link a name that is not taken, and unlinks or truncates a file only when *)
(* it has none open.  They still share every table.                        *)

Absent(name) == \A e \in DirSlots : ~Matches(e, name)

ApartOpens(t) ==
  \E name \in {File[t], Link[t]}, mode \in OpenModes :
    ("TRUNC" \in mode => handles[t] = {}) /\ CallOpen(t, name, mode)

ApartLinks(t) ==
  \/ Absent(Link[t]) /\ (CallLink(t, File[t], Link[t]) \/ CallSymLink(t, File[t], Link[t]))
  \/ Absent(File[t]) /\ (CallLink(t, Link[t], File[t]) \/ CallSymLink(t, Link[t], File[t]))

ApartUnlinks(t) ==
  handles[t] = {} /\ \E name \in {File[t], Link[t]} : CallUnlink(t, name)

UsesHandle(t) ==
  \E h \in handles[t], op \in {"close", "write", "read"} : CallOnHandle(t, op, h)

ApartCall(t) == ApartOpens(t) \/ ApartLinks(t) \/ ApartUnlinks(t) \/ UsesHandle(t)

ApartNext == \E t \in Threads : Step(t) \/ ApartCall(t)

\* What keeping apart takes: no name is another thread's, nor the other name of
\* the same thread, and no thread has two of the files that exist.
NamesApart ==
  /\ \A t, u \in Threads : t # u => {File[t], Link[t]} \cap {File[u], Link[u]} = {}
  /\ \A t \in Threads : File[t] # Link[t]
  /\ \A m, n \in DOMAIN Existing : Existing[m] = Existing[n] => m = n

\* Room for the two files, and the two names, of every thread.
EnoughInodes  == IsFiniteSet(Threads) /\ INODE_TABLE_SIZE > 2 * Cardinality(Threads)
EnoughEntries == IsFiniteSet(Threads) /\ MAX_DIR_ENTRIES >= 2 * Cardinality(Threads)

ApartSpec == Init /\ [][ApartNext]_vars /\ WF_vars(\E t \in Threads : Step(t))

-----------------------------------------------------------------------------
(* The first five calls of each thread of tests/pthread2.c: all of them     *)
(* create, write, close, open again and read one file.                     *)

TestCall(t) ==
  \/ calls[t] = 0 /\ CallOpen(t, File[t], {"CREAT"})
  \/ calls[t] = 3 /\ CallOpen(t, File[t], {})
  \/ \E h \in handles[t] :
       \/ calls[t] = 1 /\ CallOnHandle(t, "write", h)
       \/ calls[t] = 2 /\ CallOnHandle(t, "close", h)
       \/ calls[t] = 4 /\ CallOnHandle(t, "read", h)

TestSpec == Init /\ [][\E t \in Threads : Step(t) \/ TestCall(t)]_vars

\* A thread that has written the file, closed it and opened it again reads
\* what was written, by it or by another one that writes the same.
ReadsBack == \A t \in Threads : calls[t] = 5 /\ pc[t] = "idle" => seen[t] \in Threads

-----------------------------------------------------------------------------
(* Properties of threads that keep apart.                                  *)

Inode == [i_size : {0, 1}, i_data_block : Blocks \cup {-1}, cnt_hardlinks : Nat,
          is_softlink : BOOLEAN]

\* Type correctness of the tables, the locks and what the callers know.
ThreadsTypeOK ==
  /\ freeinode_ts \in [Inumbers -> {"FREE", "TAKEN"}]
  /\ inode_table \in [Inumbers -> Inode]
  /\ inode_lock \in [Inumbers -> Threads \cup {Nobody}]
  /\ dir_entry \in [DirSlots -> [d_name : Names \cup {NoName}, d_inumber : Inumbers \cup {-1}]]
  /\ free_blocks \in [Blocks -> {"FREE", "TAKEN"}]
  /\ fs_data \in [Blocks -> Threads \cup Names \cup {Garbage}]
  /\ free_open_file_entries \in [Handles -> {"FREE", "TAKEN"}]
  /\ open_file_table \in [Handles -> [of_inumber : Inumbers, of_offset : 0 .. 2]]
  /\ lock_file_entries \in Threads \cup {Nobody}
  /\ died \in BOOLEAN
  /\ \A t \in Threads : loc[t].slot \in 0 .. MAX_DIR_ENTRIES /\ handles[t] \subseteq Handles
  /\ calls \in [Threads -> Nat]
  /\ seen \in [Threads -> Threads \cup Names \cup {Garbage, "nothing"}]

\* A thread whose call has returned holds no lock, so that no other thread
\* waits for one it will not give back.
NoLockKept ==
  \A t \in Threads : pc[t] = "idle" =>
    lock_file_entries # t /\ \A i \in Inumbers : inode_lock[i] # t

\* No assertion of the library fails: "inode already freed", "file handle
\* must be taken", the block and inode numbers.
NeverDies == ~died

\* What the names of t lead to.
FilesOf(t) ==
  [name \in {File[t], Link[t]} |->
     {<<inode_table[i], IF inode_table[i].i_size > 0 THEN fs_data[inode_table[i].i_data_block] ELSE Garbage>> :
        i \in {dir_entry[e].d_inumber : e \in {d \in DirSlots : Matches(d, name)}}}]

\* A step of one thread leaves the names, the inodes, the counters and the
\* contents of the others' files as they are, although all of them share the
\* directory, the inode table and the blocks.
Isolation ==
  [][\A t \in Threads : pc'[t] = pc[t] /\ loc'[t] = loc[t] => FilesOf(t)' = FilesOf(t)]_vars

\* A thread reads what it wrote itself, never what it did not write or what
\* another thread left in the block.
OwnDataOnly ==
  [][\A t \in Threads : seen'[t] # seen[t] => seen'[t] \in {t, "nothing"}]_vars

Live(i) == freeinode_ts[i] = "TAKEN"

\* Every call returns, whatever the other threads do and wait for: no lock is
\* waited for in a circle.
CallsReturn == \A t \in Threads : (pc[t] # "idle") ~> (died \/ pc[t] = "idle")

\* When no call is in progress the tables agree: a live file has as many
\* entries as its counter says, and at least one; entries lead to live files;
\* and the blocks in use are those of the live files, one each.
AgreeAtRest ==
  (\A t \in Threads : pc[t] = "idle") =>
    /\ \A i \in Inumbers \ {ROOT_DIR_INUM} :
         LET links == Cardinality({e \in DirSlots : dir_entry[e].d_inumber = i})
         IN  links = IF Live(i) THEN inode_table[i].cnt_hardlinks ELSE 0
    /\ \A i \in Inumbers : Live(i) => inode_table[i].cnt_hardlinks > 0
    /\ \A b \in Blocks : free_blocks[b] = "TAKEN" =>
         Cardinality({i \in Inumbers : /\ Live(i) /\ inode_table[i].i_size > 0
                                       /\ inode_table[i].i_data_block = b}) = 1

=============================================================================
