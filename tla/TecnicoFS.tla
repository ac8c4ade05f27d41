---------------------------- MODULE TecnicoFS ----------------------------
(***************************************************************************)
(* The file system of exercise2/fs.  Every tfs_* call holds the one lock   *)
(* g_library_mutex from its first statement to its return, so a call is    *)
(* one step; the interleavings that remain are those of whole calls.       *)
(*                                                                         *)
(* The directory is the block of the root inode; its entries are kept      *)
(* apart from fs_data, in dir_entry, and RootIntact says that no file can  *)
(* come to own that block.                                                 *)
(***************************************************************************)
EXTENDS Integers, Sequences, FiniteSets

CONSTANTS
  Names,             \* names that fit a directory entry
  LongNames,         \* valid path names that do not (add_dir_entry refuses them)
  BadPaths,          \* path names that valid_pathname refuses
  NoName,            \* a d_name filled with zeros
  Bytes,             \* the bytes a client writes
  Garbage,           \* what malloc left in memory, or lies outside fs_data
  INODE_TABLE_SIZE,
  DATA_BLOCKS,
  MAX_OPEN_FILES,
  BLOCK_SIZE,
  MAX_DIR_ENTRIES,
  SIZE_MOD           \* size_t holds 0 .. SIZE_MOD - 1 (2^64 in the build)

ASSUME SizesAssumption ==
  /\ INODE_TABLE_SIZE \in Nat \ {0}
  /\ DATA_BLOCKS \in Nat \ {0}
  /\ MAX_OPEN_FILES \in Nat
  /\ BLOCK_SIZE \in Nat \ {0}
  /\ MAX_DIR_ENTRIES \in Nat
  /\ SIZE_MOD \in Nat /\ SIZE_MOD > BLOCK_SIZE

ASSUME NamesAssumption ==
  /\ NoName \notin Names
  /\ Names \cap LongNames = {}
  /\ (Names \cup LongNames) \cap BadPaths = {}

VARIABLES
  phase,                   \* "up", "down" (not initialised) or "panic" (process died)
  freeinode_ts,
  inode_table,
  dir_entry,
  free_blocks,
  fs_data,
  free_open_file_entries,
  open_file_table,
  ret,                     \* what the last call returned
  buf                      \* what the last tfs_read put in its buffer

inodeVars == <<freeinode_ts, inode_table>>
blockVars == <<free_blocks, fs_data>>
fileVars  == <<free_open_file_entries, open_file_table>>
vars == <<phase, inodeVars, dir_entry, blockVars, fileVars, ret, buf>>

ROOT_DIR_INUM == 0

Inumbers == 0 .. INODE_TABLE_SIZE - 1
Blocks   == 0 .. DATA_BLOCKS - 1
Handles  == 0 .. MAX_OPEN_FILES - 1
DirSlots == 0 .. MAX_DIR_ENTRIES - 1
Offsets  == 0 .. BLOCK_SIZE - 1
Paths    == Names \cup LongNames \cup BadPaths
Modes    == SUBSET {"CREAT", "TRUNC", "APPEND"}

Inode    == [i_node_type  : {"T_FILE", "T_DIRECTORY"},
             i_size       : 0 .. BLOCK_SIZE,
             i_data_block : Blocks \cup {-1}]
DirEntry == [d_name : Names \cup {NoName}, d_inumber : Inumbers \cup {-1}]
OpenFile == [of_inumber : Inumbers, of_offset : Nat]

SizeSub(a, b) == (a - b) % SIZE_MOD
AtMost(a, b)  == IF a <= b THEN a ELSE b

-----------------------------------------------------------------------------
(* Allocation: each allocator takes the first FREE slot of its table.      *)

IsFirstFree(table, i) ==
  /\ table[i] = "FREE"
  /\ \A j \in DOMAIN table : j < i => table[j] = "TAKEN"

NoneFree(table) == \A i \in DOMAIN table : table[i] = "TAKEN"

AllFree(S) == [i \in S |-> "FREE"]

-----------------------------------------------------------------------------
(* The directory.                                                          *)

EntryMatches(e, name) == dir_entry[e].d_inumber # -1 /\ dir_entry[e].d_name = name

FindInDir(e, name) ==
  /\ EntryMatches(e, name)
  /\ \A f \in DirSlots : f < e => ~EntryMatches(f, name)

NotInDir(name) == \A e \in DirSlots : ~EntryMatches(e, name)

\* mutant: the entry of the deleted file stays
EntryStays(name) == name \in Paths /\ UNCHANGED dir_entry

\* The first slot whose name matches, used or not.  It exists whenever
\* tfs_lookup found the name, so the failure return of clear_dir_entry has
\* no counterpart here.
ClearDirEntry(name) ==
  \E e \in DirSlots :
    /\ dir_entry[e].d_name = name
    /\ \A f \in DirSlots : f < e => dir_entry[f].d_name # name
    /\ dir_entry' = [dir_entry EXCEPT ![e] = [d_name |-> NoName, d_inumber |-> -1]]

DirHasNoRoom(name) ==
  name \notin Names \/ \A e \in DirSlots : dir_entry[e].d_inumber # -1

AddDirEntry(name, inum) ==
  /\ name \in Names
  /\ \E e \in DirSlots :
       /\ dir_entry[e].d_inumber = -1
       /\ \A f \in DirSlots : f < e => dir_entry[f].d_inumber # -1
       /\ dir_entry' = [dir_entry EXCEPT ![e] = [d_name |-> name, d_inumber |-> inum]]

-----------------------------------------------------------------------------
(* Inodes and the open file table.                                         *)

NewFileInode == [i_node_type |-> "T_FILE", i_size |-> 0, i_data_block |-> -1]

InodeCreateFile(inum) ==
  /\ IsFirstFree(freeinode_ts, inum)
  /\ freeinode_ts' = [freeinode_ts EXCEPT ![inum] = "TAKEN"]
  /\ inode_table'  = [inode_table EXCEPT ![inum] = NewFileInode]

\* mutant: the block of the deleted file is not given back
DeleteKeepsBlock(inum) ==
  /\ freeinode_ts' = [freeinode_ts EXCEPT ![inum] = "FREE"]
  /\ UNCHANGED <<free_blocks, inode_table, fs_data>>

\* The fields of the deleted inode keep their values.
InodeDelete(inum) ==
  /\ freeinode_ts' = [freeinode_ts EXCEPT ![inum] = "FREE"]
  /\ free_blocks'  = IF inode_table[inum].i_size > 0
                       THEN [free_blocks EXCEPT ![inode_table[inum].i_data_block] = "FREE"]
                       ELSE free_blocks
  /\ UNCHANGED <<inode_table, fs_data>>

AddToOpenFileTable(inum, offset) ==
  \/ \E h \in Handles :
       /\ IsFirstFree(free_open_file_entries, h)
       /\ free_open_file_entries' = [free_open_file_entries EXCEPT ![h] = "TAKEN"]
       /\ open_file_table' = [open_file_table EXCEPT ![h] =
                                [of_inumber |-> inum, of_offset |-> offset]]
       /\ ret' = h
  \/ NoneFree(free_open_file_entries) /\ ret' = -1 /\ UNCHANGED fileVars

\* get_open_file_entry returns an entry
IsOpen(h) == h \in Handles /\ free_open_file_entries[h] = "TAKEN"

FailCall ==
  /\ ret' = -1
  /\ UNCHANGED <<phase, inodeVars, dir_entry, blockVars, fileVars>>

-----------------------------------------------------------------------------
(* tfs_open.                                                               *)

OpenFails(name, mode) ==
  /\ \/ name \in BadPaths
     \/ name \notin BadPaths /\ NotInDir(name) /\ "CREAT" \notin mode
  /\ FailCall

\* mutant: the block is given back and the size kept
TruncateKeepsSize(inum, mode) ==
  /\ free_blocks' = IF "TRUNC" \in mode /\ inode_table[inum].i_size > 0
                      THEN [free_blocks EXCEPT ![inode_table[inum].i_data_block] = "FREE"]
                      ELSE free_blocks
  /\ UNCHANGED inode_table

\* TRUNC gives the block back and leaves i_data_block as it was.
Truncate(inum, mode) ==
  IF "TRUNC" \in mode /\ inode_table[inum].i_size > 0
    THEN /\ free_blocks' = [free_blocks EXCEPT ![inode_table[inum].i_data_block] = "FREE"]
         /\ inode_table' = [inode_table EXCEPT ![inum].i_size = 0]
    ELSE UNCHANGED <<free_blocks, inode_table>>

\* mutant: appending starts at the beginning
AppendFromStart(size, mode) == 0

InitialOffset(size, mode) == IF "APPEND" \in mode THEN size ELSE 0

\* The file stays truncated when the open file table turns out to be full.
OpenFound(e, name, mode) ==
  LET inum == dir_entry[e].d_inumber
  IN  /\ name \notin BadPaths
      /\ FindInDir(e, name)
      /\ Truncate(inum, mode)
      /\ AddToOpenFileTable(inum, InitialOffset(inode_table'[inum].i_size, mode))
      /\ UNCHANGED <<phase, freeinode_ts, dir_entry, fs_data>>

OpenCreates(name, mode) ==
  /\ name \notin BadPaths
  /\ NotInDir(name)
  /\ "CREAT" \in mode
  /\ \/ NoneFree(freeinode_ts) /\ FailCall
     \/ \E inum \in Inumbers :      \* created, then deleted again
          /\ IsFirstFree(freeinode_ts, inum)
          /\ DirHasNoRoom(name)
          /\ inode_table' = [inode_table EXCEPT ![inum] = NewFileInode]
          /\ ret' = -1
          /\ UNCHANGED <<phase, freeinode_ts, dir_entry, blockVars, fileVars>>
     \/ \E inum \in Inumbers :
          /\ InodeCreateFile(inum)
          /\ AddDirEntry(name, inum)
          /\ AddToOpenFileTable(inum, 0)   \* if full, the new file stays
          /\ UNCHANGED <<phase, blockVars>>

TfsOpen(name, mode) ==
  /\ phase = "up"
  /\ buf' = <<>>
  /\ \/ OpenFails(name, mode)
     \/ \E e \in DirSlots : OpenFound(e, name, mode)
     \/ OpenCreates(name, mode)

-----------------------------------------------------------------------------
(* tfs_close, tfs_unlink.                                                  *)

CloseHandle(h) ==
  /\ IsOpen(h)
  /\ free_open_file_entries' = [free_open_file_entries EXCEPT ![h] = "FREE"]
  /\ ret' = 0
  /\ UNCHANGED <<phase, inodeVars, dir_entry, blockVars, open_file_table>>

TfsClose(h) ==
  /\ phase = "up"
  /\ buf' = <<>>
  /\ CloseHandle(h) \/ (~IsOpen(h) /\ FailCall)

UnlinkFound(e, name) ==
  /\ name \notin BadPaths
  /\ FindInDir(e, name)
  /\ InodeDelete(dir_entry[e].d_inumber)
  /\ ClearDirEntry(name)
  /\ ret' = 0
  /\ UNCHANGED <<phase, fileVars>>

TfsUnlink(name) ==
  /\ phase = "up"
  /\ buf' = <<>>
  /\ \/ (name \in BadPaths \/ NotInDir(name)) /\ FailCall
     \/ \E e \in DirSlots : UnlinkFound(e, name)

-----------------------------------------------------------------------------
(* tfs_write.  The unsigned subtraction wraps when the offset is past the   *)
(* end of the block, and the copy then runs out of the address space.      *)

\* mutant: the write is not cut at the end of the block
WriteUncut(offset, len) == len

ToWrite(offset, len) ==
  IF len + offset > BLOCK_SIZE THEN SizeSub(BLOCK_SIZE, offset) ELSE len

Memcpy(b, offset, data, n) ==
  fs_data' = [fs_data EXCEPT ![b] =
    [o \in Offsets |-> IF offset <= o /\ o < offset + n THEN data[o - offset + 1] ELSE @[o]]]

\* mutant: the file does not grow
SizeStays(size, end) == size

GrownSize(size, end) == IF end > size THEN end ELSE size

\* An empty file gets a block first.
WriteBytes(h, data) ==
  LET inum == open_file_table[h].of_inumber
      off  == open_file_table[h].of_offset
      n    == ToWrite(off, Len(data))
      size == inode_table[inum].i_size
      FinishWrite(b) ==
        /\ Memcpy(b, off, data, n)
        /\ inode_table' = [inode_table EXCEPT ![inum].i_data_block = b,
                             ![inum].i_size = GrownSize(size, off + n)]
  IN  /\ n > 0
      /\ off <= BLOCK_SIZE
      /\ \/ size > 0 /\ FinishWrite(inode_table[inum].i_data_block) /\ UNCHANGED free_blocks
         \/ \E b \in Blocks :
              /\ size = 0
              /\ IsFirstFree(free_blocks, b)
              /\ free_blocks' = [free_blocks EXCEPT ![b] = "TAKEN"]
              /\ FinishWrite(b)
      /\ open_file_table' = [open_file_table EXCEPT ![h].of_offset = off + n]
      /\ ret' = n
      /\ UNCHANGED <<phase, freeinode_ts, dir_entry, free_open_file_entries>>

\* No free block for an empty file: the call fails before the copy.
WriteNoSpace(h, data) ==
  LET inum == open_file_table[h].of_inumber
  IN  /\ ToWrite(open_file_table[h].of_offset, Len(data)) > 0
      /\ inode_table[inum].i_size = 0
      /\ NoneFree(free_blocks)
      /\ FailCall

WriteNothing(h, data) ==
  /\ ToWrite(open_file_table[h].of_offset, Len(data)) = 0
  /\ ret' = 0
  /\ UNCHANGED <<phase, inodeVars, dir_entry, blockVars, fileVars>>

WriteDies(h, data) ==
  LET off  == open_file_table[h].of_offset
      size == inode_table[open_file_table[h].of_inumber].i_size
  IN  /\ off > BLOCK_SIZE
      /\ ToWrite(off, Len(data)) > 0
      /\ size > 0 \/ ~NoneFree(free_blocks)
      /\ phase' = "panic"
      /\ UNCHANGED <<inodeVars, dir_entry, blockVars, fileVars, ret>>

TfsWrite(h, data) ==
  /\ phase = "up"
  /\ buf' = <<>>
  /\ \/ ~IsOpen(h) /\ FailCall
     \/ IsOpen(h) /\ (WriteBytes(h, data) \/ WriteNoSpace(h, data)
                        \/ WriteNothing(h, data) \/ WriteDies(h, data))

-----------------------------------------------------------------------------
(* tfs_read.  i_size - of_offset wraps when the file has shrunk behind the  *)
(* handle, and the read then runs on into whatever follows in fs_data.     *)

ByteAt(b, o) ==
  LET c == b + o \div BLOCK_SIZE
  IN  IF c \in Blocks THEN fs_data[c][o % BLOCK_SIZE] ELSE Garbage

\* mutant: the size of the file is not looked at
ReadUncut(h, len) == len

ToRead(h, len) ==
  AtMost(len, SizeSub(inode_table[open_file_table[h].of_inumber].i_size,
                      open_file_table[h].of_offset))

ReadBytes(h, len) ==
  LET inode == inode_table[open_file_table[h].of_inumber]
      off   == open_file_table[h].of_offset
      n     == ToRead(h, len)
  IN  /\ n = 0 \/ inode.i_data_block # -1
      /\ buf' = [k \in 1 .. n |-> ByteAt(inode.i_data_block, off + k - 1)]
      /\ open_file_table' = [open_file_table EXCEPT ![h].of_offset = off + n]
      /\ ret' = n
      /\ UNCHANGED <<phase, inodeVars, dir_entry, blockVars, free_open_file_entries>>

\* The assertion of data_block_get on a block number of -1.
ReadDies(h, len) ==
  /\ ToRead(h, len) > 0
  /\ inode_table[open_file_table[h].of_inumber].i_data_block = -1
  /\ phase' = "panic"
  /\ buf' = <<>>
  /\ UNCHANGED <<inodeVars, dir_entry, blockVars, fileVars, ret>>

TfsRead(h, len) ==
  /\ phase = "up"
  /\ \/ ~IsOpen(h) /\ FailCall /\ buf' = <<>>
     \/ IsOpen(h) /\ (ReadBytes(h, len) \/ ReadDies(h, len))

-----------------------------------------------------------------------------
(* tfs_init and tfs_destroy.                                               *)

RootInode == [i_node_type |-> "T_DIRECTORY", i_size |-> BLOCK_SIZE, i_data_block |-> 0]

FreshInodes    == [i \in Inumbers |-> IF i = ROOT_DIR_INUM THEN RootInode ELSE NewFileInode]
FreshInodeTs   == [i \in Inumbers |-> IF i = ROOT_DIR_INUM THEN "TAKEN" ELSE "FREE"]
FreshDirectory == [e \in DirSlots |-> [d_name |-> NoName, d_inumber |-> -1]]
FreshBlocks    == [b \in Blocks |-> IF b = 0 THEN "TAKEN" ELSE "FREE"]
FreshData      == [b \in Blocks |-> [o \in Offsets |-> Garbage]]
FreshOpenFiles == [h \in Handles |-> [of_inumber |-> ROOT_DIR_INUM, of_offset |-> 0]]

TfsInit ==
  /\ phase = "down"
  /\ phase' = "up"
  /\ freeinode_ts' = FreshInodeTs
  /\ inode_table' = FreshInodes
  /\ dir_entry' = FreshDirectory
  /\ free_blocks' = FreshBlocks
  /\ fs_data' = FreshData
  /\ free_open_file_entries' = AllFree(Handles)
  /\ open_file_table' = FreshOpenFiles
  /\ ret' = 0
  /\ buf' = <<>>

TfsDestroy ==
  /\ phase = "up"
  /\ phase' = "down"
  /\ ret' = 0
  /\ buf' = <<>>
  /\ UNCHANGED <<inodeVars, dir_entry, blockVars, fileVars>>

Init ==
  /\ phase = "up"
  /\ freeinode_ts = FreshInodeTs
  /\ inode_table = FreshInodes
  /\ dir_entry = FreshDirectory
  /\ free_blocks = FreshBlocks
  /\ fs_data = FreshData
  /\ free_open_file_entries = AllFree(Handles)
  /\ open_file_table = FreshOpenFiles
  /\ ret = 0
  /\ buf = <<>>

-----------------------------------------------------------------------------
(* What the tables must agree on.                                          *)

Used(e) == dir_entry[e].d_inumber # -1
Live(i) == freeinode_ts[i] = "TAKEN"
Owns(i, b) == Live(i) /\ inode_table[i].i_size > 0 /\ inode_table[i].i_data_block = b

\* Type correctness of the tables of state.c.
TypeOK ==
  /\ phase \in {"up", "down", "panic"}
  /\ freeinode_ts \in [Inumbers -> {"FREE", "TAKEN"}]
  /\ inode_table \in [Inumbers -> Inode]
  /\ dir_entry \in [DirSlots -> DirEntry]
  /\ free_blocks \in [Blocks -> {"FREE", "TAKEN"}]
  /\ fs_data \in [Blocks -> [Offsets -> Bytes \cup {Garbage}]]
  /\ free_open_file_entries \in [Handles -> {"FREE", "TAKEN"}]
  /\ open_file_table \in [Handles -> OpenFile]
  /\ ret \in Nat \cup {-1}
  /\ buf \in Seq(Bytes \cup {Garbage})

\* Every used directory entry names a live inode other than the root, no two
\* of them share a name or an inode, and no live file is without an entry
\* (tfs_open creates and tfs_unlink deletes inode and entry together).
DirectoryConsistent ==
  /\ \A e \in DirSlots : Used(e) =>
       /\ dir_entry[e].d_inumber # ROOT_DIR_INUM
       /\ Live(dir_entry[e].d_inumber)
  /\ \A e, f \in DirSlots : Used(e) /\ Used(f) /\ e # f =>
       /\ dir_entry[e].d_name # dir_entry[f].d_name
       /\ dir_entry[e].d_inumber # dir_entry[f].d_inumber
  /\ \A i \in Inumbers \ {ROOT_DIR_INUM} : Live(i) =>
       \E e \in DirSlots : dir_entry[e].d_inumber = i

\* Every live non-empty inode owns an allocated block, and owns it alone,
\* whatever stale handles write to (data_block_alloc, data_block_free).
BlocksExclusive ==
  \A i \in Inumbers : Live(i) /\ inode_table[i].i_size > 0 =>
    /\ inode_table[i].i_data_block \in Blocks
    /\ free_blocks[inode_table[i].i_data_block] = "TAKEN"
    /\ \A j \in Inumbers : Owns(j, inode_table[i].i_data_block) => j = i

RootIntact ==
  /\ Live(ROOT_DIR_INUM)
  /\ inode_table[ROOT_DIR_INUM] = RootInode
  /\ \A h \in Handles : IsOpen(h) => open_file_table[h].of_inumber # ROOT_DIR_INUM

NamesKept ==
  \A e \in DirSlots : Used(e) <=> dir_entry[e].d_name # NoName

\* All of this is inductive: whatever calls come, in whatever order and on
\* whatever handles, the directory, the inode table and the block table stay
\* in agreement and the root directory keeps its inode and its block.
TablesInv == DirectoryConsistent /\ BlocksExclusive /\ RootIntact /\ NamesKept

=============================================================================
