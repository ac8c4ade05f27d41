----------------------------- MODULE TfsLinks -----------------------------
(***************************************************************************)
(* The library of exercise1/fs, called by one thread: the file system of   *)
(* TecnicoFS, whose tables and helpers exercise1 shares, with hard links,  *)
(* symbolic links and the copy of an external file.  Its locks are those   *)
(* of TfsThreads; a single caller meets only one that is never given back, *)
(* lock_file_entries, after get_open_file_entry refused a closed handle.   *)
(*                                                                         *)
(* A name is the sequence of its characters, because tfs_sym_link stores   *)
(* it in a block without an end mark and tfs_open reads it back up to the  *)
(* first zero.  Garbage is that zero: with the default parameters fs_data  *)
(* is 1 MiB, which malloc takes from fresh pages.                          *)
(***************************************************************************)
EXTENDS TecnicoFS

CONSTANTS
  OpenModes,       \* modes the caller passes to tfs_open
  Buffers,         \* what the caller passes to tfs_write
  ReadLens,        \* buffer lengths it passes to tfs_read
  ExternalFiles,   \* contents of the files tfs_copy_from_external_fs reads
  COPY_BUFFER,     \* size of its buffer (1024)
  MAX_OFFSET       \* no tfs_read starts past this offset (a bound for TLC)

ASSUME LinksAssumption ==
  /\ \A name \in Names : name \in Seq(Bytes) /\ 0 < Len(name) /\ Len(name) < BLOCK_SIZE
  /\ Garbage \notin Bytes
  /\ OpenModes \subseteq Modes
  /\ \A data \in Buffers : data \in Seq(Bytes)
  /\ \A file \in ExternalFiles : file \in Seq(Bytes)
  /\ COPY_BUFFER \in Nat \ {0}
  /\ ReadLens \subseteq Nat
  /\ MAX_OFFSET \in Nat

VARIABLES
  cnt_hardlinks,       \* of each inode
  is_softlink,         \* of each inode
  lock_file_entries,   \* "free", or "kept" by a call that has returned
  copy,                \* the copy in progress: handle, file, bytes passed on, outcome
  mishaps              \* what has gone wrong so far (not in the code)

linkVars  == <<cnt_hardlinks, is_softlink>>
linksVars == <<vars, linkVars, lock_file_entries, copy, mishaps>>

NoCopy == [to |-> -1, file |-> <<>>, at |-> 0, outcome |-> 0]

Mishaps ==
  {"pulled",      \* a file that is open was deleted or truncated
   "chain",       \* a symbolic link was opened through another one
   "full",        \* tfs_sym_link found the directory full
   "no_inode"}    \* tfs_sym_link found the inode table full

FailLink == FailCall /\ UNCHANGED linkVars

-----------------------------------------------------------------------------
(* Paths and symbolic links.                                               *)

Finds(e, path) == path \notin BadPaths /\ FindInDir(e, path)
FindsNothing(path) == path \in BadPaths \/ NotInDir(path)

InumAt(e) == dir_entry[e].d_inumber

\* The characters from the start of block b up to the first zero.
StringIn(b) ==
  LET end == CHOOSE n \in 0 .. BLOCK_SIZE * DATA_BLOCKS :
               /\ ByteAt(b, n) = Garbage
               /\ \A m \in 0 .. n - 1 : ByteAt(b, m) # Garbage
  IN  [k \in 1 .. end |-> ByteAt(b, k - 1)]

LinkTarget(inum) == StringIn(inode_table[inum].i_data_block)

\* mutant: the counter starts at 0
CreateUncounted(inum, soft) ==
  /\ InodeCreateFile(inum)
  /\ cnt_hardlinks' = [cnt_hardlinks EXCEPT ![inum] = 0]
  /\ is_softlink' = [is_softlink EXCEPT ![inum] = soft]

InodeCreate(inum, soft) ==
  /\ InodeCreateFile(inum)
  /\ cnt_hardlinks' = [cnt_hardlinks EXCEPT ![inum] = 1]
  /\ is_softlink' = [is_softlink EXCEPT ![inum] = soft]

\* inode_create and inode_delete: the fields stay as they were set
InodeComesAndGoes(inum, soft) ==
  /\ IsFirstFree(freeinode_ts, inum)
  /\ inode_table' = [inode_table EXCEPT ![inum] = NewFileInode]
  /\ cnt_hardlinks' = [cnt_hardlinks EXCEPT ![inum] = 1]
  /\ is_softlink' = [is_softlink EXCEPT ![inum] = soft]
  /\ UNCHANGED freeinode_ts

HandlesOn(inum) == {h \in Handles : IsOpen(h) /\ open_file_table[h].of_inumber = inum}

Mishap(what, happens) == mishaps' = IF happens THEN mishaps \cup {what} ELSE mishaps

-----------------------------------------------------------------------------
(* tfs_open.  A thread that needs lock_file_entries when it is kept waits   *)
(* for ever, after what tfs_open did before.                                *)

AddHandle(inum, offset) ==
  \/ lock_file_entries = "free" /\ AddToOpenFileTable(inum, offset) /\ UNCHANGED phase
  \/ lock_file_entries = "kept" /\ phase' = "stuck" /\ UNCHANGED <<fileVars, ret>>

OpenInode(inum, mode) ==
  /\ Truncate(inum, mode)
  /\ AddHandle(inum, InitialOffset(inode_table'[inum].i_size, mode))
  /\ UNCHANGED <<freeinode_ts, dir_entry, fs_data, linkVars>>

TruncatesOpen(inum, mode) ==
  "TRUNC" \in mode /\ inode_table[inum].i_size > 0 /\ HandlesOn(inum) # {}

\* mutant: a symbolic link is opened as if it were the file
OpenLinkItself(name, mode) ==
  \E e \in DirSlots :
    /\ Finds(e, name)
    /\ OpenInode(InumAt(e), mode)
    /\ Mishap("pulled", TruncatesOpen(InumAt(e), mode))

\* One symbolic link is followed, and the target is never created.
OpenExisting(name, mode) ==
  \E e \in DirSlots :
    /\ Finds(e, name)
    /\ \/ /\ ~is_softlink[InumAt(e)]
          /\ OpenInode(InumAt(e), mode)
          /\ Mishap("pulled", TruncatesOpen(InumAt(e), mode))
       \/ /\ is_softlink[InumAt(e)]
          /\ FindsNothing(LinkTarget(InumAt(e)))
          /\ FailLink
          /\ UNCHANGED mishaps
       \/ /\ is_softlink[InumAt(e)]
          /\ \E f \in DirSlots :
               /\ Finds(f, LinkTarget(InumAt(e)))
               /\ OpenInode(InumAt(f), mode)
               /\ IF is_softlink[InumAt(f)]
                    THEN mishaps' = mishaps \cup {"chain"}
                    ELSE Mishap("pulled", TruncatesOpen(InumAt(f), mode))

OpenNew(name) ==
  \/ NoneFree(freeinode_ts) /\ FailLink
  \/ \E inum \in Inumbers :
       /\ DirHasNoRoom(name)
       /\ InodeComesAndGoes(inum, FALSE)
       /\ ret' = -1
       /\ UNCHANGED <<phase, dir_entry, blockVars, fileVars>>
  \/ \E inum \in Inumbers :
       /\ InodeCreate(inum, FALSE)
       /\ AddDirEntry(name, inum)
       /\ AddHandle(inum, 0)
       /\ UNCHANGED blockVars

OpenMissing(name, mode) ==
  /\ FindsNothing(name)
  /\ IF name \notin BadPaths /\ "CREAT" \in mode THEN OpenNew(name) ELSE FailLink
  /\ UNCHANGED mishaps

Open(name, mode) == OpenExisting(name, mode) \/ OpenMissing(name, mode)

LinkOpen(name, mode) ==
  /\ phase = "up" /\ copy = NoCopy
  /\ Open(name, mode)
  /\ buf' = <<>>
  /\ UNCHANGED <<lock_file_entries, copy>>

-----------------------------------------------------------------------------
(* tfs_link and tfs_sym_link.  Neither looks whether link_name is taken.    *)

LinkCall == phase = "up" /\ copy = NoCopy /\ buf' = <<>> /\ UNCHANGED <<lock_file_entries, copy>>

HardLink(target, link_name) ==
  /\ LinkCall
  /\ \/ /\ FindsNothing(target) \/ link_name \in BadPaths
        /\ FailLink
     \/ \E e \in DirSlots :
          /\ Finds(e, target)
          /\ is_softlink[InumAt(e)] \/ DirHasNoRoom(link_name)
          /\ FailLink
     \/ \E e \in DirSlots :
          /\ Finds(e, target)
          /\ ~is_softlink[InumAt(e)]
          /\ AddDirEntry(link_name, InumAt(e))
          /\ cnt_hardlinks' = [cnt_hardlinks EXCEPT ![InumAt(e)] = @ + 1]
          /\ ret' = 0
          /\ UNCHANGED <<phase, inodeVars, blockVars, fileVars, is_softlink>>
  /\ UNCHANGED mishaps

\* A target that is itself a symbolic link is replaced by what that one
\* stores, if the directory has it.
FinalTarget(e, target) ==
  IF is_softlink[InumAt(e)] THEN LinkTarget(InumAt(e)) ELSE target

\* The name is copied without its final zero.
StoreName(b, name) == Memcpy(b, 0, name, Len(name))

SymLinkMade(name, link_name) ==
  \E inum \in Inumbers, b \in Blocks :
    /\ IsFirstFree(freeinode_ts, inum)
    /\ freeinode_ts' = [freeinode_ts EXCEPT ![inum] = "TAKEN"]
    /\ inode_table' = [inode_table EXCEPT ![inum] =
         [NewFileInode EXCEPT !.i_data_block = b, !.i_size = Len(name)]]
    /\ cnt_hardlinks' = [cnt_hardlinks EXCEPT ![inum] = 1]
    /\ is_softlink' = [is_softlink EXCEPT ![inum] = TRUE]
    /\ IsFirstFree(free_blocks, b)
    /\ free_blocks' = [free_blocks EXCEPT ![b] = "TAKEN"]
    /\ StoreName(b, name)
    /\ AddDirEntry(link_name, inum)
    /\ ret' = 0
    /\ UNCHANGED <<phase, fileVars, mishaps>>

SymLinkNoBlock ==
  /\ NoneFree(free_blocks)
  /\ \E inum \in Inumbers : InodeComesAndGoes(inum, TRUE)
  /\ ret' = -1
  /\ UNCHANGED <<phase, dir_entry, blockVars, fileVars, mishaps>>

\* inode_delete finds a size of 0 and leaves the block TAKEN.
SymLinkDirFull(name, link_name) ==
  /\ DirHasNoRoom(link_name)
  /\ \E inum \in Inumbers, b \in Blocks :
       /\ IsFirstFree(freeinode_ts, inum)
       /\ inode_table' = [inode_table EXCEPT ![inum] = [NewFileInode EXCEPT !.i_data_block = b]]
       /\ cnt_hardlinks' = [cnt_hardlinks EXCEPT ![inum] = 1]
       /\ is_softlink' = [is_softlink EXCEPT ![inum] = TRUE]
       /\ IsFirstFree(free_blocks, b)
       /\ free_blocks' = [free_blocks EXCEPT ![b] = "TAKEN"]
       /\ StoreName(b, name)
  /\ mishaps' = mishaps \cup {"full"}
  /\ ret' = -1
  /\ UNCHANGED <<phase, freeinode_ts, dir_entry, fileVars>>

\* inode_get(-1): the assertion ends the process.
SymLinkNoInode ==
  /\ NoneFree(freeinode_ts)
  /\ phase' = "panic"
  /\ mishaps' = mishaps \cup {"no_inode"}
  /\ UNCHANGED <<inodeVars, dir_entry, blockVars, fileVars, linkVars, ret>>

SymLink(target, link_name) ==
  /\ LinkCall
  /\ \/ /\ \/ link_name \in BadPaths
           \/ FindsNothing(target)
           \/ \E e \in DirSlots : Finds(e, target) /\ FindsNothing(FinalTarget(e, target))
        /\ FailLink
        /\ UNCHANGED mishaps
     \/ \E e \in DirSlots :
          LET name == FinalTarget(e, target)
          IN  /\ link_name \notin BadPaths
              /\ Finds(e, target)
              /\ ~FindsNothing(name)
              /\ \/ SymLinkMade(name, link_name)
                 \/ SymLinkNoBlock
                 \/ SymLinkDirFull(name, link_name)
                 \/ SymLinkNoInode

-----------------------------------------------------------------------------
(* tfs_unlink.                                                             *)

\* mutant: the file goes with the first of its names
UnlinkDeletes(name) ==
  /\ LinkCall
  /\ \E e \in DirSlots :
       /\ Finds(e, name)
       /\ ClearDirEntry(name)
       /\ InodeDelete(InumAt(e))
       /\ Mishap("pulled", HandlesOn(InumAt(e)) # {})
  /\ ret' = 0
  /\ UNCHANGED <<phase, fileVars, linkVars>>

Unlink(name) ==
  /\ LinkCall
  /\ \/ FindsNothing(name) /\ FailLink /\ UNCHANGED mishaps
     \/ \E e \in DirSlots :
          LET inum == InumAt(e)
          IN  /\ Finds(e, name)
              /\ ClearDirEntry(name)
              /\ cnt_hardlinks' = [cnt_hardlinks EXCEPT ![inum] = @ - 1]
              /\ IF cnt_hardlinks[inum] = 1
                   THEN InodeDelete(inum) /\ Mishap("pulled", HandlesOn(inum) # {})
                   ELSE UNCHANGED <<inodeVars, blockVars, mishaps>>
              /\ ret' = 0
              /\ UNCHANGED <<phase, fileVars, is_softlink>>

-----------------------------------------------------------------------------
(* Calls on handles.  get_open_file_entry returns NULL for a closed handle  *)
(* with lock_file_entries held.                                            *)

RefuseHandle(h) ==
  /\ ~IsOpen(h)
  /\ h \in Handles => lock_file_entries = "free"
  /\ lock_file_entries' = IF h \in Handles THEN "kept" ELSE lock_file_entries
  /\ FailLink

WaitForEver(h) ==
  /\ h \in Handles /\ lock_file_entries = "kept"
  /\ phase' = "stuck"
  /\ UNCHANGED <<inodeVars, dir_entry, blockVars, fileVars, linkVars, lock_file_entries, ret>>

HandleGood(h) == lock_file_entries = "free" /\ IsOpen(h)

LinkClose(h) ==
  /\ phase = "up" /\ copy = NoCopy
  /\ \/ RefuseHandle(h) \/ WaitForEver(h)
     \/ HandleGood(h) /\ CloseHandle(h) /\ UNCHANGED <<linkVars, lock_file_entries>>
  /\ buf' = <<>>
  /\ UNCHANGED <<copy, mishaps>>

WriteOpen(h, data) ==
  WriteBytes(h, data) \/ WriteNoSpace(h, data) \/ WriteNothing(h, data) \/ WriteDies(h, data)

LinkWrite(h, data) ==
  /\ phase = "up" /\ copy = NoCopy
  /\ \/ RefuseHandle(h) \/ WaitForEver(h)
     \/ HandleGood(h) /\ WriteOpen(h, data) /\ UNCHANGED <<linkVars, lock_file_entries>>
  /\ buf' = <<>>
  /\ UNCHANGED <<copy, mishaps>>

LinkRead(h, len) ==
  /\ phase = "up" /\ copy = NoCopy
  /\ \/ RefuseHandle(h) /\ buf' = <<>>
     \/ WaitForEver(h) /\ buf' = <<>>
     \/ /\ HandleGood(h) /\ open_file_table[h].of_offset <= MAX_OFFSET
        /\ ReadBytes(h, len) \/ ReadDies(h, len)
        /\ UNCHANGED <<linkVars, lock_file_entries>>
  /\ UNCHANGED <<copy, mishaps>>

-----------------------------------------------------------------------------
(* tfs_copy_from_external_fs: tfs_open, one tfs_write for each buffer that  *)
(* fread fills and one for what is left, tfs_close.  The caller is one     *)
(* thread, so no other call comes in between.  A source that does not open *)
(* changes nothing and is left out.                                        *)

\* mutant: the destination is not truncated
CopyAppends(dest, file) ==
  /\ phase = "up" /\ copy = NoCopy
  /\ Open(dest, {"CREAT", "APPEND"})
  /\ copy' = IF phase' = "up" /\ ret' # -1
               THEN [to |-> ret', file |-> file, at |-> 0, outcome |-> 1]
               ELSE NoCopy
  /\ buf' = <<>>
  /\ UNCHANGED lock_file_entries

CopyOpens(dest, file) ==
  /\ phase = "up" /\ copy = NoCopy
  /\ Open(dest, {"CREAT", "TRUNC", "APPEND"})
  /\ copy' = IF phase' = "up" /\ ret' # -1
               THEN [to |-> ret', file |-> file, at |-> 0, outcome |-> 1]
               ELSE NoCopy
  /\ buf' = <<>>
  /\ UNCHANGED lock_file_entries

\* outcome is 1 while there is more to write, then what the call will return
CopyWrites ==
  LET rest == Len(copy.file) - copy.at
      n    == AtMost(rest, COPY_BUFFER)
  IN  /\ phase = "up" /\ copy.outcome = 1
      /\ WriteOpen(copy.to, SubSeq(copy.file, copy.at + 1, copy.at + n))
      /\ copy' = [copy EXCEPT !.at = @ + n,
                    !.outcome = IF ret' = -1 THEN -1 ELSE IF rest < COPY_BUFFER THEN 0 ELSE 1]
      /\ buf' = <<>>
      /\ UNCHANGED <<linkVars, lock_file_entries, mishaps>>

CopyCloses ==
  /\ phase = "up" /\ copy # NoCopy /\ copy.outcome # 1
  /\ free_open_file_entries' = [free_open_file_entries EXCEPT ![copy.to] = "FREE"]
  /\ ret' = copy.outcome
  /\ copy' = NoCopy
  /\ buf' = <<>>
  /\ UNCHANGED <<phase, inodeVars, dir_entry, blockVars, open_file_table,
                 linkVars, lock_file_entries, mishaps>>

-----------------------------------------------------------------------------
(* The caller.                                                             *)

HandleArgs == Handles \cup {-1}

CallOpen   == \E name \in Paths, mode \in OpenModes : LinkOpen(name, mode)
CallLink   == \E target, link_name \in Paths : HardLink(target, link_name)
CallSymLink == \E target, link_name \in Paths : SymLink(target, link_name)
CallUnlink == \E name \in Paths : Unlink(name)
CallClose  == \E h \in HandleArgs : LinkClose(h)
CallWrite  == \E h \in HandleArgs, data \in Buffers : LinkWrite(h, data)
CallRead   == \E h \in HandleArgs, len \in ReadLens : LinkRead(h, len)
CallCopy   == (\E dest \in Paths, file \in ExternalFiles : CopyOpens(dest, file))
                \/ CopyWrites \/ CopyCloses

LinksInit ==
  /\ Init
  /\ cnt_hardlinks = [i \in Inumbers |-> 1]
  /\ is_softlink = [i \in Inumbers |-> FALSE]
  /\ lock_file_entries = "free"
  /\ copy = NoCopy
  /\ mishaps = {}

LinksNext ==
  \/ CallOpen \/ CallLink \/ CallSymLink \/ CallUnlink
  \/ CallClose \/ CallWrite \/ CallRead \/ CallCopy

LinksSpec == LinksInit /\ [][LinksNext]_linksVars

-----------------------------------------------------------------------------
(* Properties.                                                             *)

EntriesOf(inum) == {e \in DirSlots : InumAt(e) = inum}

\* Type correctness of the tables of exercise1 and of a copy in progress.
LinksTypeOK ==
  /\ phase \in {"up", "panic", "stuck"}
  /\ freeinode_ts \in [Inumbers -> {"FREE", "TAKEN"}]
  /\ inode_table \in [Inumbers -> Inode]
  /\ dir_entry \in [DirSlots -> DirEntry]
  /\ free_blocks \in [Blocks -> {"FREE", "TAKEN"}]
  /\ fs_data \in [Blocks -> [Offsets -> Bytes \cup {Garbage}]]
  /\ free_open_file_entries \in [Handles -> {"FREE", "TAKEN"}]
  /\ open_file_table \in [Handles -> OpenFile]
  /\ ret \in Nat \cup {-1}
  /\ buf \in Seq(Bytes \cup {Garbage})
  /\ cnt_hardlinks \in [Inumbers -> Nat]
  /\ is_softlink \in [Inumbers -> BOOLEAN]
  /\ lock_file_entries \in {"free", "kept"}
  /\ copy \in [to : Handles \cup {-1}, file : ExternalFiles \cup {<<>>},
               at : Nat, outcome : {-1, 0, 1}]
  /\ mishaps \subseteq Mishaps

\* The counter of hard links of a live file is the number of its directory
\* entries, never 0, and a symbolic link has just one; freed inodes have no
\* entry (tfs_open, tfs_link, tfs_sym_link and tfs_unlink change both).
LinkCountExact ==
  \A i \in Inumbers \ {ROOT_DIR_INUM} :
    /\ Live(i) => /\ cnt_hardlinks[i] = Cardinality(EntriesOf(i))
                  /\ cnt_hardlinks[i] > 0
                  /\ is_softlink[i] => cnt_hardlinks[i] = 1
    /\ ~Live(i) => EntriesOf(i) = {}

\* No live file shares its block or has a block that is free, whatever is
\* linked, unlinked and written through stale handles.
LinkBlocksExclusive == BlocksExclusive /\ RootIntact

\* An allocated block that no live file owns was lost in one of two ways:
\* tfs_sym_link met a full directory, or a file was pulled from under a handle.
LostBlockHasCause ==
  (\E b \in Blocks : free_blocks[b] = "TAKEN" /\ ~\E i \in Inumbers : Owns(i, b))
    => mishaps \cap {"full", "pulled"} # {}

\* The block of a symbolic link is its own and keeps its contents for as long
\* as the link exists, unless a handle reaches the link that should not.
LinksKeepTarget ==
  [][\A i \in Inumbers :
       /\ Live(i) /\ is_softlink[i] /\ Live(i)' /\ is_softlink[i]'
       /\ mishaps' \cap {"pulled", "chain"} = {}
       => LET b == inode_table[i].i_data_block
          IN  inode_table'[i] = inode_table[i] /\ Owns(i, b)' /\ fs_data'[b] = fs_data[b]]_linksVars

\* The process dies in an assertion only where the inode table was full for
\* tfs_sym_link, or a file was pulled from under a handle.
LinkPanicHasCause ==
  phase = "panic" => mishaps \cap {"no_inode", "pulled", "chain"} # {}

\* After a copy that returned 0 the destination holds the source, cut at the
\* end of the block, and nothing of what it held before.
CopyReplaces ==
  [][copy # NoCopy /\ copy' = NoCopy /\ ret' = 0 =>
       LET inode == inode_table[open_file_table[copy.to].of_inumber]
       IN  /\ inode.i_size = AtMost(Len(copy.file), BLOCK_SIZE)
           /\ \A o \in 0 .. inode.i_size - 1 :
                fs_data[inode.i_data_block][o] = copy.file[o + 1]]_linksVars

\* tfs_sym_link finds its target before it makes a link, so the name a new
\* link stores is in the directory.
NewLinkLeadsSomewhere ==
  [][\A i \in Inumbers :
       (~Live(i) /\ Live(i)' /\ is_softlink'[i]) => ~FindsNothing(LinkTarget(i))']_linksVars

=============================================================================
