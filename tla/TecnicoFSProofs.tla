------------------------- MODULE TecnicoFSProofs -------------------------
(***************************************************************************)
(* What each call of exercise2/fs does to its tables, for every number of  *)
(* inodes, blocks, handles and directory slots: it keeps them typed        *)
(* (TypeOK) and in agreement (TablesInv), whoever calls it and with what.  *)
(***************************************************************************)
EXTENDS TecnicoFS, TLAPS

(***************************************************************************)
(* Operators.                                                              *)
(***************************************************************************)

\* The unsigned subtraction of tfs_write and tfs_read always yields a size.
LEMMA SizeSubNat == ASSUME NEW p \in Nat, NEW q \in Nat PROVE SizeSub(p, q) \in Nat
  BY SizesAssumption DEF SizeSub

\* Where it does not wrap it is the subtraction.
LEMMA SizeSubExact ==
  ASSUME NEW p \in 0 .. BLOCK_SIZE, NEW q \in 0 .. p
  PROVE  SizeSub(p, q) = p - q
  BY SizesAssumption DEF SizeSub

\* tfs_write never writes past the block of a handle that is within it.
LEMMA ToWriteFits ==
  ASSUME NEW off \in 0 .. BLOCK_SIZE, NEW len \in Nat
  PROVE  /\ ToWrite(off, len) \in Nat
         /\ ToWrite(off, len) <= len
         /\ off + ToWrite(off, len) <= BLOCK_SIZE
<1>1. CASE len + off > BLOCK_SIZE
  <2>1. SizeSub(BLOCK_SIZE, off) = BLOCK_SIZE - off
    BY SizeSubExact, SizesAssumption
  <2> QED BY <1>1, <2>1, SizesAssumption DEF ToWrite
<1>2. CASE ~(len + off > BLOCK_SIZE)
  BY <1>2, SizesAssumption DEF ToWrite
<1> QED BY <1>1, <1>2

\* A byte read at any offset is a byte of fs_data or garbage.
LEMMA ByteAtTyped ==
  ASSUME TypeOK, NEW blk \in Int, NEW o \in Nat
  PROVE  ByteAt(blk, o) \in Bytes \cup {Garbage}
<1>1. o % BLOCK_SIZE \in Offsets
  BY SizesAssumption DEF Offsets
<1> QED BY <1>1 DEF ByteAt, TypeOK

\* Inodes and open file entries with a field replaced are typed.
LEMMA InodeUpdate ==
  ASSUME NEW r \in Inode, NEW blk \in Blocks \cup {-1}, NEW sz \in 0 .. BLOCK_SIZE
  PROVE  [r EXCEPT !.i_data_block = blk, !.i_size = sz] \in Inode
  BY DEF Inode

\* Moving the offset of a handle within range keeps its entry typed.
LEMMA OpenFileUpdate ==
  ASSUME NEW r \in OpenFile, NEW off \in Nat
  PROVE  [r EXCEPT !.of_offset = off] \in OpenFile
  BY DEF OpenFile

(***************************************************************************)
(* Type correctness, operation by operation.                               *)
(***************************************************************************)

\* tfs_init leaves typed tables.
LEMMA InitTyped == Init => TypeOK
  BY SizesAssumption, NamesAssumption
  DEF Init, TypeOK, FreshInodeTs, FreshInodes, FreshDirectory, FreshBlocks, FreshData,
      FreshOpenFiles, AllFree, Inode, DirEntry, OpenFile, RootInode, NewFileInode,
      Inumbers, Blocks, Handles, DirSlots, Offsets, ROOT_DIR_INUM

\* The open file table stays typed when a file is added to it.
LEMMA AddTyped ==
  ASSUME TypeOK, NEW inum \in Inumbers, NEW off \in Nat, AddToOpenFileTable(inum, off)
  PROVE  /\ free_open_file_entries' \in [Handles -> {"FREE", "TAKEN"}]
         /\ open_file_table' \in [Handles -> OpenFile]
         /\ ret' \in Nat \cup {-1}
<1>1. CASE NoneFree(free_open_file_entries) /\ ret' = -1 /\ UNCHANGED fileVars
  BY <1>1 DEF TypeOK, fileVars
<1>2. ASSUME NEW h \in Handles,
             free_open_file_entries' = [free_open_file_entries EXCEPT ![h] = "TAKEN"],
             open_file_table' = [open_file_table EXCEPT ![h] =
                                   [of_inumber |-> inum, of_offset |-> off]],
             ret' = h
      PROVE  /\ free_open_file_entries' \in [Handles -> {"FREE", "TAKEN"}]
             /\ open_file_table' \in [Handles -> OpenFile]
             /\ ret' \in Nat \cup {-1}
  <2>1. [of_inumber |-> inum, of_offset |-> off] \in OpenFile
    BY DEF OpenFile
  <2>2. h \in Nat
    BY SizesAssumption DEF Handles
  <2> QED BY <1>2, <2>1, <2>2 DEF TypeOK
<1> QED BY <1>1, <1>2 DEF AddToOpenFileTable

\* A failed call leaves every table typed.
LEMMA FailTyped ==
  ASSUME TypeOK, FailCall, buf' = <<>>
  PROVE  TypeOK'
  BY DEF TypeOK, FailCall, inodeVars, blockVars, fileVars

\* Truncation leaves typed inodes and blocks.
LEMMA TruncateTyped ==
  ASSUME TypeOK, NEW inum \in Inumbers, NEW mode, Truncate(inum, mode)
  PROVE  /\ inode_table' \in [Inumbers -> Inode]
         /\ free_blocks' \in [Blocks -> {"FREE", "TAKEN"}]
<1>1. CASE "TRUNC" \in mode /\ inode_table[inum].i_size > 0
  <2>1. inode_table[inum] \in Inode
    BY DEF TypeOK
  <2>2. [inode_table[inum] EXCEPT !.i_size = 0] \in Inode
    BY <2>1, SizesAssumption DEF Inode
  <2>3. inode_table' = [inode_table EXCEPT ![inum] = [inode_table[inum] EXCEPT !.i_size = 0]]
    BY <1>1 DEF Truncate
  <2>4. free_blocks' \in [Blocks -> {"FREE", "TAKEN"}]
    BY <1>1 DEF Truncate, TypeOK
  <2> QED BY <2>2, <2>3, <2>4 DEF TypeOK
<1>2. CASE ~("TRUNC" \in mode /\ inode_table[inum].i_size > 0)
  BY <1>2 DEF Truncate, TypeOK
<1> QED BY <1>1, <1>2

\* tfs_open of a file that is there.
LEMMA OpenFoundTyped ==
  ASSUME TypeOK, NEW e \in DirSlots, NEW name, NEW mode,
         OpenFound(e, name, mode), buf' = <<>>
  PROVE  TypeOK'
<1> DEFINE inum == dir_entry[e].d_inumber
<1>1. inum \in Inumbers
  BY DEF OpenFound, FindInDir, EntryMatches, TypeOK, DirEntry
<1>2. /\ inode_table' \in [Inumbers -> Inode]
      /\ free_blocks' \in [Blocks -> {"FREE", "TAKEN"}]
  <2>1. Truncate(inum, mode)
    BY DEF OpenFound
  <2> HIDE DEF inum
  <2> QED BY <1>1, <2>1, TruncateTyped
<1>3. InitialOffset(inode_table'[inum].i_size, mode) \in Nat
  BY <1>1, <1>2, SizesAssumption DEF InitialOffset, Inode
<1>4. AddToOpenFileTable(inum, InitialOffset(inode_table'[inum].i_size, mode))
  BY DEF OpenFound
<1>5. /\ free_open_file_entries' \in [Handles -> {"FREE", "TAKEN"}]
      /\ open_file_table' \in [Handles -> OpenFile]
      /\ ret' \in Nat \cup {-1}
  BY <1>1, <1>3, <1>4, AddTyped
<1> QED BY <1>2, <1>5 DEF OpenFound, TypeOK

\* tfs_open that creates, or fails after it created.
LEMMA OpenCreatesTyped ==
  ASSUME TypeOK, NEW name, NEW mode, OpenCreates(name, mode), buf' = <<>>
  PROVE  TypeOK'
<1>0. NewFileInode \in Inode
  BY SizesAssumption DEF NewFileInode, Inode
<1>1. CASE FailCall
  BY <1>1, FailTyped
<1>2. ASSUME NEW inum \in Inumbers,
             inode_table' = [inode_table EXCEPT ![inum] = NewFileInode], ret' = -1,
             UNCHANGED <<phase, freeinode_ts, dir_entry, blockVars, fileVars>>
      PROVE  TypeOK'
  BY <1>0, <1>2 DEF TypeOK, blockVars, fileVars
<1>3. ASSUME NEW inum \in Inumbers, InodeCreateFile(inum), AddDirEntry(name, inum),
             AddToOpenFileTable(inum, 0), UNCHANGED <<phase, blockVars>>
      PROVE  TypeOK'
  <2>1. /\ freeinode_ts' \in [Inumbers -> {"FREE", "TAKEN"}]
        /\ inode_table' \in [Inumbers -> Inode]
    BY <1>0, <1>3 DEF InodeCreateFile, TypeOK
  <2>2. dir_entry' \in [DirSlots -> DirEntry]
    BY <1>3 DEF AddDirEntry, TypeOK, DirEntry
  <2>3. /\ free_open_file_entries' \in [Handles -> {"FREE", "TAKEN"}]
        /\ open_file_table' \in [Handles -> OpenFile]
        /\ ret' \in Nat \cup {-1}
    BY <1>3, AddTyped
  <2> QED BY <1>3, <2>1, <2>2, <2>3 DEF TypeOK, blockVars
<1> QED BY <1>1, <1>2, <1>3 DEF OpenCreates

\* tfs_open as a whole.
LEMMA OpenTyped ==
  ASSUME TypeOK, NEW name, NEW mode, TfsOpen(name, mode)
  PROVE  TypeOK'
<1>1. CASE OpenFails(name, mode)
  BY <1>1, FailTyped DEF OpenFails, TfsOpen
<1>2. CASE \E e \in DirSlots : OpenFound(e, name, mode)
  BY <1>2, OpenFoundTyped DEF TfsOpen
<1>3. CASE OpenCreates(name, mode)
  BY <1>3, OpenCreatesTyped DEF TfsOpen
<1> QED BY <1>1, <1>2, <1>3 DEF TfsOpen

\* tfs_close gives the entry back and touches nothing else.
LEMMA CloseTyped ==
  ASSUME TypeOK, NEW h, TfsClose(h)
  PROVE  TypeOK'
<1>1. CASE CloseHandle(h)
  BY <1>1 DEF CloseHandle, TfsClose, IsOpen, TypeOK, inodeVars, blockVars
<1>2. CASE FailCall
  BY <1>2, FailTyped DEF TfsClose
<1> QED BY <1>1, <1>2 DEF TfsClose

\* tfs_unlink with inode_delete and clear_dir_entry.
LEMMA UnlinkTyped ==
  ASSUME TypeOK, NEW name, TfsUnlink(name)
  PROVE  TypeOK'
<1>1. ASSUME NEW e \in DirSlots, UnlinkFound(e, name)
      PROVE  TypeOK'
  <2>1. /\ freeinode_ts' \in [Inumbers -> {"FREE", "TAKEN"}]
        /\ free_blocks' \in [Blocks -> {"FREE", "TAKEN"}]
    BY <1>1 DEF UnlinkFound, InodeDelete, TypeOK
  <2>2. dir_entry' \in [DirSlots -> DirEntry]
    BY <1>1 DEF UnlinkFound, ClearDirEntry, TypeOK, DirEntry
  <2> QED BY <1>1, <2>1, <2>2 DEF UnlinkFound, InodeDelete, TypeOK, TfsUnlink, fileVars
<1>2. CASE FailCall
  BY <1>2, FailTyped DEF TfsUnlink
<1> QED BY <1>1, <1>2 DEF TfsUnlink

\* Bytes copied into a block leave it typed.
LEMMA MemcpyTyped ==
  ASSUME TypeOK, NEW data \in Seq(Bytes), NEW blk, NEW off \in Nat, NEW n \in Nat,
         n <= Len(data), Memcpy(blk, off, data, n)
  PROVE  fs_data' \in [Blocks -> [Offsets -> Bytes \cup {Garbage}]]
<1> DEFINE new == [o \in Offsets |-> IF off <= o /\ o < off + n
                                       THEN data[o - off + 1] ELSE fs_data[blk][o]]
<1>1. CASE blk \in Blocks
  <2>1. ASSUME NEW o \in Offsets PROVE new[o] \in Bytes \cup {Garbage}
    <3>1. CASE off <= o /\ o < off + n
      <4>1. o - off + 1 \in 1 .. Len(data)
        BY <3>1, SizesAssumption DEF Offsets
      <4> QED BY <3>1, <4>1
    <3>2. CASE ~(off <= o /\ o < off + n)
      BY <1>1, <3>2 DEF TypeOK
    <3> QED BY <3>1, <3>2
  <2>2. new \in [Offsets -> Bytes \cup {Garbage}]
    BY <2>1
  <2>3. fs_data' = [fs_data EXCEPT ![blk] = new]
    BY DEF Memcpy
  <2> QED BY <1>1, <2>2, <2>3 DEF TypeOK
<1>2. CASE blk \notin Blocks
  BY <1>2 DEF Memcpy, TypeOK
<1> QED BY <1>1, <1>2

\* tfs_write that stores bytes, with or without a new block.
LEMMA WriteBytesTyped ==
  ASSUME TypeOK, NEW h \in Handles, NEW data \in Seq(Bytes), WriteBytes(h, data), buf' = <<>>
  PROVE  TypeOK'
<1> DEFINE inum == open_file_table[h].of_inumber
           off  == open_file_table[h].of_offset
           n    == ToWrite(off, Len(data))
           size == inode_table[inum].i_size
           Grow(blk) == [inode_table EXCEPT ![inum].i_data_block = blk,
                                            ![inum].i_size = GrownSize(size, off + n)]
<1>1. data \in Seq(Bytes) /\ Len(data) \in Nat
  OBVIOUS
<1>2. inum \in Inumbers /\ off \in 0 .. BLOCK_SIZE /\ size \in 0 .. BLOCK_SIZE
  BY SizesAssumption DEF TypeOK, OpenFile, WriteBytes, Inode
<1>3. n \in Nat /\ n <= Len(data) /\ off + n <= BLOCK_SIZE
  BY <1>1, <1>2, ToWriteFits
<1>4. GrownSize(size, off + n) \in 0 .. BLOCK_SIZE
  BY <1>2, <1>3, SizesAssumption DEF GrownSize
<1>5. ASSUME NEW blk \in Blocks \cup {-1}, inode_table' = Grow(blk)
      PROVE  inode_table' \in [Inumbers -> Inode]
  <2>1. [inode_table[inum] EXCEPT !.i_data_block = blk, !.i_size = GrownSize(size, off + n)]
          \in Inode
    <3>1. inode_table[inum] \in Inode
      BY <1>2 DEF TypeOK
    <3> QED BY <1>4, <3>1, InodeUpdate
  <2>2. inode_table' = [inode_table EXCEPT ![inum] =
          [inode_table[inum] EXCEPT !.i_data_block = blk, !.i_size = GrownSize(size, off + n)]]
    BY <1>2, <1>5 DEF TypeOK
  <2> QED BY <1>2, <2>1, <2>2 DEF TypeOK
<1>6. ASSUME NEW blk \in Blocks \cup {-1}, Memcpy(blk, off, data, n)
      PROVE  fs_data' \in [Blocks -> [Offsets -> Bytes \cup {Garbage}]]
  <2>1. off \in Nat
    BY <1>2, SizesAssumption
  <2> HIDE DEF off, n
  <2> QED BY <1>1, <1>3, <1>6, <2>1, MemcpyTyped
<1>7. PICK blk \in Blocks \cup {-1} :
        /\ Memcpy(blk, off, data, n)
        /\ inode_table' = Grow(blk)
        /\ free_blocks' \in [Blocks -> {"FREE", "TAKEN"}]
  <2>1. CASE /\ Memcpy(inode_table[inum].i_data_block, off, data, n)
             /\ inode_table' = Grow(inode_table[inum].i_data_block)
             /\ UNCHANGED free_blocks
    <3>1. inode_table[inum].i_data_block \in Blocks \cup {-1}
      BY <1>2 DEF TypeOK, Inode
    <3> QED BY <2>1, <3>1 DEF TypeOK
  <2>2. ASSUME NEW blk \in Blocks, free_blocks' = [free_blocks EXCEPT ![blk] = "TAKEN"],
               Memcpy(blk, off, data, n), inode_table' = Grow(blk)
        PROVE  \E c \in Blocks \cup {-1} :
                 /\ Memcpy(c, off, data, n)
                 /\ inode_table' = Grow(c)
                 /\ free_blocks' \in [Blocks -> {"FREE", "TAKEN"}]
    BY <2>2 DEF TypeOK
  <2> QED BY <2>1, <2>2 DEF WriteBytes
<1>8. open_file_table' \in [Handles -> OpenFile]
  <2>1. [open_file_table[h] EXCEPT !.of_offset = off + n] \in OpenFile
    <3>1. open_file_table[h] \in OpenFile /\ off + n \in Nat
      BY <1>2, <1>3, SizesAssumption DEF TypeOK
    <3> QED BY <3>1, OpenFileUpdate
  <2>2. open_file_table' = [open_file_table EXCEPT ![h] =
                              [open_file_table[h] EXCEPT !.of_offset = off + n]]
    BY DEF WriteBytes
  <2> QED BY <2>1, <2>2 DEF TypeOK
<1>9. ret' \in Nat \cup {-1}
  BY <1>3 DEF WriteBytes
<1>10. /\ inode_table' \in [Inumbers -> Inode]
       /\ fs_data' \in [Blocks -> [Offsets -> Bytes \cup {Garbage}]]
  <2> HIDE DEF Grow, n, off
  <2> QED BY <1>5, <1>6, <1>7
<1>11. UNCHANGED <<phase, freeinode_ts, dir_entry, free_open_file_entries>>
  BY DEF WriteBytes
<1>12. buf' \in Seq(Bytes \cup {Garbage})
  OBVIOUS
<1> QED BY <1>7, <1>8, <1>9, <1>10, <1>11, <1>12 DEF TypeOK

\* tfs_write as a whole.
LEMMA WriteTyped ==
  ASSUME TypeOK, NEW h, NEW data \in Seq(Bytes), TfsWrite(h, data)
  PROVE  TypeOK'
<1>1. CASE FailCall
  BY <1>1, FailTyped DEF TfsWrite
<1>2. CASE IsOpen(h) /\ WriteBytes(h, data)
  BY <1>2, WriteBytesTyped DEF TfsWrite, IsOpen
<1>3. CASE WriteNothing(h, data)
  BY <1>3 DEF WriteNothing, TfsWrite, TypeOK, inodeVars, blockVars, fileVars
<1>4. CASE WriteDies(h, data)
  BY <1>4 DEF WriteDies, TfsWrite, TypeOK, inodeVars, blockVars, fileVars
<1> QED BY <1>1, <1>2, <1>3, <1>4 DEF TfsWrite, WriteNoSpace

\* tfs_read, whose offset and buffer stay typed even when it wraps.
LEMMA ReadTyped ==
  ASSUME TypeOK, NEW h, NEW len \in Nat, TfsRead(h, len)
  PROVE  TypeOK'
<1>1. CASE FailCall /\ buf' = <<>>
  BY <1>1, FailTyped
<1>2. CASE IsOpen(h) /\ ReadBytes(h, len)
  <2> DEFINE inode == inode_table[open_file_table[h].of_inumber]
             off   == open_file_table[h].of_offset
             n     == ToRead(h, len)
  <2>1. h \in Handles /\ inode \in Inode /\ off \in Nat
    BY <1>2 DEF IsOpen, TypeOK, OpenFile
  <2>2. n \in Nat
    <3>1. inode.i_size \in Nat
      BY <2>1, SizesAssumption DEF Inode
    <3>2. SizeSub(inode.i_size, off) \in Nat
      BY <2>1, <3>1, SizeSubNat
    <3> QED BY <3>2 DEF ToRead, AtMost
  <2>3. ASSUME NEW k \in 1 .. n
        PROVE  ByteAt(inode.i_data_block, off + k - 1) \in Bytes \cup {Garbage}
    <3>1. inode.i_data_block \in Int /\ off + k - 1 \in Nat
      BY <2>1, <2>2, SizesAssumption DEF Inode, Blocks
    <3> QED BY <3>1, ByteAtTyped
  <2>4. buf' \in Seq(Bytes \cup {Garbage})
    <3>1. buf' = [k \in 1 .. n |-> ByteAt(inode.i_data_block, off + k - 1)]
      BY <1>2 DEF ReadBytes
    <3> QED BY <2>2, <2>3, <3>1
  <2>5. open_file_table' \in [Handles -> OpenFile]
    <3>1. [open_file_table[h] EXCEPT !.of_offset = off + n] \in OpenFile
      <4>1. open_file_table[h] \in OpenFile /\ off + n \in Nat
        BY <2>1, <2>2 DEF TypeOK
      <4> QED BY <4>1, OpenFileUpdate
    <3>2. open_file_table' = [open_file_table EXCEPT ![h] =
                                [open_file_table[h] EXCEPT !.of_offset = off + n]]
      BY <1>2 DEF ReadBytes
    <3> QED BY <3>1, <3>2 DEF TypeOK
  <2>6. ret' \in Nat \cup {-1}
    BY <1>2, <2>2 DEF ReadBytes
  <2> QED BY <1>2, <2>4, <2>5, <2>6 DEF ReadBytes, TypeOK, inodeVars, blockVars
<1>3. CASE ReadDies(h, len)
  BY <1>3 DEF ReadDies, TypeOK, inodeVars, blockVars, fileVars
<1> QED BY <1>1, <1>2, <1>3 DEF TfsRead

\* A second tfs_init after tfs_destroy.
LEMMA InitAgainTyped == TypeOK /\ TfsInit => TypeOK'
<1> SUFFICES ASSUME TypeOK, TfsInit PROVE TypeOK'
  OBVIOUS
<1> QED BY SizesAssumption, NamesAssumption
  DEF TfsInit, TypeOK, FreshInodeTs, FreshInodes, FreshDirectory, FreshBlocks, FreshData,
      FreshOpenFiles, AllFree, Inode, DirEntry, OpenFile, RootInode, NewFileInode,
      Inumbers, Blocks, Handles, DirSlots, Offsets, ROOT_DIR_INUM

(***************************************************************************)
(* Agreement of the tables, operation by operation.                        *)
(***************************************************************************)

\* The root directory has an inode of the table.
LEMMA RootInumber == ROOT_DIR_INUM \in Inumbers
  BY SizesAssumption DEF ROOT_DIR_INUM, Inumbers

\* tfs_init leaves tables that agree.
LEMMA InitTables == Init => TablesInv
<1> SUFFICES ASSUME Init PROVE TablesInv
  OBVIOUS
<1>1. DirectoryConsistent /\ NamesKept
  BY SizesAssumption, NamesAssumption
  DEF Init, DirectoryConsistent, NamesKept, Used, Live, FreshInodeTs, FreshDirectory,
      Inumbers, ROOT_DIR_INUM
<1>2. BlocksExclusive
  BY SizesAssumption
  DEF Init, BlocksExclusive, Owns, Live, FreshInodeTs, FreshInodes, FreshBlocks,
      RootInode, NewFileInode, Inumbers, Blocks, ROOT_DIR_INUM
<1>3. RootIntact
  BY SizesAssumption
  DEF Init, RootIntact, Live, IsOpen, FreshInodeTs, FreshInodes, AllFree, Inumbers,
      Handles, ROOT_DIR_INUM
<1> QED BY <1>1, <1>2, <1>3 DEF TablesInv

\* The tables a handle is not part of decide all but the last part of RootIntact.
LEMMA SameTables ==
  ASSUME TablesInv, UNCHANGED <<freeinode_ts, inode_table, dir_entry, free_blocks>>,
         \A h \in Handles : IsOpen(h)' => open_file_table'[h].of_inumber # ROOT_DIR_INUM
  PROVE  TablesInv'
  BY DEF TablesInv, DirectoryConsistent, BlocksExclusive, RootIntact, NamesKept,
         Used, Live, Owns

\* A call that returns -1 at once changes none of the tables.
LEMMA FailTables ==
  ASSUME TablesInv, FailCall
  PROVE  TablesInv'
  BY SameTables DEF FailCall, inodeVars, blockVars, fileVars, IsOpen, TablesInv, RootIntact

(***************************************************************************)
(* The blocks alone: what holds of them however names lead to inodes.      *)
(***************************************************************************)

BlocksInv == BlocksExclusive /\ RootIntact

\* Only who opens what is new.
LEMMA SameBlocks ==
  ASSUME BlocksInv, UNCHANGED <<freeinode_ts, inode_table, free_blocks>>,
         \A h \in Handles : IsOpen(h)' => open_file_table'[h].of_inumber # ROOT_DIR_INUM
  PROVE  BlocksInv'
  BY DEF BlocksInv, BlocksExclusive, RootIntact, Live, Owns

\* Adding any file but the root to the open file table.
LEMMA AddNotRoot ==
  ASSUME TypeOK, RootIntact, NEW inum \in Inumbers \ {ROOT_DIR_INUM}, NEW off,
         AddToOpenFileTable(inum, off)
  PROVE  \A h \in Handles : IsOpen(h)' => open_file_table'[h].of_inumber # ROOT_DIR_INUM
<1>1. CASE UNCHANGED fileVars
  BY <1>1 DEF fileVars, IsOpen, RootIntact
<1>2. ASSUME NEW g \in Handles,
             free_open_file_entries' = [free_open_file_entries EXCEPT ![g] = "TAKEN"],
             open_file_table' = [open_file_table EXCEPT ![g] =
                                   [of_inumber |-> inum, of_offset |-> off]],
             NEW h \in Handles, IsOpen(h)'
      PROVE  open_file_table'[h].of_inumber # ROOT_DIR_INUM
  BY <1>2 DEF TypeOK, IsOpen, RootIntact
<1> QED BY <1>1, <1>2 DEF AddToOpenFileTable

\* Truncation gives back the block of its own inode only.
LEMMA TruncateBlocks ==
  ASSUME TypeOK, BlocksInv, NEW inum \in Inumbers \ {ROOT_DIR_INUM}, Live(inum),
         NEW mode, Truncate(inum, mode), UNCHANGED freeinode_ts
  PROVE  BlocksExclusive' /\ UNCHANGED inode_table[ROOT_DIR_INUM]
<1>1. CASE UNCHANGED <<free_blocks, inode_table>>
  BY <1>1 DEF BlocksInv, BlocksExclusive, Live, Owns
<1>2. CASE /\ inode_table[inum].i_size > 0
           /\ free_blocks' = [free_blocks EXCEPT ![inode_table[inum].i_data_block] = "FREE"]
           /\ inode_table' = [inode_table EXCEPT ![inum].i_size = 0]
  <2>1. UNCHANGED inode_table[ROOT_DIR_INUM]
    BY <1>2, RootInumber DEF TypeOK
  <2>2. BlocksExclusive'
    <3> SUFFICES ASSUME NEW i \in Inumbers, Live(i)', inode_table'[i].i_size > 0
                 PROVE  /\ inode_table'[i].i_data_block \in Blocks
                        /\ free_blocks'[inode_table'[i].i_data_block] = "TAKEN"
                        /\ \A j \in Inumbers : Owns(j, inode_table[i].i_data_block)' => j = i
      BY DEF BlocksExclusive
    <3>1. i # inum /\ Live(i) /\ inode_table'[i] = inode_table[i]
      BY <1>2 DEF TypeOK, Live
    <3>2. /\ inode_table[i].i_data_block \in Blocks
          /\ free_blocks[inode_table[i].i_data_block] = "TAKEN"
          /\ \A j \in Inumbers : Owns(j, inode_table[i].i_data_block) => j = i
      BY <3>1 DEF BlocksInv, BlocksExclusive
    <3>3. inode_table[i].i_data_block # inode_table[inum].i_data_block
      BY <1>2, <3>1, <3>2 DEF Owns
    <3>4. ASSUME NEW j \in Inumbers, Live(j)', inode_table'[j].i_size > 0,
                 inode_table'[j].i_data_block = inode_table[i].i_data_block
          PROVE  j = i
      <4>1. j # inum /\ Live(j) /\ inode_table'[j] = inode_table[j]
        BY <1>2, <3>4 DEF TypeOK, Live
      <4> QED BY <3>2, <3>4, <4>1 DEF Owns
    <3> QED BY <1>2, <3>1, <3>2, <3>3, <3>4 DEF Owns, TypeOK
  <2> QED BY <2>1, <2>2
<1> QED BY <1>1, <1>2 DEF Truncate

\* inode_delete gives back the block of its own inode only.
LEMMA DeleteBlocks ==
  ASSUME TypeOK, BlocksInv, NEW inum \in Inumbers \ {ROOT_DIR_INUM}, Live(inum),
         InodeDelete(inum), UNCHANGED fileVars
  PROVE  BlocksInv' /\ \A i \in Inumbers : Live(i)' <=> Live(i) /\ i # inum
<1>1. \A i \in Inumbers : Live(i)' <=> Live(i) /\ i # inum
  BY DEF InodeDelete, TypeOK, Live
<1>2. BlocksExclusive'
  <2> SUFFICES ASSUME NEW i \in Inumbers, Live(i)', inode_table[i].i_size > 0
               PROVE  /\ inode_table[i].i_data_block \in Blocks
                      /\ free_blocks'[inode_table[i].i_data_block] = "TAKEN"
                      /\ \A j \in Inumbers : Live(j)' /\ inode_table[j].i_size > 0
                           /\ inode_table[j].i_data_block = inode_table[i].i_data_block => j = i
    BY DEF BlocksExclusive, Owns, InodeDelete
  <2>1. i # inum /\ Live(i)
    BY <1>1
  <2>2. /\ inode_table[i].i_data_block \in Blocks
        /\ free_blocks[inode_table[i].i_data_block] = "TAKEN"
        /\ \A j \in Inumbers : Owns(j, inode_table[i].i_data_block) => j = i
    BY <2>1 DEF BlocksInv, BlocksExclusive
  <2>3. inode_table[inum].i_size > 0 =>
          inode_table[i].i_data_block # inode_table[inum].i_data_block
    BY <2>1, <2>2 DEF Owns
  <2> QED BY <1>1, <2>2, <2>3 DEF Owns, InodeDelete, TypeOK
<1>3. RootIntact'
  BY <1>1, RootInumber DEF InodeDelete, BlocksInv, RootIntact, IsOpen, fileVars
<1> QED BY <1>1, <1>2, <1>3 DEF BlocksInv

\* clear_dir_entry clears the entry that find_in_dir found.
LEMMA ClearsFound ==
  ASSUME TypeOK, NamesKept, NEW e \in DirSlots, NEW name, FindInDir(e, name), ClearDirEntry(name)
  PROVE  /\ dir_entry'[e] = [d_name |-> NoName, d_inumber |-> -1]
         /\ \A f \in DirSlots \ {e} : dir_entry'[f] = dir_entry[f]
<1>1. PICK f \in DirSlots :
        /\ dir_entry[f].d_name = name
        /\ \A g \in DirSlots : g < f => dir_entry[g].d_name # name
        /\ dir_entry' = [dir_entry EXCEPT ![f] = [d_name |-> NoName, d_inumber |-> -1]]
  BY DEF ClearDirEntry
<1>2. f = e
  <2>1. /\ dir_entry[e].d_name = name /\ Used(e) /\ name # NoName
        /\ \A g \in DirSlots : g < e => ~(Used(g) /\ dir_entry[g].d_name = name)
    BY DEF FindInDir, EntryMatches, Used, NamesKept
  <2>2. ~(f < e) /\ ~(e < f)
    BY <1>1, <2>1 DEF NamesKept
  <2>3. f \in Int /\ e \in Int
    BY SizesAssumption DEF DirSlots
  <2> QED BY <2>2, <2>3
<1> QED BY <1>1, <1>2 DEF TypeOK

\* tfs_open of a file that is there: truncation gives back the block of its own inode only.
LEMMA OpenFoundTables ==
  ASSUME TypeOK, TablesInv, NEW e \in DirSlots, NEW name, NEW mode, OpenFound(e, name, mode)
  PROVE  TablesInv'
<1> DEFINE inum == dir_entry[e].d_inumber
<1>1. inum \in Inumbers \ {ROOT_DIR_INUM} /\ Live(inum)
  BY DEF OpenFound, FindInDir, EntryMatches, TablesInv, DirectoryConsistent, Used,
         TypeOK, DirEntry
<1>2. /\ Truncate(inum, mode) /\ UNCHANGED <<freeinode_ts, dir_entry>>
      /\ AddToOpenFileTable(inum, InitialOffset(inode_table'[inum].i_size, mode))
  BY DEF OpenFound
<1> HIDE DEF inum
<1>3. \A h \in Handles : IsOpen(h)' => open_file_table'[h].of_inumber # ROOT_DIR_INUM
  BY <1>1, <1>2, AddNotRoot DEF TablesInv
<1>4. BlocksExclusive' /\ UNCHANGED inode_table[ROOT_DIR_INUM]
  BY <1>1, <1>2, TruncateBlocks DEF TablesInv, BlocksInv
<1>5. RootIntact'
  BY <1>2, <1>3, <1>4 DEF TablesInv, RootIntact, Live
<1>6. DirectoryConsistent' /\ NamesKept'
  BY <1>2 DEF TablesInv, DirectoryConsistent, NamesKept, Used, Live
<1> QED BY <1>4, <1>5, <1>6 DEF TablesInv

\* An inode that is not live, or is the only live one on its block, may be
\* replaced by an empty one that nothing owns.
LEMMA EmptyInodeExclusive ==
  ASSUME TypeOK, BlocksExclusive, NEW inum \in Inumbers, ~Live(inum),
         inode_table' = [inode_table EXCEPT ![inum] = NewFileInode],
         \A i \in Inumbers \ {inum} : Live(i)' <=> Live(i),
         UNCHANGED free_blocks
  PROVE  BlocksExclusive'
<1>1. inode_table'[inum].i_size = 0
  BY DEF TypeOK, NewFileInode
<1>2. ASSUME NEW i \in Inumbers, Live(i)', inode_table'[i].i_size > 0
      PROVE  i # inum /\ Live(i) /\ inode_table'[i] = inode_table[i]
  BY <1>1, <1>2 DEF TypeOK
<1> QED BY <1>2 DEF BlocksExclusive, Owns

\* tfs_open that creates: the new entry names the new inode, or the inode is gone again.
LEMMA OpenCreatesTables ==
  ASSUME TypeOK, TablesInv, NEW name, NEW mode, OpenCreates(name, mode)
  PROVE  TablesInv'
<1>1. CASE FailCall
  BY <1>1, FailTables
<1>2. ASSUME NEW inum \in Inumbers, IsFirstFree(freeinode_ts, inum),
             inode_table' = [inode_table EXCEPT ![inum] = NewFileInode],
             UNCHANGED <<phase, freeinode_ts, dir_entry, blockVars, fileVars>>
      PROVE  TablesInv'
  <2>1. ~Live(inum) /\ inum # ROOT_DIR_INUM
    BY <1>2 DEF IsFirstFree, Live, TablesInv, RootIntact
  <2>2. BlocksExclusive'
    BY <1>2, <2>1, EmptyInodeExclusive DEF TablesInv, Live, blockVars
  <2>3. RootIntact'
    BY <1>2, <2>1, RootInumber DEF TypeOK, TablesInv, RootIntact, Live, fileVars, IsOpen
  <2>4. DirectoryConsistent' /\ NamesKept'
    BY <1>2 DEF TablesInv, DirectoryConsistent, NamesKept, Used, Live
  <2> QED BY <2>2, <2>3, <2>4 DEF TablesInv
<1>3. ASSUME NEW inum \in Inumbers, InodeCreateFile(inum), AddDirEntry(name, inum),
             AddToOpenFileTable(inum, 0), UNCHANGED <<phase, blockVars>>
      PROVE  TablesInv'
  <2>1. ~Live(inum) /\ inum # ROOT_DIR_INUM
    BY <1>3 DEF InodeCreateFile, IsFirstFree, Live, TablesInv, RootIntact
  <2>2. BlocksExclusive'
    BY <1>3, <2>1, EmptyInodeExclusive DEF TablesInv, InodeCreateFile, TypeOK, Live, blockVars
  <2>3. RootIntact'
    <3>1. \A h \in Handles : IsOpen(h)' => open_file_table'[h].of_inumber # ROOT_DIR_INUM
      BY <1>3, <2>1, AddNotRoot DEF TablesInv
    <3> QED BY <1>3, <2>1, <3>1, RootInumber
            DEF InodeCreateFile, TypeOK, TablesInv, RootIntact, Live
  <2>4. PICK e \in DirSlots :
          /\ dir_entry[e].d_inumber = -1
          /\ dir_entry' = [dir_entry EXCEPT ![e] = [d_name |-> name, d_inumber |-> inum]]
    BY <1>3 DEF AddDirEntry
  <2>5. inum # -1 /\ name \in Names /\ name # NoName
    BY <1>3, NamesAssumption DEF AddDirEntry, Inumbers
  <2>6. /\ dir_entry'[e].d_inumber = inum /\ dir_entry'[e].d_name = name
        /\ \A f \in DirSlots \ {e} : dir_entry'[f] = dir_entry[f]
    BY <2>4 DEF TypeOK
  <2>7. \A f \in DirSlots \ {e} : Used(f) =>
          dir_entry[f].d_name # name /\ dir_entry[f].d_inumber # inum
    BY <2>1 DEF OpenCreates, NotInDir, EntryMatches, Used, FailCall, TablesInv,
               DirectoryConsistent
  <2>8. \A i \in Inumbers : Live(i)' <=> Live(i) \/ i = inum
    BY <1>3 DEF InodeCreateFile, TypeOK, Live
  <2>9. NamesKept'
    BY <2>5, <2>6 DEF NamesKept, TablesInv, Used
  <2>10. DirectoryConsistent'
    <3>1. \A f \in DirSlots : Used(f)' =>
            dir_entry'[f].d_inumber # ROOT_DIR_INUM /\ freeinode_ts'[dir_entry'[f].d_inumber] = "TAKEN"
      <4> SUFFICES ASSUME NEW f \in DirSlots, Used(f)'
                   PROVE  /\ dir_entry'[f].d_inumber # ROOT_DIR_INUM
                          /\ freeinode_ts'[dir_entry'[f].d_inumber] = "TAKEN"
        OBVIOUS
      <4>1. CASE f = e
        BY <1>3, <2>1, <2>6, <4>1 DEF InodeCreateFile, TypeOK
      <4>2. CASE f # e
        <5>1. Used(f) /\ dir_entry'[f] = dir_entry[f]
          BY <2>6, <4>2 DEF Used
        <5>2. dir_entry[f].d_inumber \in Inumbers
          BY <5>1 DEF Used, TypeOK, DirEntry
        <5> QED BY <2>8, <5>1, <5>2 DEF TablesInv, DirectoryConsistent, Live
      <4> QED BY <4>1, <4>2
    <3>2. \A f, g \in DirSlots : Used(f)' /\ Used(g)' /\ f # g =>
            /\ dir_entry'[f].d_name # dir_entry'[g].d_name
            /\ dir_entry'[f].d_inumber # dir_entry'[g].d_inumber
      BY <2>6, <2>7 DEF TablesInv, DirectoryConsistent, Used
    <3>3. \A i \in Inumbers \ {ROOT_DIR_INUM} : Live(i)' =>
            \E f \in DirSlots : dir_entry'[f].d_inumber = i
      <4> SUFFICES ASSUME NEW i \in Inumbers \ {ROOT_DIR_INUM}, Live(i)'
                   PROVE  \E f \in DirSlots : dir_entry'[f].d_inumber = i
        OBVIOUS
      <4>1. CASE i = inum
        BY <4>1, <2>6
      <4>2. CASE Live(i)
        <5>1. PICK f \in DirSlots : dir_entry[f].d_inumber = i
          BY <4>2 DEF TablesInv, DirectoryConsistent
        <5>2. f # e
          BY <2>4, <5>1 DEF Inumbers
        <5> QED BY <2>6, <5>1, <5>2
      <4> QED BY <2>8, <4>1, <4>2
    <3> QED BY <3>1, <3>2, <3>3 DEF DirectoryConsistent, Used, Live
  <2> QED BY <2>2, <2>3, <2>9, <2>10 DEF TablesInv
<1> QED BY <1>1, <1>2, <1>3 DEF OpenCreates

\* tfs_open as a whole.
LEMMA OpenTables ==
  ASSUME TypeOK, TablesInv, NEW name, NEW mode, TfsOpen(name, mode)
  PROVE  TablesInv'
  BY FailTables, OpenFoundTables, OpenCreatesTables DEF TfsOpen, OpenFails

\* tfs_close does not reach the tables of files.
LEMMA CloseTables ==
  ASSUME TypeOK, TablesInv, NEW h, TfsClose(h)
  PROVE  TablesInv'
<1>1. CASE FailCall
  BY <1>1, FailTables
<1>2. CASE CloseHandle(h)
  <2>1. UNCHANGED <<freeinode_ts, inode_table, dir_entry, free_blocks>>
    BY <1>2 DEF CloseHandle, inodeVars, blockVars
  <2>2. \A g \in Handles : IsOpen(g)' => open_file_table'[g].of_inumber # ROOT_DIR_INUM
    BY <1>2 DEF CloseHandle, IsOpen, TypeOK, TablesInv, RootIntact
  <2> QED BY <2>1, <2>2, SameTables
<1> QED BY <1>1, <1>2 DEF TfsClose

\* tfs_unlink: the entry cleared is the one that was found.
LEMMA UnlinkFoundTables ==
  ASSUME TypeOK, TablesInv, NEW e \in DirSlots, NEW name, UnlinkFound(e, name)
  PROVE  TablesInv'
<1> DEFINE inum == dir_entry[e].d_inumber
<1>1. Used(e) /\ dir_entry[e].d_name = name /\ name # NoName
  BY DEF UnlinkFound, FindInDir, EntryMatches, Used, TablesInv, NamesKept
<1>2. inum \in Inumbers \ {ROOT_DIR_INUM} /\ Live(inum)
  BY <1>1 DEF TablesInv, DirectoryConsistent, Used, TypeOK, DirEntry
<1>4. /\ dir_entry'[e].d_inumber = -1 /\ dir_entry'[e].d_name = NoName
      /\ \A f \in DirSlots \ {e} : dir_entry'[f] = dir_entry[f]
  BY ClearsFound DEF UnlinkFound, TablesInv
<1>5. BlocksInv' /\ \A i \in Inumbers : Live(i)' <=> Live(i) /\ i # inum
  <2>1. InodeDelete(inum) /\ UNCHANGED fileVars /\ BlocksInv
    BY DEF UnlinkFound, TablesInv, BlocksInv
  <2> HIDE DEF inum
  <2> QED BY <1>2, <2>1, DeleteBlocks
<1>6. NamesKept'
  BY <1>4 DEF NamesKept, TablesInv, Used
<1>7. DirectoryConsistent'
  <2>1. ASSUME NEW f \in DirSlots, Used(f)'
        PROVE  /\ f # e /\ Used(f) /\ dir_entry'[f] = dir_entry[f]
               /\ dir_entry[f].d_inumber \in Inumbers \ {ROOT_DIR_INUM}
               /\ freeinode_ts'[dir_entry[f].d_inumber] = "TAKEN"
    <3>1. f # e /\ Used(f) /\ dir_entry'[f] = dir_entry[f]
      BY <1>4, <2>1 DEF Used
    <3>2. dir_entry[f].d_inumber # inum /\ dir_entry[f].d_inumber \in Inumbers \ {ROOT_DIR_INUM}
      BY <1>1, <3>1 DEF TablesInv, DirectoryConsistent, Used, TypeOK, DirEntry
    <3> QED BY <1>5, <3>1, <3>2 DEF TablesInv, DirectoryConsistent, Live
  <2>2. \A f, g \in DirSlots : Used(f)' /\ Used(g)' /\ f # g =>
          /\ dir_entry'[f].d_name # dir_entry'[g].d_name
          /\ dir_entry'[f].d_inumber # dir_entry'[g].d_inumber
    BY <2>1 DEF TablesInv, DirectoryConsistent
  <2>3. \A i \in Inumbers \ {ROOT_DIR_INUM} : Live(i)' =>
          \E f \in DirSlots : dir_entry'[f].d_inumber = i
    BY <1>4, <1>5 DEF TablesInv, DirectoryConsistent
  <2> QED BY <2>1, <2>2, <2>3 DEF DirectoryConsistent, Used, Live
<1> QED BY <1>5, <1>6, <1>7 DEF TablesInv, BlocksInv

\* tfs_unlink as a whole.
LEMMA UnlinkTables ==
  ASSUME TypeOK, TablesInv, NEW name, TfsUnlink(name)
  PROVE  TablesInv'
  BY FailTables, UnlinkFoundTables DEF TfsUnlink

\* A write through any handle, even one on a deleted file, never takes a
\* block another inode owns: it keeps its inode's block or takes a free one.
LEMMA WriteBytesBlocks ==
  ASSUME TypeOK, BlocksInv, NEW h, IsOpen(h), NEW data \in Seq(Bytes), WriteBytes(h, data)
  PROVE  BlocksInv'
<1> DEFINE inum == open_file_table[h].of_inumber
           size == inode_table[inum].i_size
           end  == open_file_table[h].of_offset + ToWrite(open_file_table[h].of_offset, Len(data))
<1>1. h \in Handles /\ inum \in Inumbers \ {ROOT_DIR_INUM}
  BY DEF IsOpen, TypeOK, OpenFile, BlocksInv, RootIntact
<1>3. \A i \in Inumbers \ {inum} : inode_table'[i] = inode_table[i]
  BY <1>1 DEF WriteBytes, TypeOK
<1>4. RootIntact'
  <2>1. \A g \in Handles : open_file_table'[g].of_inumber = open_file_table[g].of_inumber
    BY <1>1 DEF WriteBytes, TypeOK
  <2> QED BY <1>1, <1>3, <2>1, RootInumber DEF WriteBytes, BlocksInv, RootIntact, Live, IsOpen
<1>5. BlocksExclusive'
  <2>1. CASE size > 0 /\ inode_table'[inum].i_data_block = inode_table[inum].i_data_block
             /\ UNCHANGED free_blocks
    <3>1. \A i \in Inumbers : inode_table'[i].i_data_block = inode_table[i].i_data_block
      BY <1>3, <2>1
    <3>2. \A i \in Inumbers : inode_table'[i].i_size > 0 => inode_table[i].i_size > 0
      BY <1>3, <2>1
    <3> QED BY <2>1, <3>1, <3>2 DEF BlocksExclusive, BlocksInv, Owns, Live, WriteBytes
  <2>2. ASSUME NEW blk \in Blocks, IsFirstFree(free_blocks, blk), size = 0,
               free_blocks' = [free_blocks EXCEPT ![blk] = "TAKEN"],
               inode_table'[inum].i_data_block = blk
        PROVE  BlocksExclusive'
    <3>0. \A i \in Inumbers : Live(i)' <=> Live(i)
      BY DEF WriteBytes, Live
    <3>1. \A i \in Inumbers : ~Owns(i, blk)
      BY <2>2 DEF IsFirstFree, BlocksInv, BlocksExclusive, Owns
    <3>2. \A c \in Blocks : free_blocks[c] = "TAKEN" => free_blocks'[c] = "TAKEN"
      BY <2>2 DEF TypeOK
    <3>3. free_blocks'[blk] = "TAKEN"
      BY <2>2 DEF TypeOK
    <3> SUFFICES ASSUME NEW i \in Inumbers, Live(i), inode_table'[i].i_size > 0
                 PROVE  /\ inode_table'[i].i_data_block \in Blocks
                        /\ free_blocks'[inode_table'[i].i_data_block] = "TAKEN"
                        /\ \A j \in Inumbers : Live(j) /\ inode_table'[j].i_size > 0
                             /\ inode_table'[j].i_data_block = inode_table'[i].i_data_block
                             => j = i
      BY <3>0 DEF BlocksExclusive, Owns
    <3>4. CASE i = inum
      BY <1>3, <2>2, <3>1, <3>3, <3>4 DEF Owns
    <3>5. CASE i # inum
      <4>1. /\ inode_table'[i] = inode_table[i]
            /\ inode_table[i].i_data_block \in Blocks
            /\ free_blocks[inode_table[i].i_data_block] = "TAKEN"
            /\ \A j \in Inumbers : Owns(j, inode_table[i].i_data_block) => j = i
        BY <1>3, <3>5 DEF BlocksInv, BlocksExclusive
      <4>2. inode_table[i].i_data_block # blk
        BY <3>1, <4>1 DEF Owns
      <4> QED BY <1>3, <2>2, <3>2, <4>1, <4>2 DEF Owns
    <3> QED BY <3>4, <3>5
  <2>3. \A blk : inode_table' = [inode_table EXCEPT ![inum].i_data_block = blk,
                                   ![inum].i_size = GrownSize(size, end)]
                 => inode_table'[inum].i_data_block = blk
    <3>1. inode_table[inum] \in Inode /\ inum \in DOMAIN inode_table
      BY <1>1 DEF TypeOK
    <3> QED BY <3>1 DEF Inode
  <2>4. CASE /\ size > 0
             /\ inode_table' = [inode_table EXCEPT
                  ![inum].i_data_block = inode_table[inum].i_data_block,
                  ![inum].i_size = GrownSize(size, end)]
             /\ UNCHANGED free_blocks
    BY <2>1, <2>3, <2>4
  <2>5. ASSUME NEW blk \in Blocks, IsFirstFree(free_blocks, blk), size = 0,
               free_blocks' = [free_blocks EXCEPT ![blk] = "TAKEN"],
               inode_table' = [inode_table EXCEPT ![inum].i_data_block = blk,
                                 ![inum].i_size = GrownSize(size, end)]
        PROVE  BlocksExclusive'
    BY <2>2, <2>3, <2>5
  <2> QED BY <2>4, <2>5 DEF WriteBytes
<1> QED BY <1>4, <1>5 DEF BlocksInv

\* Nor does it reach the directory.
LEMMA WriteBytesTables ==
  ASSUME TypeOK, TablesInv, NEW h, IsOpen(h), NEW data \in Seq(Bytes), WriteBytes(h, data)
  PROVE  TablesInv'
<1>1. BlocksInv'
  BY WriteBytesBlocks DEF TablesInv, BlocksInv
<1>2. DirectoryConsistent' /\ NamesKept'
  BY DEF WriteBytes, TablesInv, DirectoryConsistent, NamesKept, Used, Live
<1> QED BY <1>1, <1>2 DEF TablesInv, BlocksInv

\* tfs_write: a new block was free, so it is nobody else's.
LEMMA WriteTables ==
  ASSUME TypeOK, TablesInv, NEW h, NEW data \in Seq(Bytes), TfsWrite(h, data)
  PROVE  TablesInv'
<1>1. CASE FailCall
  BY <1>1, FailTables
<1>2. CASE IsOpen(h) /\ WriteBytes(h, data)
  BY <1>2, WriteBytesTables
<1>3. CASE UNCHANGED <<inodeVars, dir_entry, blockVars, fileVars>>
  BY <1>3, SameTables DEF inodeVars, blockVars, fileVars, IsOpen, TablesInv, RootIntact
<1> QED BY <1>1, <1>2, <1>3 DEF TfsWrite, WriteNoSpace, WriteNothing, WriteDies

\* tfs_read changes an offset.
LEMMA ReadTables ==
  ASSUME TypeOK, TablesInv, NEW h, NEW len, TfsRead(h, len)
  PROVE  TablesInv'
<1>1. CASE FailCall
  BY <1>1, FailTables
<1>2. CASE UNCHANGED <<inodeVars, dir_entry, blockVars, fileVars>>
  BY <1>2, SameTables DEF inodeVars, blockVars, fileVars, IsOpen, TablesInv, RootIntact
<1>3. CASE ReadBytes(h, len)
  <2>1. UNCHANGED <<freeinode_ts, inode_table, dir_entry, free_blocks>>
    BY <1>3 DEF ReadBytes, inodeVars, blockVars
  <2>2. \A g \in Handles : open_file_table'[g].of_inumber = open_file_table[g].of_inumber
    BY <1>3 DEF ReadBytes, TypeOK
  <2> QED BY <1>3, <2>1, <2>2, SameTables DEF ReadBytes, IsOpen, TablesInv, RootIntact
<1> QED BY <1>1, <1>2, <1>3 DEF TfsRead, ReadDies

=============================================================================
