-------------------------- MODULE TfsCarefulProofs --------------------------
(***************************************************************************)
(* Proofs about careful callers of exercise2/fs, those of CarefulSpec:     *)
(* handles stay within live files, no block is lost, no assertion fails    *)
(* and no read goes past the end, for every value of the constants.        *)
(***************************************************************************)
EXTENDS TfsProofs

\* What careful callers keep true, with what any callers do (TfsProofs).
CarefulInv == TypeOK /\ TablesInv /\ HandlesLive /\ NoLostBlock /\ NeverPanics

\* A careful call is a call.
LEMMA CarefulIsNext == CarefulNext => Next
  BY DEF CarefulNext, CarefulOpen, CarefulUnlink, Next, CallOpen, CallUnlink

\* tfs_init: nothing is open, and the one block taken is the root's.
LEMMA InitCareful == Init => HandlesLive /\ NoLostBlock /\ NeverPanics
<1> SUFFICES ASSUME Init PROVE HandlesLive /\ NoLostBlock /\ NeverPanics
  OBVIOUS
<1>1. HandlesLive /\ NeverPanics
  BY DEF Init, HandlesLive, NeverPanics, IsOpen, AllFree
<1>2. ASSUME NEW blk \in Blocks, free_blocks[blk] = "TAKEN" PROVE Owns(ROOT_DIR_INUM, blk)
  BY <1>2, RootInumber, SizesAssumption
  DEF Init, FreshBlocks, FreshInodes, FreshInodeTs, RootInode, Owns, Live
<1> QED BY <1>1, <1>2, RootInumber DEF NoLostBlock

\* A call that leaves the files as they are, and the handles or their offsets.
LEMMA FailCareful ==
  ASSUME CarefulInv, UNCHANGED <<inodeVars, blockVars, fileVars>>
  PROVE  HandlesLive' /\ NoLostBlock'
  BY DEF CarefulInv, HandlesLive, NoLostBlock, IsOpen, Live, Owns,
         inodeVars, blockVars, fileVars

\* tfs_open adds a live file at an offset within it, if the handles that are
\* open have kept theirs.
LEMMA AddLive ==
  ASSUME TypeOK, NEW inum \in Inumbers \ {ROOT_DIR_INUM}, NEW off \in Nat,
         AddToOpenFileTable(inum, off),
         freeinode_ts'[inum] = "TAKEN", off <= inode_table'[inum].i_size,
         \A h \in Handles : IsOpen(h) =>
           /\ open_file_table[h].of_inumber # ROOT_DIR_INUM
           /\ freeinode_ts'[open_file_table[h].of_inumber] = "TAKEN"
           /\ open_file_table[h].of_offset <= inode_table'[open_file_table[h].of_inumber].i_size
  PROVE  HandlesLive'
<1>1. CASE UNCHANGED fileVars
  BY <1>1 DEF fileVars, HandlesLive, IsOpen, Live
<1>2. ASSUME NEW g \in Handles,
             free_open_file_entries' = [free_open_file_entries EXCEPT ![g] = "TAKEN"],
             open_file_table' = [open_file_table EXCEPT ![g] =
                                   [of_inumber |-> inum, of_offset |-> off]]
      PROVE  HandlesLive'
  <2> SUFFICES ASSUME NEW h \in Handles, IsOpen(h)'
               PROVE  /\ open_file_table'[h].of_inumber # ROOT_DIR_INUM
                      /\ freeinode_ts'[open_file_table'[h].of_inumber] = "TAKEN"
                      /\ open_file_table'[h].of_offset
                           <= inode_table'[open_file_table'[h].of_inumber].i_size
    BY DEF HandlesLive, Live
  <2>1. CASE h = g
    BY <1>2, <2>1 DEF TypeOK, Live
  <2>2. CASE h # g
    <3>1. IsOpen(h) /\ open_file_table'[h] = open_file_table[h]
      BY <1>2, <2>2 DEF TypeOK, IsOpen
    <3> QED BY <3>1
  <2> QED BY <2>1, <2>2
<1> QED BY <1>1, <1>2 DEF AddToOpenFileTable

\* tfs_open of a file that is there truncates it only when nobody has it open.
LEMMA OpenFoundCareful ==
  ASSUME CarefulInv, NEW e \in DirSlots, NEW name, NEW mode \in Modes,
         "TRUNC" \in mode => ~HasHandle(name), OpenFound(e, name, mode)
  PROVE  HandlesLive' /\ NoLostBlock'
<1> DEFINE inum == dir_entry[e].d_inumber
           cut  == "TRUNC" \in mode /\ inode_table[inum].i_size > 0
<1>1. inum \in Inumbers \ {ROOT_DIR_INUM} /\ Live(inum) /\ EntryMatches(e, name)
  BY DEF OpenFound, FindInDir, EntryMatches, CarefulInv, TablesInv, DirectoryConsistent, Used,
         TypeOK, DirEntry
<1>2. cut => \A h \in Handles : IsOpen(h) => open_file_table[h].of_inumber # inum
  BY <1>1 DEF HasHandle
<1>3. /\ \A i \in Inumbers : i # inum \/ ~cut => inode_table'[i] = inode_table[i]
      /\ inode_table'[inum].i_size \in Nat
  <2>1. inode_table[inum] \in Inode /\ inode_table[inum].i_size \in Nat
    BY <1>1, SizesAssumption DEF CarefulInv, TypeOK, Inode
  <2>2. CASE cut
    BY <1>1, <2>1, <2>2 DEF OpenFound, Truncate, CarefulInv, TypeOK, Inode
  <2>3. CASE ~cut
    BY <2>1, <2>3 DEF OpenFound, Truncate
  <2> QED BY <2>2, <2>3
<1>4. HandlesLive'
  <2> DEFINE off == InitialOffset(inode_table'[inum].i_size, mode)
  <2>1. off \in Nat /\ off <= inode_table'[inum].i_size
    BY <1>3 DEF InitialOffset
  <2>2. freeinode_ts'[inum] = "TAKEN" /\ AddToOpenFileTable(inum, off)
    BY <1>1 DEF OpenFound, Live
  <2>3. ASSUME NEW h \in Handles, IsOpen(h)
        PROVE  /\ open_file_table[h].of_inumber # ROOT_DIR_INUM
               /\ freeinode_ts'[open_file_table[h].of_inumber] = "TAKEN"
               /\ open_file_table[h].of_offset
                    <= inode_table'[open_file_table[h].of_inumber].i_size
    <3>1. /\ open_file_table[h].of_inumber \in Inumbers
          /\ open_file_table[h].of_inumber # ROOT_DIR_INUM
          /\ Live(open_file_table[h].of_inumber)
          /\ open_file_table[h].of_offset <= inode_table[open_file_table[h].of_inumber].i_size
      BY <2>3 DEF CarefulInv, HandlesLive, TypeOK, OpenFile
    <3>2. inode_table'[open_file_table[h].of_inumber] = inode_table[open_file_table[h].of_inumber]
      BY <1>2, <1>3, <2>3, <3>1
    <3> QED BY <3>1, <3>2 DEF OpenFound, Live
  <2> HIDE DEF off
  <2> QED BY <1>1, <2>1, <2>2, <2>3, AddLive DEF CarefulInv
<1>5. NoLostBlock'
  <2>1. CASE ~cut
    BY <2>1 DEF OpenFound, Truncate, CarefulInv, NoLostBlock, Owns, Live
  <2>2. CASE cut
    <3> SUFFICES ASSUME NEW blk \in Blocks, free_blocks'[blk] = "TAKEN"
                 PROVE  \E i \in Inumbers : Owns(i, blk)'
      BY DEF NoLostBlock
    <3>1. free_blocks[blk] = "TAKEN" /\ blk # inode_table[inum].i_data_block
      BY <2>2 DEF OpenFound, Truncate, CarefulInv, TypeOK
    <3>2. PICK i \in Inumbers : Owns(i, blk)
      BY <3>1 DEF CarefulInv, NoLostBlock
    <3>3. i # inum /\ inode_table'[i] = inode_table[i]
      BY <1>3, <3>1, <3>2 DEF Owns
    <3> QED BY <3>2, <3>3 DEF Owns, Live, OpenFound
  <2> QED BY <2>1, <2>2
<1> QED BY <1>4, <1>5

\* tfs_open that creates takes an inode no handle refers to, and no block.
LEMMA OpenCreatesCareful ==
  ASSUME CarefulInv, NEW name, NEW mode, OpenCreates(name, mode)
  PROVE  HandlesLive' /\ NoLostBlock'
<1>1. CASE FailCall
  BY <1>1, FailCareful DEF FailCall
<1>2. ASSUME NEW inum \in Inumbers, IsFirstFree(freeinode_ts, inum),
             inode_table' = [inode_table EXCEPT ![inum] = NewFileInode],
             \A i \in Inumbers \ {inum} : freeinode_ts'[i] = freeinode_ts[i],
             UNCHANGED blockVars
      PROVE  /\ NoLostBlock'
             /\ \A h \in Handles : IsOpen(h) =>
                  /\ open_file_table[h].of_inumber # ROOT_DIR_INUM
                  /\ freeinode_ts'[open_file_table[h].of_inumber] = "TAKEN"
                  /\ open_file_table[h].of_offset
                       <= inode_table'[open_file_table[h].of_inumber].i_size
  <2>1. ~Live(inum) /\ \A i \in Inumbers : Live(i) =>
          freeinode_ts'[i] = "TAKEN" /\ inode_table'[i] = inode_table[i]
    BY <1>2 DEF IsFirstFree, Live, CarefulInv, TypeOK
  <2>2. NoLostBlock'
    BY <1>2, <2>1 DEF CarefulInv, NoLostBlock, Owns, Live, blockVars
  <2>3. ASSUME NEW h \in Handles, IsOpen(h)
        PROVE  /\ open_file_table[h].of_inumber # ROOT_DIR_INUM
               /\ freeinode_ts'[open_file_table[h].of_inumber] = "TAKEN"
               /\ open_file_table[h].of_offset
                    <= inode_table'[open_file_table[h].of_inumber].i_size
    <3>1. open_file_table[h].of_inumber \in Inumbers
      BY DEF CarefulInv, TypeOK, OpenFile
    <3> QED BY <2>1, <2>3, <3>1 DEF CarefulInv, HandlesLive
  <2> QED BY <2>2, <2>3
<1>3. ASSUME NEW inum \in Inumbers, IsFirstFree(freeinode_ts, inum),
             inode_table' = [inode_table EXCEPT ![inum] = NewFileInode],
             UNCHANGED <<phase, freeinode_ts, dir_entry, blockVars, fileVars>>
      PROVE  HandlesLive' /\ NoLostBlock'
  BY <1>2, <1>3 DEF HandlesLive, IsOpen, Live, fileVars
<1>4. ASSUME NEW inum \in Inumbers, InodeCreateFile(inum), AddDirEntry(name, inum),
             AddToOpenFileTable(inum, 0), UNCHANGED <<phase, blockVars>>
      PROVE  HandlesLive' /\ NoLostBlock'
  <2>1. /\ IsFirstFree(freeinode_ts, inum)
        /\ inode_table' = [inode_table EXCEPT ![inum] = NewFileInode]
        /\ \A i \in Inumbers \ {inum} : freeinode_ts'[i] = freeinode_ts[i]
        /\ freeinode_ts'[inum] = "TAKEN"
    BY <1>4 DEF InodeCreateFile, Live, CarefulInv, TypeOK
  <2>2. inum # ROOT_DIR_INUM
    BY <2>1 DEF IsFirstFree, CarefulInv, TablesInv, RootIntact, Live
  <2>3. inode_table'[inum].i_size = 0
    BY <2>1 DEF NewFileInode, CarefulInv, TypeOK
  <2>4. /\ NoLostBlock'
        /\ \A h \in Handles : IsOpen(h) =>
             /\ open_file_table[h].of_inumber # ROOT_DIR_INUM
             /\ freeinode_ts'[open_file_table[h].of_inumber] = "TAKEN"
             /\ open_file_table[h].of_offset
                  <= inode_table'[open_file_table[h].of_inumber].i_size
    BY <1>2, <1>4, <2>1
  <2>5. AddToOpenFileTable(inum, 0) /\ 0 <= inode_table'[inum].i_size
    BY <1>4, <2>3
  <2>6. HandlesLive'
    BY <2>1, <2>2, <2>4, <2>5, AddLive DEF CarefulInv
  <2> QED BY <2>4, <2>6
<1> QED BY <1>1, <1>3, <1>4 DEF OpenCreates

\* tfs_close leaves the other handles as they were.
LEMMA CloseCareful ==
  ASSUME CarefulInv, NEW h, TfsClose(h)
  PROVE  HandlesLive' /\ NoLostBlock'
<1>1. CASE FailCall
  BY <1>1, FailCareful DEF FailCall
<1>2. CASE CloseHandle(h)
  BY <1>2 DEF CloseHandle, inodeVars, blockVars, CarefulInv, TypeOK, HandlesLive, NoLostBlock,
              IsOpen, Live, Owns
<1> QED BY <1>1, <1>2 DEF TfsClose

\* tfs_unlink deletes a file nobody has open and gives its block back.
LEMMA UnlinkFoundCareful ==
  ASSUME CarefulInv, NEW e \in DirSlots, NEW name, ~HasHandle(name), UnlinkFound(e, name)
  PROVE  HandlesLive' /\ NoLostBlock'
<1> DEFINE inum == dir_entry[e].d_inumber
<1>1. inum \in Inumbers /\ Live(inum) /\ EntryMatches(e, name)
  BY DEF UnlinkFound, FindInDir, EntryMatches, CarefulInv, TablesInv, DirectoryConsistent, Used,
         TypeOK, DirEntry
<1>2. \A i \in Inumbers : Live(i)' <=> Live(i) /\ i # inum
  BY <1>1 DEF UnlinkFound, InodeDelete, CarefulInv, TypeOK, Live
<1>3. HandlesLive'
  <2> SUFFICES ASSUME NEW h \in Handles, IsOpen(h)
               PROVE  /\ open_file_table[h].of_inumber # ROOT_DIR_INUM
                      /\ freeinode_ts'[open_file_table[h].of_inumber] = "TAKEN"
                      /\ open_file_table[h].of_offset
                           <= inode_table[open_file_table[h].of_inumber].i_size
    BY DEF HandlesLive, UnlinkFound, InodeDelete, IsOpen, Live, fileVars
  <2>1. open_file_table[h].of_inumber \in Inumbers
    BY DEF CarefulInv, TypeOK, OpenFile
  <2>2. open_file_table[h].of_inumber # inum
    BY <1>1 DEF HasHandle
  <2> QED BY <1>2, <2>1, <2>2 DEF CarefulInv, HandlesLive, Live
<1>4. NoLostBlock'
  <2> SUFFICES ASSUME NEW blk \in Blocks, free_blocks'[blk] = "TAKEN"
               PROVE  \E i \in Inumbers : Owns(i, blk)'
    BY DEF NoLostBlock
  <2>1. /\ free_blocks[blk] = "TAKEN"
        /\ inode_table[inum].i_size > 0 => blk # inode_table[inum].i_data_block
    BY DEF UnlinkFound, InodeDelete, CarefulInv, TypeOK
  <2>2. PICK i \in Inumbers : Owns(i, blk)
    BY <2>1 DEF CarefulInv, NoLostBlock
  <2>3. i # inum
    BY <2>1, <2>2 DEF Owns
  <2> QED BY <1>2, <2>2, <2>3 DEF Owns, UnlinkFound, InodeDelete
<1> QED BY <1>3, <1>4

\* tfs_write extends the file of its handle and takes a block only for it.
LEMMA WriteBytesCareful ==
  ASSUME CarefulInv, NEW h, IsOpen(h), NEW data \in Buffers, WriteBytes(h, data)
  PROVE  HandlesLive' /\ NoLostBlock'
<1> DEFINE inum == open_file_table[h].of_inumber
           off  == open_file_table[h].of_offset
           n    == ToWrite(off, Len(data))
           size == inode_table[inum].i_size
<1>1. /\ h \in Handles /\ inum \in Inumbers /\ Live(inum)
      /\ off \in Nat /\ size \in 0 .. BLOCK_SIZE /\ off <= size
  BY DEF CarefulInv, HandlesLive, TypeOK, Inode, OpenFile, IsOpen
<1>2. n \in Nat /\ n > 0 /\ off + n <= BLOCK_SIZE
  <2>1. off \in 0 .. BLOCK_SIZE /\ Len(data) \in Nat
    BY <1>1, SizesAssumption, ClientsAssumption
  <2> QED BY <2>1, ToWriteFits DEF WriteBytes
<1>3. PICK blk \in Blocks :
        /\ inode_table' = [inode_table EXCEPT ![inum].i_data_block = blk,
                             ![inum].i_size = GrownSize(size, off + n)]
        /\ \/ size > 0 /\ blk = inode_table[inum].i_data_block /\ UNCHANGED free_blocks
           \/ /\ size = 0 /\ free_blocks' = [free_blocks EXCEPT ![blk] = "TAKEN"]
  <2>1. size > 0 => inode_table[inum].i_data_block \in Blocks
    BY <1>1 DEF CarefulInv, TablesInv, BlocksExclusive
  <2> QED BY <2>1 DEF WriteBytes
<1>4. /\ inode_table'[inum].i_data_block = blk
      /\ inode_table'[inum].i_size = GrownSize(size, off + n)
      /\ \A i \in Inumbers \ {inum} : inode_table'[i] = inode_table[i]
  <2>1. inode_table[inum] \in Inode /\ inum \in DOMAIN inode_table
    BY <1>1 DEF CarefulInv, TypeOK
  <2>2. \A i \in Inumbers \ {inum} : inode_table'[i] = inode_table[i]
    BY <1>3 DEF CarefulInv, TypeOK
  <2> HIDE DEF n, size, off
  <2> QED BY <1>3, <2>1, <2>2 DEF Inode
<1>5. /\ GrownSize(size, off + n) >= size /\ GrownSize(size, off + n) >= off + n
      /\ GrownSize(size, off + n) > 0
  BY <1>1, <1>2 DEF GrownSize
<1>6. HandlesLive'
  <2> SUFFICES ASSUME NEW g \in Handles, IsOpen(g)
               PROVE  /\ open_file_table'[g].of_inumber # ROOT_DIR_INUM
                      /\ freeinode_ts'[open_file_table'[g].of_inumber] = "TAKEN"
                      /\ open_file_table'[g].of_offset
                           <= inode_table'[open_file_table'[g].of_inumber].i_size
    BY DEF HandlesLive, Live, IsOpen, WriteBytes
  <2>1. /\ open_file_table[g].of_inumber \in Inumbers
        /\ open_file_table[g].of_inumber # ROOT_DIR_INUM
        /\ Live(open_file_table[g].of_inumber)
        /\ open_file_table[g].of_offset <= inode_table[open_file_table[g].of_inumber].i_size
        /\ open_file_table[g].of_offset \in Nat
    BY DEF CarefulInv, HandlesLive, TypeOK, OpenFile
  <2>2. CASE g = h
    <3>1. open_file_table'[h].of_inumber = inum /\ open_file_table'[h].of_offset = off + n
      <4>1. open_file_table' = [open_file_table EXCEPT ![h].of_offset = off + n]
        BY DEF WriteBytes
      <4>2. open_file_table[h] \in OpenFile /\ h \in DOMAIN open_file_table
        BY <1>1 DEF CarefulInv, TypeOK
      <4> HIDE DEF n, off
      <4> QED BY <4>1, <4>2 DEF OpenFile
    <3> QED BY <1>4, <1>5, <2>1, <2>2, <3>1 DEF WriteBytes, Live
  <2>3. CASE g # h
    <3>1. open_file_table'[g] = open_file_table[g]
      BY <2>3 DEF WriteBytes, CarefulInv, TypeOK
    <3>2. inode_table'[open_file_table[g].of_inumber].i_size
            >= inode_table[open_file_table[g].of_inumber].i_size
      <4>1. inode_table[open_file_table[g].of_inumber].i_size \in Nat
        BY <2>1, SizesAssumption DEF CarefulInv, TypeOK, Inode
      <4> QED BY <1>4, <1>5, <2>1, <4>1
    <3>3. /\ inode_table'[open_file_table[g].of_inumber].i_size \in Int
          /\ inode_table[open_file_table[g].of_inumber].i_size \in Int
      <4>1. inode_table[open_file_table[g].of_inumber].i_size \in Int
        BY <2>1, SizesAssumption DEF CarefulInv, TypeOK, Inode
      <4>2. GrownSize(size, off + n) \in Int
        BY <1>1, <1>2 DEF GrownSize
      <4> QED BY <1>4, <2>1, <4>1, <4>2
    <3>4. freeinode_ts' = freeinode_ts
      BY DEF WriteBytes
    <3> HIDE DEF n, off, size, inum
    <3>5. open_file_table[g].of_offset
            <= inode_table'[open_file_table[g].of_inumber].i_size
      BY <2>1, <3>2, <3>3
    <3> QED BY <2>1, <3>1, <3>4, <3>5 DEF Live
  <2> QED BY <2>2, <2>3
<1>7. NoLostBlock'
  <2> SUFFICES ASSUME NEW c \in Blocks, free_blocks'[c] = "TAKEN"
               PROVE  \E i \in Inumbers : Owns(i, c)'
    BY DEF NoLostBlock
  <2>1. CASE c = blk
    <3>1. Live(inum) /\ inode_table'[inum].i_size > 0 /\ inode_table'[inum].i_data_block = c
      BY <1>1, <1>4, <1>5, <2>1
    <3>2. \E i \in Inumbers :
            freeinode_ts'[i] = "TAKEN" /\ inode_table'[i].i_size > 0
              /\ inode_table'[i].i_data_block = c
      BY <1>1, <3>1 DEF WriteBytes, Live
    <3> QED BY <3>2 DEF Owns, Live
  <2>2. CASE c # blk
    <3>1. free_blocks[c] = "TAKEN"
      BY <1>3, <2>2 DEF CarefulInv, TypeOK
    <3>2. PICK i \in Inumbers : Owns(i, c)
      BY <3>1 DEF CarefulInv, NoLostBlock
    <3>3. i # inum
      BY <1>3, <2>2, <3>2 DEF Owns
    <3> QED BY <1>4, <3>2, <3>3 DEF Owns, Live, WriteBytes
  <2> QED BY <2>1, <2>2
<1> QED BY <1>6, <1>7

\* tfs_write through any handle value never runs past the block or out of the
\* address space, since the offset of an open handle is within its file.
LEMMA WriteCareful ==
  ASSUME CarefulInv, NEW h, NEW data \in Buffers, TfsWrite(h, data)
  PROVE  HandlesLive' /\ NoLostBlock' /\ NeverPanics'
<1>1. IsOpen(h) => ~WriteDies(h, data)
  BY SizesAssumption DEF WriteDies, CarefulInv, HandlesLive, TypeOK, OpenFile, Inode, IsOpen
<1>2. CASE IsOpen(h) /\ WriteBytes(h, data)
  BY <1>2, WriteBytesCareful DEF WriteBytes, NeverPanics, CarefulInv
<1>3. CASE UNCHANGED <<phase, inodeVars, blockVars, fileVars>>
  BY <1>3, FailCareful DEF NeverPanics, CarefulInv
<1> QED BY <1>1, <1>2, <1>3 DEF TfsWrite, WriteNoSpace, WriteNothing, FailCall

\* tfs_read stops at the end of the file, and never meets a missing block.
LEMMA ReadCareful ==
  ASSUME CarefulInv, NEW h, NEW len \in ReadLens, TfsRead(h, len)
  PROVE  HandlesLive' /\ NoLostBlock' /\ NeverPanics'
<1>1. CASE FailCall
  BY <1>1, FailCareful DEF FailCall, NeverPanics, CarefulInv
<1>2. CASE IsOpen(h) /\ (ReadBytes(h, len) \/ ReadDies(h, len))
  <2> DEFINE inum == open_file_table[h].of_inumber
             off  == open_file_table[h].of_offset
             size == inode_table[inum].i_size
             n    == ToRead(h, len)
  <2>1. /\ h \in Handles /\ inum \in Inumbers /\ Live(inum)
        /\ off \in Nat /\ size \in 0 .. BLOCK_SIZE /\ off <= size
    BY <1>2 DEF CarefulInv, HandlesLive, TypeOK, Inode, OpenFile, IsOpen
  <2>2. n \in Nat /\ off + n <= size
    <3>1. SizeSub(size, off) = size - off
      BY <2>1, SizeSubExact
    <3>2. len \in Nat
      BY ClientsAssumption
    <3> QED BY <2>1, <3>1, <3>2 DEF ToRead, AtMost
  <2>3. n > 0 => inode_table[inum].i_data_block \in Blocks
    BY <2>1, <2>2 DEF CarefulInv, TablesInv, BlocksExclusive
  <2>4. ~ReadDies(h, len)
    BY <2>3, SizesAssumption DEF ReadDies, Blocks
  <2>5. ReadBytes(h, len)
    BY <1>2, <2>4
  <2>6. HandlesLive'
    <3> SUFFICES ASSUME NEW g \in Handles, IsOpen(g)
                 PROVE  /\ open_file_table'[g].of_inumber # ROOT_DIR_INUM
                        /\ freeinode_ts[open_file_table'[g].of_inumber] = "TAKEN"
                        /\ open_file_table'[g].of_offset
                             <= inode_table[open_file_table'[g].of_inumber].i_size
      BY <2>5 DEF HandlesLive, Live, IsOpen, ReadBytes, inodeVars
    <3>1. CASE g = h
      <4>1. open_file_table'[h].of_inumber = inum /\ open_file_table'[h].of_offset = off + n
        <5>1. open_file_table' = [open_file_table EXCEPT ![h].of_offset = off + n]
          BY <2>5 DEF ReadBytes
        <5>2. open_file_table[h] \in OpenFile /\ h \in DOMAIN open_file_table
          BY <2>1 DEF CarefulInv, TypeOK
        <5> HIDE DEF n, off
        <5> QED BY <5>1, <5>2 DEF OpenFile
      <4> QED BY <2>1, <2>2, <3>1, <4>1 DEF CarefulInv, HandlesLive, Live
    <3>2. CASE g # h
      BY <2>5, <3>2 DEF ReadBytes, CarefulInv, TypeOK, HandlesLive, Live
    <3> QED BY <3>1, <3>2
  <2>7. NoLostBlock' /\ NeverPanics'
    BY <2>5 DEF ReadBytes, CarefulInv, NoLostBlock, NeverPanics, Owns, Live, inodeVars, blockVars
  <2> QED BY <2>6, <2>7
<1> QED BY <1>1, <1>2 DEF TfsRead

\* Every careful call keeps handles live and blocks owned, and returns.
LEMMA NextCareful == CarefulInv /\ [CarefulNext]_vars => CarefulInv'
<1> SUFFICES ASSUME CarefulInv, [CarefulNext]_vars PROVE CarefulInv'
  OBVIOUS
<1>1. TypeOK' /\ TablesInv'
  BY CarefulIsNext, NextTyped, NextTables DEF CarefulInv
<1>2. ASSUME NEW name \in Paths, NEW mode \in Modes, CarefulOpen(name, mode)
      PROVE  HandlesLive' /\ NoLostBlock' /\ NeverPanics'
  <2>1. NeverPanics'
    BY <1>2 DEF CarefulOpen, TfsOpen, OpenFails, OpenFound, OpenCreates, FailCall, NeverPanics,
                CarefulInv
  <2>2. HandlesLive' /\ NoLostBlock'
    BY <1>2, FailCareful, OpenFoundCareful, OpenCreatesCareful
    DEF CarefulOpen, TfsOpen, OpenFails, FailCall
  <2> QED BY <2>1, <2>2
<1>3. ASSUME NEW h, TfsClose(h)
      PROVE  HandlesLive' /\ NoLostBlock' /\ NeverPanics'
  BY <1>3, CloseCareful DEF TfsClose, CloseHandle, FailCall, NeverPanics, CarefulInv
<1>4. ASSUME NEW name \in Paths, CarefulUnlink(name)
      PROVE  HandlesLive' /\ NoLostBlock' /\ NeverPanics'
  <2>1. NeverPanics'
    BY <1>4 DEF CarefulUnlink, TfsUnlink, UnlinkFound, FailCall, NeverPanics, CarefulInv
  <2>2. HandlesLive' /\ NoLostBlock'
    BY <1>4, FailCareful, UnlinkFoundCareful DEF CarefulUnlink, TfsUnlink, FailCall
  <2> QED BY <2>1, <2>2
<1>5. CASE TfsInit
  <2>1. Init'
    BY <1>5 DEF TfsInit, Init
  <2> QED BY <1>1, <2>1, InitCareful, PTL DEF CarefulInv
<1>6. CASE TfsDestroy
  BY <1>1, <1>6, FailCareful DEF TfsDestroy, CarefulInv, NeverPanics
<1>7. CASE UNCHANGED vars
  BY <1>1, <1>7, FailCareful DEF vars, CarefulInv, NeverPanics
<1> QED BY <1>1, <1>2, <1>3, <1>4, <1>5, <1>6, <1>7, WriteCareful, ReadCareful
        DEF CarefulNext, CallClose, CallWrite, CallRead, ReadNear, CarefulInv

\* The invariant of careful callers (inode_delete, data_block_free and the
\* offsets of tfs_read and tfs_write).
THEOREM CarefulInvariant == CarefulSpec => []CarefulInv
<1>1. Init => CarefulInv
  BY InitTyped, InitTables, InitCareful DEF CarefulInv
<1> QED BY <1>1, NextCareful, PTL DEF CarefulSpec

\* With careful callers an open handle designates a live file and points
\* within it, as the assertions of tfs_read and tfs_write take for granted.
THEOREM HandlesStayLive == CarefulSpec => []HandlesLive
<1>1. CarefulInv => HandlesLive
  BY DEF CarefulInv
<1> QED BY <1>1, CarefulInvariant, PTL

\* With careful callers every allocated block belongs to a live file, so that
\* deleting the files gives all of them back.
THEOREM BlocksNeverLost == CarefulSpec => []NoLostBlock
<1>1. CarefulInv => NoLostBlock
  BY DEF CarefulInv
<1> QED BY <1>1, CarefulInvariant, PTL

\* With careful callers no assertion of the library fails and no copy runs
\* out of the address space.
THEOREM LibraryNeverPanics == CarefulSpec => []NeverPanics
<1>1. CarefulInv => NeverPanics
  BY DEF CarefulInv
<1> QED BY <1>1, CarefulInvariant, PTL

\* Moving the offset of one handle leaves every handle on its file.
LEMMA OffsetMoves ==
  ASSUME TypeOK, NEW g, NEW offset, NEW h \in Handles,
         open_file_table' = [open_file_table EXCEPT ![g].of_offset = offset]
  PROVE  open_file_table'[h].of_inumber = open_file_table[h].of_inumber
<1>1. open_file_table[h] \in OpenFile /\ h \in DOMAIN open_file_table
  BY DEF TypeOK
<1>2. CASE g = h
  BY <1>1, <1>2 DEF OpenFile
<1>3. CASE g # h
  BY <1>1, <1>3
<1> QED BY <1>2, <1>3

\* A handle that stays open keeps its file: no call moves it to another.
LEMMA HandleKeepsFile ==
  ASSUME TypeOK, [Next]_vars, NEW h \in Handles, IsOpen(h), IsOpen(h)'
  PROVE  open_file_table'[h].of_inumber = open_file_table[h].of_inumber
<1>1. ASSUME NEW inum, NEW off, AddToOpenFileTable(inum, off)
      PROVE  open_file_table'[h].of_inumber = open_file_table[h].of_inumber
  <2>1. ASSUME NEW g \in Handles, IsFirstFree(free_open_file_entries, g),
               open_file_table' = [open_file_table EXCEPT ![g] =
                                     [of_inumber |-> inum, of_offset |-> off]]
        PROVE  open_file_table'[h].of_inumber = open_file_table[h].of_inumber
    <3>1. g # h
      BY <2>1 DEF IsFirstFree, IsOpen
    <3> QED BY <2>1, <3>1 DEF TypeOK
  <2> QED BY <1>1, <2>1 DEF AddToOpenFileTable, fileVars
<1>2. ASSUME NEW name, NEW mode, TfsOpen(name, mode)
      PROVE  open_file_table'[h].of_inumber = open_file_table[h].of_inumber
  BY <1>1, <1>2 DEF TfsOpen, OpenFails, OpenFound, OpenCreates, FailCall, fileVars
<1>3. ASSUME NEW g, NEW data, TfsWrite(g, data)
      PROVE  open_file_table'[h].of_inumber = open_file_table[h].of_inumber
  <2>1. \/ UNCHANGED fileVars
        \/ \E offset : open_file_table' = [open_file_table EXCEPT ![g].of_offset = offset]
    BY <1>3 DEF TfsWrite, WriteBytes, WriteNoSpace, WriteNothing, WriteDies, FailCall
  <2> QED BY <2>1, OffsetMoves DEF fileVars
<1>4. ASSUME NEW g, NEW len, TfsRead(g, len)
      PROVE  open_file_table'[h].of_inumber = open_file_table[h].of_inumber
  <2>1. \/ UNCHANGED fileVars
        \/ \E offset : open_file_table' = [open_file_table EXCEPT ![g].of_offset = offset]
    BY <1>4 DEF TfsRead, ReadBytes, ReadDies, FailCall
  <2> QED BY <2>1, OffsetMoves DEF fileVars
<1>5. ASSUME NEW g, TfsClose(g)
      PROVE  open_file_table'[h].of_inumber = open_file_table[h].of_inumber
  BY <1>5 DEF TfsClose, CloseHandle, FailCall, fileVars
<1>6. ASSUME NEW name, TfsUnlink(name)
      PROVE  open_file_table'[h].of_inumber = open_file_table[h].of_inumber
  BY <1>6 DEF TfsUnlink, UnlinkFound, FailCall, fileVars
<1>7. CASE TfsInit
  BY <1>7 DEF TfsInit, IsOpen, AllFree
<1>8. CASE TfsDestroy \/ UNCHANGED vars
  BY <1>8 DEF TfsDestroy, vars, fileVars
<1> QED BY <1>2, <1>3, <1>4, <1>5, <1>6, <1>7, <1>8
        DEF Next, CallOpen, CallClose, CallWrite, CallRead, ReadNear, CallUnlink

\* With careful callers no read or write moves a handle past the end of its file.
THEOREM ReadsAlwaysStopAtEnd == CarefulSpec => ReadsStopAtEnd
<1>1. CarefulInv /\ CarefulInv' /\ [CarefulNext]_vars =>
        [\A h \in Handles :
           LET old == open_file_table[h]
               new == open_file_table'[h]
           IN  IsOpen(h) /\ IsOpen(h)' /\ new.of_offset > old.of_offset =>
                 new.of_offset <= inode_table'[old.of_inumber].i_size]_vars
  <2> SUFFICES ASSUME CarefulInv, CarefulInv', [CarefulNext]_vars,
                      NEW h \in Handles, IsOpen(h), IsOpen(h)'
               PROVE  open_file_table'[h].of_offset
                        <= inode_table'[open_file_table[h].of_inumber].i_size
    OBVIOUS
  <2>1. open_file_table'[h].of_inumber = open_file_table[h].of_inumber
    BY HandleKeepsFile, CarefulIsNext DEF CarefulInv
  <2> QED BY <2>1 DEF CarefulInv, HandlesLive
<1> QED BY <1>1, CarefulInvariant, PTL DEF CarefulSpec, ReadsStopAtEnd

=============================================================================
