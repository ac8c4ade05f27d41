---------------------------- MODULE BoxesProofs ----------------------------
(***************************************************************************)
(* Proofs about the broker's threads on top of the file system of          *)
(* exercise2, for every number of sessions and every interleaving of their *)
(* tfs_* calls with those of Main: type correctness, handles that no two   *)
(* threads share, handles given back and no failed assertion, whatever     *)
(* clients ask; and, when clients are polite, what boxes hold, what        *)
(* subscribers were sent, where messages are written and what              *)
(* does_box_exist answers.                                                 *)
(***************************************************************************)
EXTENDS Boxes, TecnicoFSProofs, FiniteSetTheorems

(***************************************************************************)
(* What the file system keeps, whoever calls it, as long as a read starts  *)
(* at the beginning of its file.                                           *)
(***************************************************************************)

\* No open handle is past the end of a block.
OffsetsInBlock ==
  \A h \in Handles : IsOpen(h) => open_file_table[h].of_offset <= BLOCK_SIZE

\* An inode that claims to hold bytes has a block, even a deleted one.
SizedHasBlock ==
  \A i \in Inumbers : inode_table[i].i_size > 0 => inode_table[i].i_data_block \in Blocks

FsInv == TypeOK /\ TablesInv /\ phase = "up" /\ OffsetsInBlock /\ SizedHasBlock

\* Only the offset of one handle changes.
OnlyOffset(h) ==
  /\ UNCHANGED free_open_file_entries
  /\ \A g \in Handles \ {h} : open_file_table'[g] = open_file_table[g]

\* tfs_init.
LEMMA InitFs == Init => FsInv
<1> SUFFICES ASSUME Init PROVE FsInv
  OBVIOUS
<1>1. TypeOK /\ TablesInv /\ phase = "up"
  BY InitTyped, InitTables DEF Init
<1>2. OffsetsInBlock
  BY DEF Init, OffsetsInBlock, IsOpen, AllFree
<1>3. SizedHasBlock
  BY SizesAssumption
  DEF Init, SizedHasBlock, FreshInodes, RootInode, NewFileInode, Blocks, ROOT_DIR_INUM
<1> QED BY <1>1, <1>2, <1>3 DEF FsInv

\* A failed call changes nothing but its results.
LEMMA FailFs ==
  ASSUME FsInv, FailCall, buf' = <<>>
  PROVE  FsInv' /\ UNCHANGED fileVars /\ ret' = -1
<1>1. TypeOK' /\ TablesInv'
  BY FailTyped, FailTables DEF FsInv
<1> QED BY <1>1 DEF FsInv, FailCall, inodeVars, fileVars, OffsetsInBlock, SizedHasBlock, IsOpen

\* What tfs_open does to the open file table: a handle nobody had, or nothing.
Opens(mode) ==
  \/ /\ ret' \in Handles /\ ~IsOpen(ret')
     /\ free_open_file_entries' = [free_open_file_entries EXCEPT ![ret'] = "TAKEN"]
     /\ \A g \in Handles \ {ret'} : open_file_table'[g] = open_file_table[g]
     /\ open_file_table'[ret'].of_offset <= BLOCK_SIZE
     /\ "APPEND" \notin mode => open_file_table'[ret'].of_offset = 0
  \/ ret' = -1 /\ UNCHANGED fileVars

\* add_to_open_file_table.
LEMMA AddOpens ==
  ASSUME TypeOK, NEW inum, NEW off, AddToOpenFileTable(inum, off), off <= BLOCK_SIZE,
         NEW mode, "APPEND" \notin mode => off = 0
  PROVE  Opens(mode)
<1>1. ASSUME NEW h \in Handles, IsFirstFree(free_open_file_entries, h),
             free_open_file_entries' = [free_open_file_entries EXCEPT ![h] = "TAKEN"],
             open_file_table' = [open_file_table EXCEPT ![h] =
                                   [of_inumber |-> inum, of_offset |-> off]],
             ret' = h
      PROVE  Opens(mode)
  <2>1. ~IsOpen(h)
    BY <1>1 DEF IsFirstFree, IsOpen
  <2>2. /\ open_file_table'[h].of_offset = off
        /\ \A g \in Handles \ {h} : open_file_table'[g] = open_file_table[g]
    BY <1>1 DEF TypeOK
  <2> QED BY <1>1, <2>1, <2>2 DEF Opens
<1>2. CASE ret' = -1 /\ UNCHANGED fileVars
  BY <1>2 DEF Opens
<1> QED BY <1>1, <1>2 DEF AddToOpenFileTable

\* Opening keeps every open handle within its block.
LEMMA OpensInBlock ==
  ASSUME FsInv, NEW mode, Opens(mode)
  PROVE  OffsetsInBlock'
<1>1. CASE UNCHANGED fileVars
  BY <1>1 DEF FsInv, OffsetsInBlock, IsOpen, fileVars
<1>2. CASE /\ ret' \in Handles
           /\ free_open_file_entries' = [free_open_file_entries EXCEPT ![ret'] = "TAKEN"]
           /\ \A g \in Handles \ {ret'} : open_file_table'[g] = open_file_table[g]
           /\ open_file_table'[ret'].of_offset <= BLOCK_SIZE
  BY <1>2 DEF FsInv, OffsetsInBlock, IsOpen, TypeOK
<1> QED BY <1>1, <1>2 DEF Opens

\* An inode keeps its block or has no bytes.
LEMMA SizedStays ==
  ASSUME SizedHasBlock,
         \A i \in Inumbers : inode_table'[i] = inode_table[i] \/ inode_table'[i].i_size = 0
  PROVE  SizedHasBlock'
  BY DEF SizedHasBlock

\* tfs_open, for appending or from the start, that finds the file, creates it or fails.
LEMMA OpenFs ==
  ASSUME FsInv, NEW name, NEW mode, TfsOpen(name, mode)
  PROVE  FsInv' /\ Opens(mode)
<1>1. TypeOK' /\ TablesInv'
  BY OpenTyped, OpenTables DEF FsInv
<1>2. CASE FailCall
  BY <1>2, FailFs DEF Opens, TfsOpen
<1>3. ASSUME NEW e \in DirSlots, OpenFound(e, name, mode)
      PROVE  FsInv' /\ Opens(mode)
  <2> DEFINE inum == dir_entry[e].d_inumber
             off  == InitialOffset(inode_table'[inum].i_size, mode)
  <2>1. inum \in Inumbers
    BY <1>3 DEF OpenFound, FindInDir, EntryMatches, FsInv, TypeOK, DirEntry
  <2>2. inode_table'[inum].i_size \in 0 .. BLOCK_SIZE
    <3>1. inode_table' \in [Inumbers -> Inode]
      BY <1>1 DEF TypeOK
    <3> HIDE DEF inum
    <3> QED BY <2>1, <3>1 DEF Inode
  <2>3. off <= BLOCK_SIZE /\ ("APPEND" \notin mode => off = 0)
    BY <2>2, SizesAssumption DEF InitialOffset
  <2>4. AddToOpenFileTable(inum, off)
    BY <1>3 DEF OpenFound
  <2>5. Opens(mode)
    <3> HIDE DEF inum, off
    <3> QED BY <2>3, <2>4, AddOpens DEF FsInv
  <2>6. SizedHasBlock'
    <3>1. CASE inode_table' = [inode_table EXCEPT ![inum].i_size = 0]
      <4>1. inode_table[inum] \in Inode
        BY <2>1 DEF FsInv, TypeOK
      <4> HIDE DEF inum
      <4>2. inode_table'[inum].i_size = 0
        BY <2>1, <3>1, <4>1 DEF FsInv, TypeOK, Inode
      <4>3. \A i \in Inumbers \ {inum} : inode_table'[i] = inode_table[i]
        BY <3>1 DEF FsInv, TypeOK
      <4> QED BY <4>2, <4>3, SizedStays DEF FsInv
    <3>2. CASE UNCHANGED inode_table
      BY <3>2, SizedStays DEF FsInv
    <3> QED BY <1>3, <3>1, <3>2 DEF OpenFound, Truncate
  <2>7. phase' = "up"
    BY <1>3 DEF OpenFound, FsInv
  <2> QED BY <1>1, <2>5, <2>6, <2>7, OpensInBlock DEF FsInv
<1>4. ASSUME NEW inum \in Inumbers, inode_table' = [inode_table EXCEPT ![inum] = NewFileInode],
             UNCHANGED phase
      PROVE  SizedHasBlock' /\ phase' = "up"
  <2>1. inode_table'[inum].i_size = 0 /\ \A i \in Inumbers \ {inum} : inode_table'[i] = inode_table[i]
    BY <1>4 DEF FsInv, TypeOK, NewFileInode
  <2> QED BY <1>4, <2>1, SizedStays DEF FsInv
<1>5. ASSUME NEW inum \in Inumbers, inode_table' = [inode_table EXCEPT ![inum] = NewFileInode],
             ret' = -1, UNCHANGED <<phase, freeinode_ts, dir_entry, blockVars, fileVars>>
      PROVE  FsInv' /\ Opens(mode)
  <2>1. Opens(mode)
    BY <1>5 DEF Opens
  <2> QED BY <1>1, <1>4, <1>5, <2>1, OpensInBlock DEF FsInv
<1>6. ASSUME NEW inum \in Inumbers, InodeCreateFile(inum), AddToOpenFileTable(inum, 0),
             UNCHANGED phase
      PROVE  FsInv' /\ Opens(mode)
  <2>1. Opens(mode)
    BY <1>6, AddOpens, SizesAssumption DEF FsInv
  <2> QED BY <1>1, <1>4, <1>6, <2>1, OpensInBlock DEF FsInv, InodeCreateFile
<1> QED BY <1>2, <1>3, <1>5, <1>6 DEF TfsOpen, OpenFails, OpenCreates

\* tfs_close of an open handle; of any other number it fails.
LEMMA CloseFs ==
  ASSUME FsInv, NEW h, TfsClose(h)
  PROVE  /\ FsInv'
         /\ UNCHANGED open_file_table
         /\ IsOpen(h) => free_open_file_entries' = [free_open_file_entries EXCEPT ![h] = "FREE"]
         /\ ~IsOpen(h) => UNCHANGED free_open_file_entries
<1>1. TypeOK' /\ TablesInv'
  BY CloseTyped, CloseTables DEF FsInv
<1>2. CASE CloseHandle(h)
  <2>1. OffsetsInBlock'
    BY <1>2 DEF CloseHandle, FsInv, OffsetsInBlock, IsOpen, TypeOK
  <2>2. SizedHasBlock'
    BY <1>2 DEF CloseHandle, FsInv, SizedHasBlock, inodeVars
  <2> QED BY <1>1, <1>2, <2>1, <2>2 DEF FsInv, CloseHandle
<1>3. CASE ~IsOpen(h) /\ FailCall
  BY <1>3, FailFs DEF TfsClose, fileVars
<1> QED BY <1>2, <1>3 DEF TfsClose

\* tfs_unlink reaches no handle.
LEMMA UnlinkFs ==
  ASSUME FsInv, NEW name, TfsUnlink(name)
  PROVE  FsInv' /\ UNCHANGED fileVars
<1>1. TypeOK' /\ TablesInv'
  BY UnlinkTyped, UnlinkTables DEF FsInv
<1>2. UNCHANGED <<phase, fileVars, inode_table>>
  BY DEF TfsUnlink, UnlinkFound, InodeDelete, FailCall, inodeVars
<1> QED BY <1>1, <1>2 DEF FsInv, OffsetsInBlock, SizedHasBlock, IsOpen, fileVars

\* tfs_write through a handle within its block stays within it and never dies.
LEMMA WriteFs ==
  ASSUME FsInv, NEW h, NEW data \in Seq(Bytes), TfsWrite(h, data)
  PROVE  FsInv' /\ OnlyOffset(h)
<1>1. TypeOK' /\ TablesInv'
  BY WriteTyped, WriteTables DEF FsInv
<1>2. CASE FailCall
  BY <1>2, FailFs DEF OnlyOffset, fileVars, TfsWrite
<1>3. CASE IsOpen(h) /\ WriteBytes(h, data)
  <2> DEFINE inum == open_file_table[h].of_inumber
             off  == open_file_table[h].of_offset
             n    == ToWrite(off, Len(data))
             size == inode_table[inum].i_size
  <2>1. h \in Handles /\ inum \in Inumbers /\ off \in 0 .. BLOCK_SIZE
    BY <1>3, SizesAssumption DEF FsInv, TypeOK, OpenFile, IsOpen, OffsetsInBlock
  <2>2. off + n <= BLOCK_SIZE
    BY <2>1, ToWriteFits
  <2>3. /\ UNCHANGED <<phase, free_open_file_entries>>
        /\ open_file_table' = [open_file_table EXCEPT ![h].of_offset = off + n]
    BY <1>3 DEF WriteBytes
  <2>4. open_file_table'[h].of_offset = off + n
    <3>1. open_file_table[h] \in OpenFile /\ h \in DOMAIN open_file_table
      BY <2>1 DEF FsInv, TypeOK
    <3> HIDE DEF off, n
    <3> QED BY <2>3, <3>1 DEF OpenFile
  <2>5. OnlyOffset(h)
    BY <2>3 DEF OnlyOffset, FsInv, TypeOK
  <2>6. OffsetsInBlock'
    <3> SUFFICES ASSUME NEW g \in Handles, IsOpen(g)
                 PROVE  open_file_table'[g].of_offset <= BLOCK_SIZE
      BY <2>3 DEF OffsetsInBlock, IsOpen
    <3>1. CASE g = h
      BY <2>2, <2>4, <3>1
    <3>2. CASE g # h
      BY <2>5, <3>2 DEF OnlyOffset, FsInv, OffsetsInBlock
    <3> QED BY <3>1, <3>2
  <2>7. SizedHasBlock'
    <3>1. PICK blk \in Blocks \cup {-1} :
            /\ inode_table' = [inode_table EXCEPT ![inum].i_data_block = blk,
                                                  ![inum].i_size = GrownSize(size, off + n)]
            /\ \/ size > 0 /\ blk = inode_table[inum].i_data_block
               \/ blk \in Blocks
      <4>1. inode_table[inum].i_data_block \in Blocks \cup {-1}
        BY <2>1 DEF FsInv, TypeOK, Inode
      <4> QED BY <1>3, <4>1 DEF WriteBytes
    <3>2. blk \in Blocks
      BY <2>1, <3>1 DEF FsInv, SizedHasBlock
    <3>3. inode_table[inum] \in Inode /\ inum \in DOMAIN inode_table
      BY <2>1 DEF FsInv, TypeOK
    <3>4. \A i \in Inumbers \ {inum} : inode_table'[i] = inode_table[i]
      BY <3>1 DEF FsInv, TypeOK
    <3> DEFINE i0 == inum
               end == GrownSize(size, off + n)
    <3>5. inode_table'[i0].i_data_block = blk
      <4>1. i0 \in DOMAIN inode_table /\ inode_table[i0] \in Inode
              /\ inode_table' = [inode_table EXCEPT ![i0].i_data_block = blk, ![i0].i_size = end]
        BY <3>1, <3>3
      <4> HIDE DEF i0, end
      <4> QED BY <4>1 DEF Inode
    <3> QED BY <3>2, <3>4, <3>5 DEF FsInv, SizedHasBlock
  <2> QED BY <1>1, <2>3, <2>5, <2>6, <2>7 DEF FsInv
<1>4. CASE WriteNothing(h, data)
  BY <1>1, <1>4
  DEF WriteNothing, FsInv, OnlyOffset, OffsetsInBlock, SizedHasBlock, IsOpen, inodeVars, fileVars
<1>5. CASE IsOpen(h) /\ WriteDies(h, data)
  <2>1. open_file_table[h].of_offset \in 0 .. BLOCK_SIZE
    BY <1>5, SizesAssumption DEF FsInv, TypeOK, OpenFile, IsOpen, OffsetsInBlock
  <2> QED BY <1>5, <2>1, SizesAssumption DEF WriteDies
<1> QED BY <1>2, <1>3, <1>4, <1>5 DEF TfsWrite, WriteNoSpace

\* tfs_read from the start of a file stops at its end and never dies, even
\* when the file has been deleted or replaced behind the handle.
LEMMA ReadFs ==
  ASSUME FsInv, NEW h, NEW len \in Nat, TfsRead(h, len),
         IsOpen(h) => open_file_table[h].of_offset = 0
  PROVE  FsInv' /\ OnlyOffset(h) /\ Len(buf') <= len
<1>1. TypeOK' /\ TablesInv'
  BY ReadTyped, ReadTables DEF FsInv
<1>2. CASE FailCall /\ buf' = <<>>
  BY <1>2, FailFs DEF OnlyOffset, fileVars
<1>3. ASSUME IsOpen(h)
      PROVE  /\ ToRead(h, len) \in 0 .. len /\ ToRead(h, len) <= BLOCK_SIZE
             /\ ToRead(h, len) > 0 =>
                  inode_table[open_file_table[h].of_inumber].i_data_block # -1
  <2> DEFINE inum == open_file_table[h].of_inumber
             size == inode_table[inum].i_size
  <2>1. open_file_table[h].of_offset = 0 /\ inum \in Inumbers /\ size \in 0 .. BLOCK_SIZE
    BY <1>3 DEF FsInv, TypeOK, OpenFile, Inode, IsOpen
  <2>2. SizeSub(size, 0) = size
    <3> HIDE DEF inum, size
    <3> QED BY <2>1, SizeSubExact
  <2>3. ToRead(h, len) = AtMost(len, size)
    BY <2>1, <2>2 DEF ToRead
  <2>4. size > 0 => inode_table[inum].i_data_block # -1
    BY <2>1, SizesAssumption DEF FsInv, SizedHasBlock, Blocks
  <2> QED
    <3>1. ToRead(h, len) \in 0 .. len /\ ToRead(h, len) <= BLOCK_SIZE
            /\ (ToRead(h, len) > 0 => size > 0)
      <4> HIDE DEF inum, size
      <4> QED BY <2>1, <2>3, SizesAssumption DEF AtMost
    <3> QED BY <2>4, <3>1
<1>4. CASE IsOpen(h) /\ ReadBytes(h, len)
  <2> DEFINE n == ToRead(h, len)
  <2>1. h \in Handles /\ n \in 0 .. len /\ n <= BLOCK_SIZE
    BY <1>3, <1>4 DEF IsOpen
  <2>2. /\ UNCHANGED <<phase, inode_table, free_open_file_entries>>
        /\ open_file_table' = [open_file_table EXCEPT ![h].of_offset = 0 + n]
    BY <1>4 DEF ReadBytes, inodeVars
  <2>3. open_file_table'[h].of_offset = n
    <3>1. open_file_table[h] \in OpenFile /\ h \in DOMAIN open_file_table
      BY <2>1 DEF FsInv, TypeOK
    <3>2. 0 + n = n
      BY <2>1
    <3> HIDE DEF n
    <3> QED BY <2>2, <3>1, <3>2 DEF OpenFile
  <2>4. OnlyOffset(h)
    BY <2>2 DEF OnlyOffset, FsInv, TypeOK
  <2>5. OffsetsInBlock'
    <3> SUFFICES ASSUME NEW g \in Handles, IsOpen(g)
                 PROVE  open_file_table'[g].of_offset <= BLOCK_SIZE
      BY <2>2 DEF OffsetsInBlock, IsOpen
    <3>1. CASE g = h
      BY <2>1, <2>3, <3>1
    <3>2. CASE g # h
      BY <2>4, <3>2 DEF OnlyOffset, FsInv, OffsetsInBlock
    <3> QED BY <3>1, <3>2
  <2>6. Len(buf') = n
    BY <1>4, <2>1 DEF ReadBytes
  <2> QED BY <1>1, <2>1, <2>2, <2>4, <2>5, <2>6 DEF FsInv, SizedHasBlock
<1>5. CASE IsOpen(h) /\ ReadDies(h, len)
  BY <1>3, <1>5 DEF ReadDies
<1>6. CASE ~IsOpen(h) /\ FailCall /\ buf' = <<>>
  BY <1>2, <1>6
<1> QED BY <1>4, <1>5, <1>6 DEF TfsRead

(***************************************************************************)
(* What the threads keep.                                                  *)
(***************************************************************************)

\* Where a thread can be.
Labels == {"idle", "create_probe", "create_probed", "create_open", "create_close",
           "remove_open", "remove_close", "remove_unlink",
           "session", "session_probed", "session_start",
           "unused", "probe", "probed", "work", "done",
           "write_open", "write", "write_close", "write_failed",
           "check_open", "check_read", "check_close", "read"}

ThreadsTyped ==
  /\ pc \in [Threads -> Labels]
  /\ box \in [Threads -> Names \cup {NoName}]
  /\ fh \in [Threads -> Handles \cup {-1}]
  /\ kind \in [Threads -> {"none", "create", "remove", "pub", "sub"}]
  /\ msg \in [Sessions -> Seq(Bytes \cup {Garbage})]
  /\ MAX_SESSIONS \in 0 .. MaxSessions

\* The labels between the opening of a box and its closing.
Holding == {"probed", "create_probed", "session_probed", "create_close", "remove_close", "write",
            "write_close", "write_failed", "check_read", "check_close", "read"}

\* A thread that is about to open a box has no handle it would lose.
HandlesHeld == \A t \in Threads : fh[t] # -1 => pc[t] \in Holding

\* Both reads of a session thread start at the beginning of the box.
ReadsFromStart ==
  \A s \in Sessions : pc[s] \in {"check_read", "read"} /\ fh[s] # -1 =>
    open_file_table[fh[s]].of_offset = 0

\* Only the subscribers' threads leave handles behind.
OnlySubscribersLeak ==
  \A h \in Handles : IsOpen(h) =>
    (\E t \in Threads : fh[t] = h) \/ (\E s \in Sessions : kind[s] = "sub")

\* The sessions not granted yet.
Unstarted ==
  \A s \in Sessions : MaxSessions - MAX_SESSIONS < s =>
    pc[s] = "unused" /\ kind[s] = "none" /\ msg[s] = <<>>

MessagesFit ==
  \A s \in Sessions :
    Len(msg[s]) <= MESSAGE_SIZE /\ (kind[s] # "sub" => msg[s] \in Seq(Bytes))

KindsKnown ==
  \A s \in Sessions :
    /\ pc[s] = "read" => kind[s] = "sub"
    /\ pc[s] \in {"write_open", "write"} => kind[s] # "sub"

BoxesKnown ==
  /\ pc[Main] # "idle" => box[Main] \in Names
  /\ \A s \in Sessions : pc[s] # "unused" /\ ~ArgsLost => box[s] \in Names

SessionGranted == pc[Main] \in {"session_probed", "session_start"} => MAX_SESSIONS # 0

\* What depends on where the threads are.
PlacesInv ==
  ThreadsTyped /\ HandlesHeld /\ ReadsFromStart /\ Unstarted /\ MessagesFit /\ KindsKnown
    /\ BoxesKnown /\ SessionGranted

HandlesInv == HandlesPrivate /\ OnlySubscribersLeak

BoxesInv == FsInv /\ PlacesInv /\ HandlesInv

\* A call of thread t does not reach the handles of the others.
OthersKeep(t) ==
  \A u \in Threads \ {t} :
    /\ fh'[u] = fh[u]
    /\ fh[u] # -1 => open_file_table'[fh[u]] = open_file_table[fh[u]]

\* A thread that opens a box gets a handle nobody else has.
LEMMA OpenBoxHandles ==
  ASSUME BoxesInv, NEW t \in Threads, fh[t] = -1, NEW mode, OpenBox(t, mode), UNCHANGED kind
  PROVE  /\ FsInv' /\ HandlesInv' /\ OthersKeep(t)
         /\ fh' \in [Threads -> Handles \cup {-1}] /\ fh'[t] = ret'
         /\ fh'[t] # -1 /\ "APPEND" \notin mode => open_file_table'[fh'[t]].of_offset = 0
<1>1. FsInv' /\ Opens(mode)
  BY OpenFs DEF BoxesInv, OpenBox
<1>2. ret' \in Handles \cup {-1}
  BY <1>1 DEF Opens
<1>3. fh' = [fh EXCEPT ![t] = ret'] /\ fh \in [Threads -> Handles \cup {-1}]
  BY DEF OpenBox, BoxesInv, PlacesInv, ThreadsTyped
<1>4. fh'[t] = ret' /\ \A u \in Threads \ {t} : fh'[u] = fh[u]
  BY <1>3
<1>5. CASE ret' = -1 /\ UNCHANGED fileVars
  <2>1. HandlesPrivate'
    BY <1>3, <1>4, <1>5 DEF BoxesInv, HandlesInv, HandlesPrivate, IsOpen, fileVars
  <2>2. OnlySubscribersLeak'
    <3> SUFFICES ASSUME NEW h \in Handles, IsOpen(h)'
                 PROVE  (\E u \in Threads : fh'[u] = h) \/ (\E s \in Sessions : kind'[s] = "sub")
      BY DEF OnlySubscribersLeak
    <3>1. IsOpen(h) /\ h # -1
      BY <1>5, SizesAssumption DEF IsOpen, fileVars, Handles
    <3>2. (\E u \in Threads \ {t} : fh[u] = h) \/ (\E s \in Sessions : kind[s] = "sub")
      BY <3>1 DEF BoxesInv, HandlesInv, OnlySubscribersLeak
    <3> QED BY <1>4, <3>2
  <2> QED BY <1>1, <1>2, <1>3, <1>4, <1>5, <2>1, <2>2 DEF HandlesInv, OthersKeep, fileVars
<1>6. CASE /\ ret' \in Handles /\ ~IsOpen(ret')
           /\ free_open_file_entries' = [free_open_file_entries EXCEPT ![ret'] = "TAKEN"]
           /\ \A g \in Handles \ {ret'} : open_file_table'[g] = open_file_table[g]
           /\ "APPEND" \notin mode => open_file_table'[ret'].of_offset = 0
  <2>1. \A u \in Threads : fh[u] # -1 => fh[u] \in Handles /\ IsOpen(fh[u]) /\ fh[u] # ret'
    BY <1>3, <1>6 DEF BoxesInv, HandlesInv, HandlesPrivate
  <2>2. /\ free_open_file_entries'[ret'] = "TAKEN"
        /\ \A g \in Handles \ {ret'} : free_open_file_entries'[g] = free_open_file_entries[g]
    BY <1>6 DEF BoxesInv, FsInv, TypeOK
  <2>3. HandlesPrivate'
    BY <1>3, <1>4, <1>6, <2>1, <2>2 DEF BoxesInv, HandlesInv, HandlesPrivate, IsOpen
  <2>4. OnlySubscribersLeak'
    <3> SUFFICES ASSUME NEW h \in Handles, free_open_file_entries'[h] = "TAKEN"
                 PROVE  (\E u \in Threads : fh'[u] = h) \/ (\E s \in Sessions : kind'[s] = "sub")
      BY DEF OnlySubscribersLeak, IsOpen
    <3>1. CASE h = ret'
      BY <1>4, <3>1
    <3>2. CASE h # ret'
      <4>1. IsOpen(h) /\ h # -1
        BY <2>2, <3>2, SizesAssumption DEF IsOpen, Handles
      <4>2. (\E u \in Threads \ {t} : fh[u] = h) \/ (\E s \in Sessions : kind[s] = "sub")
        BY <4>1 DEF BoxesInv, HandlesInv, OnlySubscribersLeak
      <4> QED BY <1>4, <4>2
    <3> QED BY <3>1, <3>2
  <2>5. OthersKeep(t)
    BY <1>4, <1>6, <2>1 DEF OthersKeep
  <2> QED BY <1>1, <1>3, <1>4, <1>6, <2>3, <2>4, <2>5 DEF HandlesInv
<1> QED BY <1>1, <1>5, <1>6 DEF Opens

\* A thread that closes its handle has given it back.
LEMMA CloseBoxHandles ==
  ASSUME BoxesInv, NEW t \in Threads, CloseBox(t), UNCHANGED kind
  PROVE  /\ FsInv' /\ HandlesInv' /\ OthersKeep(t)
         /\ fh' \in [Threads -> Handles \cup {-1}] /\ fh'[t] = -1
<1>1. /\ FsInv' /\ UNCHANGED open_file_table
      /\ IsOpen(fh[t]) =>
           free_open_file_entries' = [free_open_file_entries EXCEPT ![fh[t]] = "FREE"]
      /\ ~IsOpen(fh[t]) => UNCHANGED free_open_file_entries
  BY CloseFs DEF BoxesInv, CloseBox
<1>2. fh' = [fh EXCEPT ![t] = -1] /\ fh \in [Threads -> Handles \cup {-1}]
  BY DEF CloseBox, BoxesInv, PlacesInv, ThreadsTyped
<1>3. fh'[t] = -1 /\ \A u \in Threads \ {t} : fh'[u] = fh[u]
  BY <1>2
<1>4. \A g \in Handles \ {fh[t]} : free_open_file_entries'[g] = free_open_file_entries[g]
  BY <1>1 DEF BoxesInv, FsInv, TypeOK
<1>5. \A h \in Handles : free_open_file_entries'[h] = "TAKEN" => h # fh[t] /\ IsOpen(h)
  BY <1>1, <1>4 DEF BoxesInv, FsInv, TypeOK, IsOpen
<1>6. HandlesPrivate'
  <2>1. \A u \in Threads \ {t} : fh[u] # -1 => fh[u] \in Handles \ {fh[t]} /\ IsOpen(fh[u])
    BY <1>2 DEF BoxesInv, HandlesInv, HandlesPrivate
  <2> QED BY <1>2, <1>3, <1>4, <2>1 DEF BoxesInv, HandlesInv, HandlesPrivate, IsOpen
<1>7. OnlySubscribersLeak'
  <2> SUFFICES ASSUME NEW h \in Handles, free_open_file_entries'[h] = "TAKEN"
               PROVE  (\E u \in Threads : fh'[u] = h) \/ (\E s \in Sessions : kind'[s] = "sub")
    BY DEF OnlySubscribersLeak, IsOpen
  <2>1. (\E u \in Threads \ {t} : fh[u] = h) \/ (\E s \in Sessions : kind[s] = "sub")
    BY <1>5 DEF BoxesInv, HandlesInv, OnlySubscribersLeak
  <2> QED BY <1>3, <2>1
<1> QED BY <1>1, <1>2, <1>3, <1>6, <1>7 DEF HandlesInv, OthersKeep

\* A read or a write of a thread moves the offset of its own handle only.
LEMMA OffsetHandles ==
  ASSUME BoxesInv, NEW t \in Threads, OnlyOffset(fh[t]), UNCHANGED <<fh, kind>>
  PROVE  HandlesInv' /\ OthersKeep(t)
<1>1. HandlesPrivate' /\ OnlySubscribersLeak'
  BY DEF BoxesInv, HandlesInv, HandlesPrivate, OnlySubscribersLeak, OnlyOffset, IsOpen
<1>2. \A u \in Threads \ {t} : fh[u] # -1 => fh[u] \in Handles \ {fh[t]}
  BY DEF BoxesInv, HandlesInv, HandlesPrivate, PlacesInv, ThreadsTyped
<1> QED BY <1>1, <1>2 DEF HandlesInv, OthersKeep, OnlyOffset

\* A thread that goes from one label to the next.
LEMMA ThreadMoves ==
  ASSUME PlacesInv, NEW t \in Threads, NEW label \in Labels, Goto(t, label),
         UNCHANGED <<box, kind, msg, MAX_SESSIONS>>,
         fh' \in [Threads -> Handles \cup {-1}], OthersKeep(t),
         pc[t] # "unused",
         fh'[t] # -1 => label \in Holding,
         t \in Sessions /\ label \in {"check_read", "read"} /\ fh'[t] # -1 =>
           open_file_table'[fh'[t]].of_offset = 0,
         t \in Sessions /\ label = "read" => kind[t] = "sub",
         t \in Sessions /\ label \in {"write_open", "write"} => kind[t] # "sub",
         t = Main => pc[t] # "idle" \/ label = "idle",
         t = Main /\ label \in {"session_probed", "session_start"} => MAX_SESSIONS # 0
  PROVE  PlacesInv'
<1>1. /\ pc' \in [Threads -> Labels] /\ pc'[t] = label
      /\ \A u \in Threads \ {t} : pc'[u] = pc[u]
  BY DEF Goto, PlacesInv, ThreadsTyped
<1>2. ThreadsTyped'
  BY <1>1 DEF PlacesInv, ThreadsTyped
<1>3. HandlesHeld'
  BY <1>1 DEF PlacesInv, HandlesHeld, OthersKeep
<1>4. ReadsFromStart'
  <2> SUFFICES ASSUME NEW s \in Sessions, pc'[s] \in {"check_read", "read"}, fh'[s] # -1
               PROVE  open_file_table'[fh'[s]].of_offset = 0
    BY DEF ReadsFromStart
  <2>1. CASE s = t
    BY <1>1, <2>1
  <2>2. CASE s # t
    <3>1. fh'[s] = fh[s] /\ open_file_table'[fh[s]] = open_file_table[fh[s]] /\ pc'[s] = pc[s]
      BY <1>1, <2>2 DEF OthersKeep, Threads
    <3> QED BY <3>1 DEF PlacesInv, ReadsFromStart
  <2> QED BY <2>1, <2>2
<1>5. Unstarted'
  BY <1>1 DEF PlacesInv, Unstarted, Threads
<1>6. MessagesFit'
  BY DEF PlacesInv, MessagesFit
<1>7. KindsKnown'
  BY <1>1 DEF PlacesInv, KindsKnown, Threads
<1>8. Main \in Threads /\ Main \notin Sessions
  BY BoxesAssumption DEF Threads, Main, Sessions
<1>9. BoxesKnown'
  BY <1>1, <1>8 DEF PlacesInv, BoxesKnown, Threads
<1>10. SessionGranted'
  BY <1>1, <1>8 DEF PlacesInv, SessionGranted
<1> QED BY <1>2, <1>3, <1>4, <1>5, <1>6, <1>7, <1>9, <1>10 DEF PlacesInv

(***************************************************************************)
(* Step by step.                                                           *)
(***************************************************************************)

\* Main is a thread and no session.
LEMMA MainIsThread == Main \in Threads /\ Main \notin Sessions
  BY BoxesAssumption DEF Threads, Main, Sessions

\* Opening a box, or closing one, and going on.
OpenMoves(t, mode, label) ==
  OpenBox(t, mode) /\ Goto(t, label) /\ UNCHANGED <<box, kind, msg, MAX_SESSIONS>>

CloseMoves(t, label) ==
  CloseBox(t) /\ Goto(t, label) /\ UNCHANGED <<box, kind, msg, MAX_SESSIONS>>

\* A thread that opens a box keeps the handle until a label that holds it.
LEMMA OpenStep ==
  ASSUME BoxesInv, NEW t \in Threads, NEW mode, NEW label \in Labels, OpenMoves(t, mode, label),
         pc[t] \notin Holding, pc[t] # "unused",
         ret' # -1 => label \in Holding,
         "APPEND" \in mode => label \notin {"check_read", "read"},
         t \in Sessions /\ label = "read" => kind[t] = "sub",
         t \in Sessions /\ label \in {"write_open", "write"} => kind[t] # "sub",
         t = Main => pc[t] # "idle",
         t = Main /\ label \in {"session_probed", "session_start"} => MAX_SESSIONS # 0
  PROVE  BoxesInv'
<1>1. fh[t] = -1
  BY DEF BoxesInv, PlacesInv, HandlesHeld
<1>2. /\ FsInv' /\ HandlesInv' /\ OthersKeep(t)
      /\ fh' \in [Threads -> Handles \cup {-1}] /\ fh'[t] = ret'
      /\ fh'[t] # -1 /\ "APPEND" \notin mode => open_file_table'[fh'[t]].of_offset = 0
  BY <1>1, OpenBoxHandles DEF OpenMoves
<1>3. PlacesInv'
  BY <1>2, ThreadMoves DEF BoxesInv, OpenMoves
<1> QED BY <1>2, <1>3 DEF BoxesInv

\* A thread that closes its box goes on without a handle.
LEMMA CloseStep ==
  ASSUME BoxesInv, NEW t \in Threads, NEW label \in Labels, CloseMoves(t, label),
         pc[t] # "unused",
         label \notin {"read", "write_open", "write"},
         t = Main => pc[t] # "idle",
         t = Main /\ label \in {"session_probed", "session_start"} => MAX_SESSIONS # 0
  PROVE  BoxesInv'
<1>1. /\ FsInv' /\ HandlesInv' /\ OthersKeep(t)
      /\ fh' \in [Threads -> Handles \cup {-1}] /\ fh'[t] = -1
  BY CloseBoxHandles DEF CloseMoves
<1>2. PlacesInv'
  BY <1>1, ThreadMoves DEF BoxesInv, CloseMoves
<1> QED BY <1>1, <1>2 DEF BoxesInv

\* A thread that goes on without calling the file system.
LEMMA IdleStep ==
  ASSUME BoxesInv, NEW t \in Threads, NEW label \in Labels, Goto(t, label), FsInv', UNCHANGED fileVars,
         UNCHANGED <<fh, box, kind, msg, MAX_SESSIONS>>,
         pc[t] \notin Holding, pc[t] # "unused",
         label \notin {"read", "write_open", "write"},
         t = Main => pc[t] # "idle",
         t = Main /\ label \in {"session_probed", "session_start"} => MAX_SESSIONS # 0
  PROVE  BoxesInv'
<1>1. fh[t] = -1 /\ fh'[t] = -1 /\ fh' \in [Threads -> Handles \cup {-1}]
  BY DEF BoxesInv, PlacesInv, HandlesHeld, ThreadsTyped
<1>2. HandlesInv'
  BY DEF BoxesInv, HandlesInv, HandlesPrivate, OnlySubscribersLeak, IsOpen, fileVars
<1>3. OthersKeep(t)
  BY DEF OthersKeep, fileVars
<1>4. PlacesInv'
  BY <1>1, <1>3, ThreadMoves DEF BoxesInv
<1> QED BY <1>2, <1>4 DEF BoxesInv

\* A step that leaves the file system and the handles alone.
LEMMA FsUntouched ==
  ASSUME BoxesInv, UNCHANGED vars
  PROVE  FsInv'
  BY DEF BoxesInv, FsInv, TypeOK, TablesInv, DirectoryConsistent, BlocksExclusive, RootIntact,
         NamesKept, Used, Live, Owns, OffsetsInBlock, SizedHasBlock, IsOpen,
         vars, inodeVars, blockVars, fileVars

\* A step that changes neither the handles nor whose they are.
LEMMA HandlesUntouched ==
  ASSUME BoxesInv, UNCHANGED <<fileVars, fh>>,
         \A s \in Sessions : kind[s] = "sub" => kind'[s] = "sub"
  PROVE  HandlesInv'
  BY DEF BoxesInv, HandlesInv, HandlesPrivate, OnlySubscribersLeak, IsOpen, fileVars

\* create_box, with does_box_exist before it.
LEMMA CreateStep == ASSUME BoxesInv, CreateBox PROVE BoxesInv'
<1>1. CASE ProbeOpen(Main, "create_probe", "create_probed")
  <2>1. OpenMoves(Main, {"APPEND"}, "create_probed") /\ pc[Main] = "create_probe"
    BY <1>1 DEF ProbeOpen, OpenMoves
  <2> QED BY <2>1, OpenStep, MainIsThread DEF Holding, Labels
<1>2. CASE ProbeClose(Main, "create_probed", "idle", "create_open")
  <2>1. PICK label \in {"idle", "create_open"} : CloseMoves(Main, label)
    BY <1>2 DEF ProbeClose, CloseMoves
  <2>2. pc[Main] = "create_probed"
    BY <1>2 DEF ProbeClose
  <2> QED BY <2>1, <2>2, CloseStep, MainIsThread DEF Labels
<1>3. CASE CreateOpen
  <2>1. PICK label \in {"create_close", "idle"} :
          OpenMoves(Main, {"CREAT"}, label) /\ (ret' # -1 => label = "create_close")
    BY <1>3 DEF CreateOpen, OpenMoves
  <2>2. pc[Main] = "create_open"
    BY <1>3 DEF CreateOpen
  <2> QED BY <2>1, <2>2, OpenStep, MainIsThread DEF Holding, Labels
<1>4. CASE CreateClose
  <2>1. CloseMoves(Main, "idle") /\ pc[Main] = "create_close"
    BY <1>4 DEF CreateClose, CloseMoves
  <2> QED BY <2>1, CloseStep, MainIsThread DEF Labels
<1> QED BY <1>1, <1>2, <1>3, <1>4 DEF CreateBox

\* remove_box.
LEMMA RemoveStep == ASSUME BoxesInv, RemoveBox PROVE BoxesInv'
<1>1. CASE RemoveOpen
  <2>1. PICK label \in {"remove_close", "idle"} :
          OpenMoves(Main, {"APPEND"}, label) /\ (ret' # -1 => label = "remove_close")
    BY <1>1 DEF RemoveOpen, OpenMoves
  <2>2. pc[Main] = "remove_open"
    BY <1>1 DEF RemoveOpen
  <2> QED BY <2>1, <2>2, OpenStep, MainIsThread DEF Holding, Labels
<1>2. CASE RemoveClose
  <2>1. CloseMoves(Main, "remove_unlink") /\ pc[Main] = "remove_close"
    BY <1>2 DEF RemoveClose, CloseMoves
  <2> QED BY <2>1, CloseStep, MainIsThread DEF Labels
<1>3. CASE RemoveUnlink
  <2>1. FsInv' /\ UNCHANGED fileVars
    BY <1>3, UnlinkFs DEF RemoveUnlink, BoxesInv
  <2>2. /\ Goto(Main, "idle") /\ pc[Main] = "remove_unlink"
        /\ UNCHANGED <<fh, box, kind, msg, MAX_SESSIONS>>
    BY <1>3 DEF RemoveUnlink
  <2> QED BY <2>1, <2>2, IdleStep, MainIsThread DEF Holding, Labels
<1> QED BY <1>1, <1>2, <1>3 DEF RemoveBox

\* A session is refused, or granted after does_box_exist.
LEMMA SessionRequestStep ==
  ASSUME BoxesInv, SessionRefused \/ SessionProbe \/ SessionProbed PROVE BoxesInv'
<1>1. CASE SessionRefused
  <2>1. FsInv' /\ UNCHANGED fileVars
    BY <1>1, FsUntouched DEF SessionRefused, vars
  <2>2. /\ Goto(Main, "idle") /\ pc[Main] = "session"
        /\ UNCHANGED <<fh, box, kind, msg, MAX_SESSIONS>>
    BY <1>1 DEF SessionRefused
  <2> QED BY <2>1, <2>2, IdleStep, MainIsThread DEF Holding, Labels
<1>2. CASE SessionProbe
  <2>1. OpenMoves(Main, {"APPEND"}, "session_probed") /\ pc[Main] = "session" /\ MAX_SESSIONS # 0
    BY <1>2 DEF SessionProbe, ProbeOpen, OpenMoves
  <2> QED BY <2>1, OpenStep, MainIsThread DEF Holding, Labels
<1>3. CASE SessionProbed
  <2>1. PICK label \in {"session_start", "idle"} : CloseMoves(Main, label)
    BY <1>3 DEF SessionProbed, ProbeClose, CloseMoves
  <2>2. pc[Main] = "session_probed" /\ MAX_SESSIONS # 0
    BY <1>3 DEF SessionProbed, ProbeClose, BoxesInv, PlacesInv, SessionGranted
  <2> QED BY <2>1, <2>2, CloseStep, MainIsThread DEF Labels
<1> QED BY <1>1, <1>2, <1>3

\* The session that pthreads_add starts.
StartsAt(s0) ==
  /\ s0 = 1 + MaxSessions - MAX_SESSIONS /\ MAX_SESSIONS \in 1 .. MaxSessions
  /\ s0 \in Threads /\ s0 # Main /\ box[Main] \in Names
  /\ pc[s0] = "unused" /\ kind[s0] = "none" /\ msg[s0] = <<>>
  /\ pc'[s0] = "probe" /\ kind'[s0] = kind[Main] /\ box'[s0] = box[Main]
  /\ pc'[Main] = "idle" /\ pc' \in [Threads -> Labels]
  /\ \A t \in Threads \ {s0, Main} : pc'[t] = pc[t]
  /\ \A t \in Threads \ {s0} : kind'[t] = kind[t] /\ box'[t] = box[t]

\* SessionStart takes the first session not granted yet.
LEMMA SessionStarts == ASSUME BoxesInv, SessionStart PROVE \E s0 \in Sessions : StartsAt(s0)
<1>1. PICK s0 : s0 = 1 + MaxSessions - MAX_SESSIONS
  OBVIOUS
<1>2. MAX_SESSIONS \in 1 .. MaxSessions /\ s0 \in Sessions
  BY <1>1, BoxesAssumption
  DEF SessionStart, BoxesInv, PlacesInv, ThreadsTyped, SessionGranted, Sessions
<1>3. pc[s0] = "unused" /\ kind[s0] = "none" /\ msg[s0] = <<>>
  BY <1>1, <1>2, BoxesAssumption DEF BoxesInv, PlacesInv, Unstarted
<1>4. s0 \in Threads /\ Main \in Threads /\ s0 # Main /\ box[Main] \in Names
  BY <1>2, MainIsThread DEF Threads, SessionStart, BoxesInv, PlacesInv, BoxesKnown
<1>5. /\ pc' = [pc EXCEPT ![Main] = "idle", ![s0] = "probe"]
      /\ box' = [box EXCEPT ![s0] = box[Main]]
      /\ kind' = [kind EXCEPT ![s0] = kind[Main]]
  BY <1>1 DEF SessionStart
<1>6. pc \in [Threads -> Labels] /\ DOMAIN box = Threads /\ DOMAIN kind = Threads
  BY DEF BoxesInv, PlacesInv, ThreadsTyped
<1>7. /\ pc' \in [Threads -> Labels] /\ pc'[s0] = "probe" /\ pc'[Main] = "idle"
      /\ \A t \in Threads \ {s0, Main} : pc'[t] = pc[t]
  BY <1>4, <1>5, <1>6 DEF Labels
<1>8. /\ box'[s0] = box[Main] /\ kind'[s0] = kind[Main]
      /\ \A t \in Threads \ {s0} : kind'[t] = kind[t] /\ box'[t] = box[t]
  BY <1>4, <1>5, <1>6
<1> QED BY <1>1, <1>2, <1>3, <1>4, <1>7, <1>8 DEF StartsAt

\* pthreads_add starts the next session.
LEMMA SessionStartStep == ASSUME BoxesInv, SessionStart PROVE BoxesInv'
<1> PICK s0 \in Sessions : StartsAt(s0)
  BY SessionStarts
<1>1. MAX_SESSIONS \in 1 .. MaxSessions /\ s0 = 1 + MaxSessions - MAX_SESSIONS
  BY DEF StartsAt
<1>2. pc[s0] = "unused" /\ kind[s0] = "none" /\ msg[s0] = <<>>
  BY DEF StartsAt
<1>3. s0 \in Threads /\ Main \in Threads /\ s0 # Main /\ box[Main] \in Names
  BY MainIsThread DEF StartsAt
<1>4. /\ MAX_SESSIONS' = MAX_SESSIONS - 1
      /\ UNCHANGED <<vars, fh, msg>>
      /\ box' = [box EXCEPT ![s0] = box[Main]]
      /\ kind' = [kind EXCEPT ![s0] = kind[Main]]
  BY <1>1 DEF SessionStart
<1>5. /\ pc' \in [Threads -> Labels] /\ pc'[s0] = "probe" /\ pc'[Main] = "idle"
      /\ \A t \in Threads \ {s0, Main} : pc'[t] = pc[t]
      /\ \A t \in Threads \ {s0} : kind'[t] = kind[t] /\ box'[t] = box[t]
      /\ box'[s0] = box[Main]
  BY DEF StartsAt
<1>6. FsInv' /\ HandlesInv'
  BY <1>2, <1>4, <1>5, FsUntouched, HandlesUntouched DEF vars, Threads
<1>7. ThreadsTyped'
  <2>1. ThreadsTyped
    BY DEF BoxesInv, PlacesInv
  <2>2. kind' \in [Threads -> {"none", "create", "remove", "pub", "sub"}]
    BY <1>3, <1>4, <2>1 DEF ThreadsTyped
  <2>3. box' \in [Threads -> Names \cup {NoName}]
    BY <1>3, <1>4, <2>1 DEF ThreadsTyped
  <2>4. MAX_SESSIONS' \in 0 .. MaxSessions
    BY <1>1, <1>4, BoxesAssumption
  <2> QED BY <1>4, <1>5, <2>1, <2>2, <2>3, <2>4 DEF ThreadsTyped
<1>8. HandlesHeld'
  <2>1. fh[s0] = -1 /\ fh[Main] = -1
    BY <1>2, <1>3 DEF SessionStart, BoxesInv, PlacesInv, HandlesHeld, Holding
  <2> QED BY <1>4, <1>5, <2>1 DEF BoxesInv, PlacesInv, HandlesHeld
<1>9. ReadsFromStart' /\ KindsKnown'
  <2>1. \A s \in Sessions \ {s0} : pc'[s] = pc[s] /\ kind'[s] = kind[s]
    BY <1>5, MainIsThread DEF Threads
  <2>2. UNCHANGED <<open_file_table, fh>>
    BY <1>4 DEF vars, fileVars
  <2> QED BY <1>5, <2>1, <2>2 DEF BoxesInv, PlacesInv, ReadsFromStart, KindsKnown
<1>10. Unstarted'
  <2> SUFFICES ASSUME NEW s \in Sessions, MaxSessions - MAX_SESSIONS' < s
               PROVE  pc'[s] = "unused" /\ kind'[s] = "none" /\ msg'[s] = <<>>
    BY DEF Unstarted
  <2>1. MaxSessions - MAX_SESSIONS < s /\ s # s0
    BY <1>1, <1>4, BoxesAssumption DEF Sessions
  <2> QED BY <1>4, <1>5, <2>1, MainIsThread DEF BoxesInv, PlacesInv, Unstarted, Threads
<1>11. MessagesFit'
  <2>1. <<>> \in Seq(Bytes)
    OBVIOUS
  <2>2. \A s \in Sessions \ {s0} : kind'[s] = kind[s]
    BY <1>5 DEF Threads
  <2> QED BY <1>2, <1>4, <2>1, <2>2 DEF BoxesInv, PlacesInv, MessagesFit
<1>12. BoxesKnown' /\ SessionGranted'
  BY <1>3, <1>5, MainIsThread DEF BoxesInv, PlacesInv, BoxesKnown, SessionGranted, Threads
<1> QED BY <1>6, <1>7, <1>8, <1>9, <1>10, <1>11, <1>12 DEF BoxesInv, PlacesInv

\* A request for the main thread.
LEMMA RequestStep ==
  ASSUME BoxesInv, NEW op \in {"create", "remove", "pub", "sub"}, NEW b \in Names, Request(op, b)
  PROVE  BoxesInv'
<1>1. PICK label \in {"create_probe", "remove_open", "session"} :
        pc' = [pc EXCEPT ![Main] = label]
  BY DEF Request, Goto
<1>2. /\ UNCHANGED <<vars, fh, msg, MAX_SESSIONS>>
      /\ box' = [box EXCEPT ![Main] = b] /\ kind' = [kind EXCEPT ![Main] = op]
      /\ pc[Main] = "idle"
  BY DEF Request
<1>3. /\ pc' \in [Threads -> Labels] /\ pc'[Main] = label /\ box'[Main] = b
      /\ \A s \in Sessions : pc'[s] = pc[s] /\ box'[s] = box[s] /\ kind'[s] = kind[s]
  <2>1. pc \in [Threads -> Labels] /\ DOMAIN box = Threads /\ DOMAIN kind = Threads
    BY DEF BoxesInv, PlacesInv, ThreadsTyped
  <2>2. label \in Labels /\ Sessions \subseteq Threads \ {Main}
    BY MainIsThread DEF Threads, Labels
  <2>3. pc' \in [Threads -> Labels] /\ pc'[Main] = label /\ \A s \in Sessions : pc'[s] = pc[s]
    BY <1>1, <2>1, <2>2, MainIsThread
  <2>4. box'[Main] = b /\ \A s \in Sessions : box'[s] = box[s] /\ kind'[s] = kind[s]
    BY <1>2, <2>1, <2>2, MainIsThread
  <2> QED BY <2>3, <2>4
<1>4. FsInv' /\ HandlesInv'
  BY <1>2, <1>3, FsUntouched, HandlesUntouched DEF vars
<1>5. ThreadsTyped'
  BY <1>2, <1>3 DEF BoxesInv, PlacesInv, ThreadsTyped
<1>6. HandlesHeld'
  <2>1. fh[Main] = -1
    BY <1>2, MainIsThread DEF BoxesInv, PlacesInv, HandlesHeld, Holding
  <2> QED BY <1>2, <1>3, <2>1 DEF BoxesInv, PlacesInv, HandlesHeld, Threads
<1>7. ReadsFromStart' /\ KindsKnown'
  BY <1>2, <1>3 DEF BoxesInv, PlacesInv, ReadsFromStart, KindsKnown, vars, fileVars
<1>8. Unstarted' /\ MessagesFit'
  BY <1>2, <1>3 DEF BoxesInv, PlacesInv, Unstarted, MessagesFit
<1>9. BoxesKnown' /\ SessionGranted'
  BY <1>2, <1>3 DEF BoxesInv, PlacesInv, BoxesKnown, SessionGranted
<1> QED BY <1>4, <1>5, <1>6, <1>7, <1>8, <1>9 DEF BoxesInv, PlacesInv

\* A session is a thread, and not Main.
LEMMA SessionIsThread == ASSUME NEW s \in Sessions PROVE s \in Threads /\ s # Main
  BY MainIsThread DEF Threads

\* does_box_exist before each round of a session.
LEMMA ProbeStep ==
  ASSUME BoxesInv, NEW s \in Sessions,
         ProbeOpen(s, "probe", "probed") \/ ProbeClose(s, "probed", "work", "done")
  PROVE  BoxesInv'
<1>1. CASE ProbeOpen(s, "probe", "probed")
  <2>1. OpenMoves(s, {"APPEND"}, "probed") /\ pc[s] = "probe"
    BY <1>1 DEF ProbeOpen, OpenMoves
  <2> QED BY <2>1, OpenStep, SessionIsThread DEF Holding, Labels
<1>2. CASE ProbeClose(s, "probed", "work", "done")
  <2>1. PICK label \in {"work", "done"} : CloseMoves(s, label)
    BY <1>2 DEF ProbeClose, CloseMoves
  <2>2. pc[s] = "probed"
    BY <1>2 DEF ProbeClose
  <2> QED BY <2>1, <2>2, CloseStep, SessionIsThread DEF Labels
<1> QED BY <1>1, <1>2

\* write_message, up to the closing of its first handle.
LEMMA WriteStep ==
  ASSUME BoxesInv, NEW s \in Sessions, WriteOpen(s) \/ WriteMessage(s) \/ WriteClose(s)
  PROVE  BoxesInv'
<1>1. CASE WriteOpen(s)
  <2>1. PICK label \in {"write", "probe"} :
          OpenMoves(s, {"APPEND"}, label) /\ (ret' # -1 => label = "write")
    BY <1>1 DEF WriteOpen, OpenMoves
  <2>2. pc[s] = "write_open" /\ kind[s] # "sub"
    BY <1>1 DEF WriteOpen, BoxesInv, PlacesInv, KindsKnown
  <2> QED BY <2>1, <2>2, OpenStep, SessionIsThread DEF Holding, Labels
<1>2. CASE WriteMessage(s)
  <2>1. pc[s] = "write" /\ msg[s] \in Seq(Bytes)
    BY <1>2 DEF WriteMessage, BoxesInv, PlacesInv, KindsKnown, MessagesFit
  <2>2. FsInv' /\ OnlyOffset(fh[s])
    BY <1>2, <2>1, WriteFs DEF WriteMessage, BoxesInv
  <2>3. PICK label \in {"write_close", "write_failed"} : Goto(s, label)
    BY <1>2 DEF WriteMessage
  <2>4. UNCHANGED <<box, fh, kind, msg, MAX_SESSIONS>>
    BY <1>2 DEF WriteMessage
  <2>5. HandlesInv' /\ OthersKeep(s)
    BY <2>2, <2>4, OffsetHandles, SessionIsThread
  <2>6. fh' \in [Threads -> Handles \cup {-1}]
    BY <2>4 DEF BoxesInv, PlacesInv, ThreadsTyped
  <2>7. PlacesInv'
    BY <2>1, <2>3, <2>4, <2>5, <2>6, ThreadMoves, SessionIsThread DEF BoxesInv, Holding, Labels
  <2> QED BY <2>2, <2>5, <2>7 DEF BoxesInv
<1>3. CASE WriteClose(s)
  <2>1. PICK label \in {"check_open", "probe"} : CloseMoves(s, label)
    BY <1>3 DEF WriteClose, CloseMoves
  <2>2. pc[s] \in {"write_close", "write_failed", "check_close"}
    BY <1>3 DEF WriteClose
  <2> QED BY <2>1, <2>2, CloseStep, SessionIsThread DEF Labels
<1> QED BY <1>1, <1>2, <1>3

\* The message read back.
LEMMA CheckStep ==
  ASSUME BoxesInv, NEW s \in Sessions, CheckOpen(s) \/ CheckRead(s)
  PROVE  BoxesInv'
<1>1. CASE CheckOpen(s)
  <2>1. OpenMoves(s, {}, "check_read") /\ pc[s] = "check_open"
    BY <1>1 DEF CheckOpen, OpenMoves
  <2> QED BY <2>1, OpenStep, SessionIsThread DEF Holding, Labels
<1>2. CASE CheckRead(s)
  <2>1. pc[s] = "check_read" /\ Len(msg[s]) \in Nat
    BY <1>2 DEF CheckRead, BoxesInv, PlacesInv, ThreadsTyped
  <2>2. IsOpen(fh[s]) => open_file_table[fh[s]].of_offset = 0
    BY <2>1, SizesAssumption DEF IsOpen, Handles, BoxesInv, PlacesInv, ReadsFromStart
  <2>3. FsInv' /\ OnlyOffset(fh[s])
    BY <1>2, <2>1, <2>2, ReadFs DEF CheckRead, BoxesInv
  <2>4. Goto(s, "check_close") /\ UNCHANGED <<box, fh, kind, msg, MAX_SESSIONS>>
    BY <1>2 DEF CheckRead
  <2>5. HandlesInv' /\ OthersKeep(s)
    BY <2>3, <2>4, OffsetHandles, SessionIsThread
  <2>6. fh' \in [Threads -> Handles \cup {-1}]
    BY <2>4 DEF BoxesInv, PlacesInv, ThreadsTyped
  <2>7. PlacesInv'
    BY <2>1, <2>4, <2>5, <2>6, ThreadMoves, SessionIsThread DEF BoxesInv, Holding, Labels
  <2> QED BY <2>3, <2>5, <2>7 DEF BoxesInv
<1> QED BY <1>1, <1>2

\* The bytes read over the old message are no longer than the longer of the two.
LEMMA OverlayFits ==
  ASSUME NEW S, NEW new \in Seq(S), NEW old \in Seq(S), NEW n \in Nat,
         Len(new) <= n, Len(old) <= n
  PROVE  Overlay(new, old) \in Seq(S) /\ Len(Overlay(new, old)) <= n
<1> DEFINE rest == SubSeq(old, Len(new) + 1, Len(old))
<1>1. rest \in Seq(S) /\ Len(rest) = IF Len(new) < Len(old) THEN Len(old) - Len(new) ELSE 0
  OBVIOUS
<1>2. new \o rest \in Seq(S) /\ Len(new \o rest) = Len(new) + Len(rest)
  <2> HIDE DEF rest
  <2> QED BY <1>1
<1> QED BY <1>1, <1>2 DEF Overlay

\* read_box: the handle is left behind, and the message stays within its buffer.
LEMMA ReadBoxStep ==
  ASSUME BoxesInv, NEW s \in Sessions, ReadBox(s)
  PROVE  BoxesInv'
<1>1. pc[s] = "read" /\ kind[s] = "sub" /\ s \in Threads /\ s # Main
  BY SessionIsThread DEF ReadBox, BoxesInv, PlacesInv, KindsKnown
<1>2. IsOpen(fh[s]) => open_file_table[fh[s]].of_offset = 0
  BY <1>1, SizesAssumption DEF IsOpen, Handles, BoxesInv, PlacesInv, ReadsFromStart
<1>3. MESSAGE_SIZE \in Nat
  BY BoxesAssumption
<1>4. FsInv' /\ OnlyOffset(fh[s]) /\ Len(buf') <= MESSAGE_SIZE
  BY <1>2, <1>3, ReadFs DEF ReadBox, BoxesInv
<1>5. /\ pc' = [pc EXCEPT ![s] = "probe"]
      /\ fh' = [fh EXCEPT ![s] = -1]
      /\ msg' = [msg EXCEPT ![s] = Overlay(buf', msg[s])]
      /\ UNCHANGED <<box, kind, MAX_SESSIONS>>
  BY DEF ReadBox, Goto
<1>6. Overlay(buf', msg[s]) \in Seq(Bytes \cup {Garbage}) /\ Len(Overlay(buf', msg[s])) <= MESSAGE_SIZE
  <2>1. buf' \in Seq(Bytes \cup {Garbage})
    BY <1>4 DEF FsInv, TypeOK
  <2>2. msg[s] \in Seq(Bytes \cup {Garbage}) /\ Len(msg[s]) <= MESSAGE_SIZE
    BY DEF BoxesInv, PlacesInv, ThreadsTyped, MessagesFit
  <2> QED BY <1>3, <1>4, <2>1, <2>2, OverlayFits
<1>7. /\ pc' \in [Threads -> Labels] /\ pc'[s] = "probe"
      /\ \A t \in Threads \ {s} : pc'[t] = pc[t]
  BY <1>1, <1>5 DEF BoxesInv, PlacesInv, ThreadsTyped, Labels
<1>8. /\ fh' \in [Threads -> Handles \cup {-1}] /\ fh'[s] = -1
      /\ \A t \in Threads \ {s} : fh'[t] = fh[t]
  BY <1>1, <1>5 DEF BoxesInv, PlacesInv, ThreadsTyped
<1>9. /\ msg' \in [Sessions -> Seq(Bytes \cup {Garbage})] /\ Len(msg'[s]) <= MESSAGE_SIZE
      /\ \A t \in Sessions \ {s} : msg'[t] = msg[t]
  <2>1. msg \in [Sessions -> Seq(Bytes \cup {Garbage})]
    BY DEF BoxesInv, PlacesInv, ThreadsTyped
  <2> QED BY <1>5, <1>6, <2>1
<1>10. HandlesInv'
  <2>1. HandlesPrivate'
    BY <1>4, <1>8 DEF BoxesInv, HandlesInv, HandlesPrivate, OnlyOffset, IsOpen
  <2>2. OnlySubscribersLeak'
    BY <1>1, <1>5 DEF OnlySubscribersLeak
  <2> QED BY <2>1, <2>2 DEF HandlesInv
<1>11. ThreadsTyped' /\ HandlesHeld' /\ MessagesFit'
  BY <1>1, <1>5, <1>7, <1>8, <1>9
  DEF BoxesInv, PlacesInv, ThreadsTyped, HandlesHeld, MessagesFit
<1>12. ReadsFromStart'
  <2> SUFFICES ASSUME NEW t \in Sessions \ {s}, pc[t] \in {"check_read", "read"}, fh[t] # -1
               PROVE  open_file_table'[fh[t]].of_offset = 0
    BY <1>7, <1>8, SessionIsThread DEF ReadsFromStart
  <2>1. fh[t] \in Handles /\ fh[t] # fh[s]
    BY <1>1, SessionIsThread DEF BoxesInv, HandlesInv, HandlesPrivate, PlacesInv, ThreadsTyped
  <2> QED BY <1>4, <2>1 DEF OnlyOffset, BoxesInv, PlacesInv, ReadsFromStart
<1>13. Unstarted' /\ KindsKnown'
  BY <1>1, <1>5, <1>7, <1>9, SessionIsThread
  DEF BoxesInv, PlacesInv, Unstarted, KindsKnown
<1>14. BoxesKnown' /\ SessionGranted'
  BY <1>1, <1>5, <1>7, MainIsThread, SessionIsThread
  DEF BoxesInv, PlacesInv, BoxesKnown, SessionGranted
<1> QED BY <1>4, <1>10, <1>11, <1>12, <1>13, <1>14 DEF BoxesInv, PlacesInv

\* read_box, with its opening.
LEMMA SubscriberStep ==
  ASSUME BoxesInv, NEW s \in Sessions, ReadOpen(s) \/ ReadBox(s)
  PROVE  BoxesInv'
<1>1. CASE ReadOpen(s)
  <2>1. PICK label \in {"read", "probe"} :
          OpenMoves(s, {}, label) /\ (ret' # -1 => label = "read")
    BY <1>1 DEF ReadOpen, OpenMoves
  <2>2. pc[s] = "work" /\ kind[s] = "sub"
    BY <1>1 DEF ReadOpen
  <2> QED BY <2>1, <2>2, OpenStep, SessionIsThread DEF Holding, Labels
<1> QED BY <1>1, ReadBoxStep

\* A message arrives from a publisher's FIFO.
LEMMA ReceiveStep ==
  ASSUME BoxesInv, NEW s \in Sessions, NEW m \in Published(s), Receive(s, m)
  PROVE  BoxesInv'
<1>1. /\ pc[s] = "work" /\ kind[s] = "pub" /\ fh[s] = -1 /\ s \in Threads /\ s # Main
  BY SessionIsThread DEF Receive, BoxesInv, PlacesInv, HandlesHeld, Holding
<1>2. m \in Seq(Bytes) /\ Len(m) <= MESSAGE_SIZE
  <2>1. PICK b \in Names : m = <<>> \/ m = <<b>>
    BY <1>1, <1>1 DEF Published, Messages, BoxesInv, PlacesInv, BoxesKnown
  <2>2. b \in Bytes /\ MESSAGE_SIZE \in Nat \ {0}
    BY <2>1, BoxesAssumption
  <2>3. CASE m = <<>>
    BY <2>2, <2>3
  <2>4. CASE m = <<b>>
    BY <2>2, <2>4
  <2> QED BY <2>1, <2>3, <2>4
<1>3. /\ pc' = [pc EXCEPT ![s] = "write_open"] /\ msg' = [msg EXCEPT ![s] = m]
      /\ UNCHANGED <<vars, box, fh, kind, MAX_SESSIONS>>
  BY DEF Receive, Goto
<1>4. /\ pc' \in [Threads -> Labels] /\ pc'[s] = "write_open"
      /\ \A t \in Threads \ {s} : pc'[t] = pc[t]
  BY <1>1, <1>3 DEF BoxesInv, PlacesInv, ThreadsTyped, Labels
<1>5. /\ msg' \in [Sessions -> Seq(Bytes \cup {Garbage})] /\ msg'[s] = m
      /\ \A t \in Sessions \ {s} : msg'[t] = msg[t]
  <2>1. m \in Seq(Bytes \cup {Garbage})
    BY <1>2
  <2>2. msg \in [Sessions -> Seq(Bytes \cup {Garbage})]
    BY DEF BoxesInv, PlacesInv, ThreadsTyped
  <2> QED BY <1>3, <2>1, <2>2
<1>6. FsInv' /\ HandlesInv'
  BY <1>3, FsUntouched, HandlesUntouched DEF vars
<1>7. ThreadsTyped' /\ HandlesHeld'
  BY <1>1, <1>3, <1>4, <1>5 DEF BoxesInv, PlacesInv, ThreadsTyped, HandlesHeld
<1>8. ReadsFromStart' /\ KindsKnown'
  BY <1>1, <1>3, <1>4, SessionIsThread
  DEF BoxesInv, PlacesInv, ReadsFromStart, KindsKnown, vars, fileVars
<1>9. MessagesFit'
  BY <1>2, <1>3, <1>5 DEF BoxesInv, PlacesInv, MessagesFit
<1>10. Unstarted'
  BY <1>1, <1>3, <1>4, <1>5, SessionIsThread DEF BoxesInv, PlacesInv, Unstarted
<1>11. BoxesKnown' /\ SessionGranted'
  BY <1>1, <1>3, <1>4, MainIsThread, SessionIsThread
  DEF BoxesInv, PlacesInv, BoxesKnown, SessionGranted
<1> QED BY <1>6, <1>7, <1>8, <1>9, <1>10, <1>11 DEF BoxesInv, PlacesInv

\* The frame of pthreads_add is reused under a thread.
LEMMA FrameStep ==
  ASSUME BoxesInv, NEW s \in Sessions, NEW b \in Names \cup {NoName}, FrameReused(s, b)
  PROVE  BoxesInv'
<1>1. /\ ArgsLost /\ box' = [box EXCEPT ![s] = b]
      /\ UNCHANGED <<vars, pc, fh, kind, msg, MAX_SESSIONS>>
  BY DEF FrameReused
<1>2. box' \in [Threads -> Names \cup {NoName}] /\ box'[Main] = box[Main]
  BY <1>1, SessionIsThread, MainIsThread DEF BoxesInv, PlacesInv, ThreadsTyped
<1>3. FsInv' /\ HandlesInv'
  BY <1>1, FsUntouched, HandlesUntouched DEF vars
<1>4. ThreadsTyped' /\ BoxesKnown'
  BY <1>1, <1>2 DEF BoxesInv, PlacesInv, ThreadsTyped, BoxesKnown
<1>5. HandlesHeld' /\ ReadsFromStart' /\ Unstarted' /\ MessagesFit' /\ KindsKnown' /\ SessionGranted'
  BY <1>1 DEF BoxesInv, PlacesInv, HandlesHeld, ReadsFromStart, Unstarted, MessagesFit,
              KindsKnown, SessionGranted, vars, fileVars
<1> QED BY <1>3, <1>4, <1>5 DEF BoxesInv, PlacesInv

\* Nothing happens.
LEMMA StutterStep == ASSUME BoxesInv, UNCHANGED allVars PROVE BoxesInv'
<1>1. FsInv' /\ HandlesInv'
  BY FsUntouched, HandlesUntouched DEF allVars, threadVars, vars
<1>2. PlacesInv'
  BY DEF BoxesInv, PlacesInv, ThreadsTyped, HandlesHeld, ReadsFromStart, Unstarted, MessagesFit,
         KindsKnown, BoxesKnown, SessionGranted, allVars, threadVars, vars, fileVars
<1> QED BY <1>1, <1>2 DEF BoxesInv

\* A thread of a session, wherever it is.
LEMMA SessionStepKeeps ==
  ASSUME BoxesInv, NEW s \in Sessions, SessionStep(s)
  PROVE  BoxesInv'
  BY ProbeStep, WriteStep, CheckStep, SubscriberStep DEF SessionStep

\* The main thread, wherever it is.
LEMMA MainStepKeeps == ASSUME BoxesInv, MainStep PROVE BoxesInv'
  BY CreateStep, RemoveStep, SessionRequestStep, SessionStartStep DEF MainStep

\* Every step of the broker.
LEMMA BoxesStep == ASSUME BoxesInv, [BoxesNext]_allVars PROVE BoxesInv'
<1>1. CASE \E op \in {"create", "remove", "pub", "sub"}, b \in Names : Request(op, b)
  BY <1>1, RequestStep
<1>2. CASE MainStep
  BY <1>2, MainStepKeeps
<1>3. CASE Receives
  BY <1>3, ReceiveStep DEF Receives
<1>4. CASE FramesReused
  BY <1>4, FrameStep DEF FramesReused
<1>5. CASE \E s \in Sessions : SessionStep(s)
  BY <1>5, SessionStepKeeps
<1>6. CASE UNCHANGED allVars
  BY <1>6, StutterStep
<1> QED BY <1>1, <1>2, <1>3, <1>4, <1>5, <1>6 DEF BoxesNext

\* The broker before its first request.
LEMMA InitBoxes == BoxesInit => BoxesInv
<1> SUFFICES ASSUME BoxesInit PROVE BoxesInv
  OBVIOUS
<1>1. FsInv
  BY InitFs DEF BoxesInit
<1>2. ThreadsTyped /\ MessagesFit
  <2>1. <<>> \in Seq(Bytes) /\ <<>> \in Seq(Bytes \cup {Garbage}) /\ Len(<<>>) = 0
    OBVIOUS
  <2> QED BY <2>1, BoxesAssumption DEF BoxesInit, ThreadsTyped, MessagesFit, Labels
<1>3. HandlesHeld /\ ReadsFromStart /\ KindsKnown
  BY SessionIsThread DEF BoxesInit, HandlesHeld, ReadsFromStart, KindsKnown
<1>4. Unstarted /\ BoxesKnown /\ SessionGranted
  BY SessionIsThread, MainIsThread DEF BoxesInit, Unstarted, BoxesKnown, SessionGranted
<1>5. HandlesPrivate
  BY DEF BoxesInit, HandlesPrivate
<1>6. OnlySubscribersLeak
  BY DEF BoxesInit, Init, OnlySubscribersLeak, IsOpen, AllFree
<1> QED BY <1>1, <1>2, <1>3, <1>4, <1>5, <1>6 DEF BoxesInv, PlacesInv, HandlesInv

(***************************************************************************)
(* The theorems.                                                           *)
(***************************************************************************)

\* Whatever clients ask, the inductive invariant holds of the broker.
LEMMA BoxesInvariant == BoxesSpec => []BoxesInv
<1>1. BoxesInv /\ [BoxesNext]_allVars => BoxesInv'
  BY BoxesStep
<1> QED BY InitBoxes, <1>1, PTL DEF BoxesSpec

\* The variables of the file system and of the broker's threads are typed, and
\* a subscriber's message never outgrows the buffer of sub_thr_func
\* (mbroker/sessions.c).
THEOREM BoxesTypeCorrect == BoxesSpec => []BoxesTypeOK
<1>1. BoxesInv => BoxesTypeOK
  BY DEF BoxesInv, FsInv, PlacesInv, ThreadsTyped, MessagesFit, BoxesTypeOK
<1> QED BY BoxesInvariant, <1>1, PTL

\* No thread of the broker ever works through a handle of another, or through
\* one that is closed (mbroker/boxes.c).
THEOREM HandlesAlwaysPrivate == BoxesSpec => []HandlesPrivate
<1>1. BoxesInv => HandlesPrivate
  BY DEF BoxesInv, HandlesInv
<1> QED BY BoxesInvariant, <1>1, PTL

\* Only read_box (mbroker/boxes.c) leaves handles open.
THEOREM HandlesAlwaysGivenBack == BoxesSpec => []HandlesGivenBack
<1>1. BoxesInv => HandlesGivenBack
  BY DEF BoxesInv, HandlesInv, OnlySubscribersLeak, HandlesGivenBack
<1> QED BY BoxesInvariant, <1>1, PTL

\* No interleaving of requests and sessions reaches a failed assertion of the
\* file system (fs/state.c), whatever is removed while it is in use.
THEOREM BrokerAlwaysSurvives == BoxesSpec => []BrokerSurvives
<1>1. BoxesInv => BrokerSurvives
  BY DEF BoxesInv, FsInv, BrokerSurvives
<1> QED BY BoxesInvariant, <1>1, PTL

\* The clients of PoliteSpec ask for nothing that BoxesSpec does not allow.
LEMMA PoliteRefinesBoxes == PoliteSpec => BoxesSpec
<1>1. [PoliteNext]_allVars => [BoxesNext]_allVars
  BY BoxesAssumption DEF PoliteNext, PoliteRequest, BoxesNext
<1> QED BY <1>1, PTL DEF PoliteSpec, BoxesSpec

(***************************************************************************)
(* The messages, when clients are polite and every thread keeps its        *)
(* arguments.                                                              *)
(***************************************************************************)

\* The name leads to the inode.
Leads(b, i) == \E e \in DirSlots : EntryMatches(e, b) /\ dir_entry[e].d_inumber = i

FileSize(i) == inode_table[i].i_size
FileByte(i, o) == fs_data[inode_table[i].i_data_block][o]

\* The message is the beginning of the file.
Begins(m, i) == Len(m) <= FileSize(i) /\ \A k \in 1 .. Len(m) : m[k] = FileByte(i, k - 1)

\* A publisher's thread is at the end of its own box when it writes.
AtEndOfBox(s) ==
  LET entry == open_file_table[fh[s]]
  IN  /\ fh[s] # -1 /\ Leads(box[s], entry.of_inumber)
      /\ entry.of_offset = FileSize(entry.of_inumber)

\* A subscriber's thread reads its own box, if that is still there.
ReadsOwnBox(s) ==
  fh[s] # -1 /\ \A i : Leads(box[s], i) => i = open_file_table[fh[s]].of_inumber

\* What a session thread knows of its box, where it is.
SessionGood(s) ==
  /\ pc[s] = "unused" => ant_msg[s] = <<>>
  /\ pc[s] # "unused" => kind[s] \in {"pub", "sub"}
  /\ pc[s] \in {"write_open", "write"} => msg[s] \in Messages(box[s])
  /\ pc[s] = "write" => AtEndOfBox(s)
  /\ pc[s] = "read" => ReadsOwnBox(s)
  /\ Running(s) /\ kind[s] = "sub" =>
       \A i : Leads(box[s], i) => Begins(msg[s], i) /\ Begins(ant_msg[s], i)

\* A running publisher has its box for itself.
OnePublisher ==
  \A s, u \in Sessions :
    Running(s) /\ Running(u) /\ kind[s] = "pub" /\ kind[u] = "pub" /\ box[s] = box[u] => s = u

\* What was true of the box when the request came still is.
RequestPolite ==
  /\ pc[Main] \in {"session", "session_probed", "session_start"} =>
       kind[Main] \in {"pub", "sub"} /\ (kind[Main] = "pub" => ~HasPublisher(box[Main]))
  /\ pc[Main] \in {"remove_open", "remove_close", "remove_unlink"} => ~HasPublisher(box[Main])
  /\ pc[Main] \in {"create_probe", "create_probed", "create_open"} =>
       BoxExists(box[Main]) \/ ~InUse(box[Main])

OwnBytes == \A b, i : Leads(b, i) => \A o \in 0 .. FileSize(i) - 1 : FileByte(i, o) = b

SentTyped == ant_msg \in [Sessions -> Seq(Bytes \cup {Garbage})]

\* What a box holds and what was sent of it rest on who uses the box and from where.
PoliteInv ==
  /\ \A s \in Sessions : SessionGood(s)
  /\ OnePublisher /\ RequestPolite /\ OwnBytes /\ SentTyped

MessagesInv == BoxesInv /\ PoliteInv

(***************************************************************************)
(* What the calls do to the files, by name.                                *)
(***************************************************************************)

\* A step that leaves the names and the files as they are.
Still == UNCHANGED <<inode_table, dir_entry, fs_data>>

\* The file keeps what it holds.
Grown(i) ==
  /\ FileSize(i)' >= FileSize(i)
  /\ \A o \in 0 .. FileSize(i) - 1 : FileByte(i, o)' = FileByte(i, o)

Same(i) == FileSize(i)' = FileSize(i) /\ Grown(i)

\* A name leads to an inode, whose size is one of a block.
LEMMA NamedInode ==
  ASSUME TypeOK, NEW b, NEW i, Leads(b, i)
  PROVE  i \in Inumbers /\ FileSize(i) \in 0 .. BLOCK_SIZE /\ FileSize(i) \in Int
<1>1. i \in Inumbers
  BY DEF Leads, EntryMatches, TypeOK, DirEntry
<1> QED BY <1>1, SizesAssumption DEF FileSize, TypeOK, Inode

\* Names, inodes and blocks belong together.
LEMMA NamesApart ==
  ASSUME FsInv, NEW b, NEW i, Leads(b, i)
  PROVE  /\ i # ROOT_DIR_INUM /\ Live(i)
         /\ \A j : Leads(b, j) => j = i
         /\ \A c : Leads(c, i) => c = b
  BY DEF FsInv, TablesInv, DirectoryConsistent, Leads, EntryMatches, Used

\* A step that leaves names and files alone leaves alone what they say.
LEMMA StillNames ==
  ASSUME FsInv, Still
  PROVE  /\ \A b, i : Leads(b, i)' <=> Leads(b, i)
         /\ \A b, i : Leads(b, i) => Same(i)
<1>1. \A b, i : Leads(b, i)' <=> Leads(b, i)
  BY DEF Still, Leads, EntryMatches
<1>2. ASSUME NEW b, NEW i, Leads(b, i) PROVE Same(i)
  <2>1. FileSize(i) \in Int
    BY <1>2, NamedInode DEF FsInv
  <2> QED BY <2>1 DEF Still, Same, Grown, FileSize, FileByte
<1> QED BY <1>1, <1>2

\* A box exists when its name leads somewhere.
LEMMA ExistsNamed == \A b : BoxExists(b) <=> \E i : Leads(b, i)
  BY DEF BoxExists, NotInDir, Leads

\* tfs_open that neither creates nor truncates.
LEMMA OpenNamed ==
  ASSUME FsInv, NEW name, NEW mode, "CREAT" \notin mode, "TRUNC" \notin mode, TfsOpen(name, mode)
  PROVE  /\ Still
         /\ ret' # -1 =>
              LET entry == open_file_table'[ret']
              IN  /\ Leads(name, entry.of_inumber)
                  /\ entry.of_offset = InitialOffset(FileSize(entry.of_inumber), mode)
         /\ ret' = -1 => name \in BadPaths \/ NotInDir(name) \/ NoneFree(free_open_file_entries)
<1>1. CASE OpenFails(name, mode)
  BY <1>1 DEF OpenFails, FailCall, Still, inodeVars, blockVars
<1>2. ASSUME NEW e \in DirSlots, OpenFound(e, name, mode)
      PROVE  /\ Still
             /\ ret' # -1 =>
                  /\ Leads(name, open_file_table'[ret'].of_inumber)
                  /\ open_file_table'[ret'].of_offset =
                       InitialOffset(FileSize(open_file_table'[ret'].of_inumber), mode)
             /\ ret' = -1 => NoneFree(free_open_file_entries)
  <2>1. Still
    BY <1>2 DEF OpenFound, Truncate, Still
  <2>2. PICK inum : inum = dir_entry[e].d_inumber
    OBVIOUS
  <2>3. Leads(name, inum)
    BY <1>2, <2>2 DEF OpenFound, FindInDir, Leads
  <2>4. AddToOpenFileTable(inum, InitialOffset(FileSize(inum), mode))
    BY <1>2, <2>1, <2>2 DEF OpenFound, Still, FileSize
  <2>5. PICK off : off = InitialOffset(FileSize(inum), mode)
    OBVIOUS
  <2>6. ASSUME NEW h \in Handles, ret' = h,
               open_file_table' = [open_file_table EXCEPT ![h] =
                                     [of_inumber |-> inum, of_offset |-> off]]
        PROVE  open_file_table'[ret'].of_inumber = inum /\ open_file_table'[ret'].of_offset = off
    BY <2>6 DEF FsInv, TypeOK
  <2>7. CASE ret' = -1
    <3>1. \A h \in Handles : h # -1
      BY SizesAssumption DEF Handles
    <3> QED BY <2>1, <2>4, <2>7, <3>1 DEF AddToOpenFileTable
  <2>8. CASE ret' # -1
    BY <2>1, <2>3, <2>4, <2>5, <2>6, <2>8 DEF AddToOpenFileTable
  <2> QED BY <2>7, <2>8
<1>3. ~OpenCreates(name, mode)
  BY DEF OpenCreates
<1> QED BY <1>1, <1>2, <1>3 DEF TfsOpen

\* tfs_open that creates the file, or finds it.
LEMMA CreateNamed ==
  ASSUME FsInv, NEW name, TfsOpen(name, {"CREAT"})
  PROVE  /\ \A b, i : Leads(b, i) => Leads(b, i)' /\ Same(i)
         /\ \A b, i : Leads(b, i)' /\ ~Leads(b, i) =>
              b = name /\ NotInDir(name) /\ FileSize(i)' = 0
<1>1. CASE Still
  BY <1>1, StillNames
<1>2. ASSUME NEW inum \in Inumbers, ~Live(inum), inode_table' = [inode_table EXCEPT ![inum] = NewFileInode],
             UNCHANGED fs_data, NEW b, NEW i, Leads(b, i)
      PROVE  Same(i)
  <2>1. i # inum /\ i \in Inumbers /\ FileSize(i) \in Int
    BY <1>2, NamesApart, NamedInode DEF FsInv
  <2>2. inode_table'[i] = inode_table[i]
    BY <1>2, <2>1 DEF FsInv, TypeOK
  <2> QED BY <1>2, <2>1, <2>2 DEF Same, Grown, FileSize, FileByte
<1>3. ASSUME NotInDir(name), NEW inum \in Inumbers, IsFirstFree(freeinode_ts, inum), UNCHANGED dir_entry,
             inode_table' = [inode_table EXCEPT ![inum] = NewFileInode], UNCHANGED fs_data
      PROVE  \A b, i : (Leads(b, i)' <=> Leads(b, i)) /\ (Leads(b, i) => Same(i))
  <2>1. ~Live(inum)
    BY <1>3 DEF IsFirstFree, Live
  <2> QED BY <1>2, <1>3, <2>1 DEF Leads, EntryMatches
<1>4. ASSUME NotInDir(name), NEW inum \in Inumbers, InodeCreateFile(inum), AddDirEntry(name, inum),
             UNCHANGED fs_data
      PROVE  /\ \A b, i : Leads(b, i) => Leads(b, i)' /\ Same(i)
             /\ \A b, i : Leads(b, i)' /\ ~Leads(b, i) => b = name /\ FileSize(i)' = 0
  <2>1. ~Live(inum) /\ inode_table' = [inode_table EXCEPT ![inum] = NewFileInode]
    BY <1>4 DEF InodeCreateFile, IsFirstFree, Live
  <2>2. PICK e \in DirSlots :
          /\ dir_entry[e].d_inumber = -1
          /\ dir_entry' = [dir_entry EXCEPT ![e] = [d_name |-> name, d_inumber |-> inum]]
    BY <1>4 DEF AddDirEntry
  <2>3. /\ dir_entry'[e].d_name = name /\ dir_entry'[e].d_inumber = inum
        /\ \A f \in DirSlots \ {e} : dir_entry'[f] = dir_entry[f]
    BY <2>2 DEF FsInv, TypeOK
  <2>4. FileSize(inum)' = 0
    BY <2>1 DEF FileSize, NewFileInode, FsInv, TypeOK
  <2>5. \A b, i : Leads(b, i) => Leads(b, i)'
    BY <2>2, <2>3 DEF Leads, EntryMatches
  <2>6. \A b, i : Leads(b, i)' /\ ~Leads(b, i) => b = name /\ i = inum
    BY <2>2, <2>3 DEF Leads, EntryMatches
  <2> QED BY <1>2, <1>4, <2>1, <2>4, <2>5, <2>6
<1>5. OpenFails(name, {"CREAT"}) \/ (\E e \in DirSlots : OpenFound(e, name, {"CREAT"})) => Still
  BY DEF OpenFails, OpenFound, FailCall, Truncate, Still, inodeVars, blockVars
<1>6. CASE OpenCreates(name, {"CREAT"})
  <2>1. NotInDir(name)
    BY <1>6 DEF OpenCreates
  <2>2. CASE FailCall
    BY <1>1, <2>2 DEF FailCall, Still, inodeVars, blockVars
  <2> QED BY <1>3, <1>4, <1>6, <2>1, <2>2 DEF OpenCreates, blockVars
<1> QED BY <1>1, <1>5, <1>6 DEF TfsOpen

\* tfs_unlink takes away one name.
LEMMA UnlinkNamed ==
  ASSUME FsInv, NEW name, TfsUnlink(name)
  PROVE  /\ \A b, i : Leads(b, i)' => Leads(b, i)
         /\ \A b, i : Leads(b, i) /\ b # name => Leads(b, i)'
         /\ \A b, i : Leads(b, i) => Same(i)
<1>1. CASE FailCall
  BY <1>1, StillNames DEF FailCall, Still, inodeVars, blockVars
<1>2. ASSUME NEW e \in DirSlots, UnlinkFound(e, name)
      PROVE  /\ \A b, i : Leads(b, i)' => Leads(b, i)
             /\ \A b, i : Leads(b, i) /\ b # name => Leads(b, i)'
             /\ \A b, i : Leads(b, i) => Same(i)
  <2>1. /\ dir_entry'[e].d_inumber = -1 /\ EntryMatches(e, name)
        /\ \A f \in DirSlots \ {e} : dir_entry'[f] = dir_entry[f]
    BY <1>2, ClearsFound DEF UnlinkFound, FindInDir, FsInv, TablesInv
  <2>2. UNCHANGED <<inode_table, fs_data>>
    BY <1>2 DEF UnlinkFound, InodeDelete
  <2>3. ASSUME NEW b, NEW i, Leads(b, i) PROVE Same(i)
    <3>1. FileSize(i) \in Int
      BY <2>3, NamedInode DEF FsInv
    <3> QED BY <2>2, <3>1 DEF Same, Grown, FileSize, FileByte
  <2> QED BY <2>1, <2>3 DEF Leads, EntryMatches
<1> QED BY <1>1, <1>2 DEF TfsUnlink

\* The step adds bytes of the data to the file and leaves the others alone.
Appends(i, data) ==
  /\ UNCHANGED dir_entry
  /\ \A b, j : Leads(b, j) /\ j # i => Same(j)
  /\ Grown(i)
  /\ \A o \in FileSize(i) .. FileSize(i)' - 1 : \E k \in 1 .. Len(data) : FileByte(i, o)' = data[k]

\* tfs_write at the end of a file.
LEMMA WriteNamed ==
  ASSUME FsInv, NEW h, IsOpen(h), NEW data \in Seq(Bytes), TfsWrite(h, data),
         NEW i, i = open_file_table[h].of_inumber, NEW name, Leads(name, i),
         open_file_table[h].of_offset = FileSize(i)
  PROVE  Appends(i, data)
<1>1. i \in Inumbers /\ FileSize(i) \in 0 .. BLOCK_SIZE /\ Live(i)
  BY NamedInode, NamesApart DEF FsInv
<1>2. CASE Still
  <2>1. Same(i) /\ \A b, j : Leads(b, j) => Same(j)
    BY <1>2, StillNames
  <2>2. ~(\E o \in FileSize(i) .. FileSize(i)' - 1 : TRUE)
    BY <1>1, <2>1, SizesAssumption DEF Same
  <2> QED BY <1>2, <2>1, <2>2 DEF Still, Same, Appends
<1>3. CASE WriteBytes(h, data)
  <2>1. PICK n : n = ToWrite(FileSize(i), Len(data))
    OBVIOUS
  <2>2. n \in Nat /\ n <= Len(data) /\ FileSize(i) + n <= BLOCK_SIZE /\ n > 0
    <3>1. n > 0
      BY <1>3, <2>1 DEF WriteBytes
    <3> QED BY <1>1, <2>1, <3>1, ToWriteFits
  <2>3. PICK blk \in Blocks :
          /\ Memcpy(blk, FileSize(i), data, n)
          /\ inode_table' = [inode_table EXCEPT ![i].i_data_block = blk,
                                                ![i].i_size = GrownSize(FileSize(i), FileSize(i) + n)]
          /\ \/ FileSize(i) > 0 /\ blk = inode_table[i].i_data_block
             \/ FileSize(i) = 0 /\ free_blocks[blk] = "FREE"
    <3>1. FileSize(i) > 0 => inode_table[i].i_data_block \in Blocks
      BY <1>1 DEF FsInv, TablesInv, BlocksExclusive, FileSize
    <3> QED BY <1>3, <2>1, <3>1 DEF WriteBytes, FileSize, IsFirstFree
  <2>4. GrownSize(FileSize(i), FileSize(i) + n) = FileSize(i) + n
    BY <1>1, <2>2, SizesAssumption DEF GrownSize
  <2>5. /\ inode_table'[i].i_size = FileSize(i) + n /\ inode_table'[i].i_data_block = blk
        /\ \A j \in Inumbers \ {i} : inode_table'[j] = inode_table[j]
    <3>1. inode_table[i] \in Inode /\ inode_table \in [Inumbers -> Inode]
      BY <1>1 DEF FsInv, TypeOK
    <3>2. PICK end : end = FileSize(i) + n
      OBVIOUS
    <3>3. inode_table' = [inode_table EXCEPT ![i].i_data_block = blk, ![i].i_size = end]
      BY <2>3, <2>4, <3>2
    <3>4. inode_table'[i].i_size = end /\ inode_table'[i].i_data_block = blk
      BY <1>1, <3>1, <3>3 DEF Inode
    <3> QED BY <1>1, <3>1, <3>2, <3>3, <3>4
  <2>6. /\ \A o \in Offsets : fs_data'[blk][o] =
             IF FileSize(i) <= o /\ o < FileSize(i) + n THEN data[o - FileSize(i) + 1] ELSE fs_data[blk][o]
        /\ \A c \in Blocks \ {blk} : fs_data'[c] = fs_data[c]
    <3>1. fs_data \in [Blocks -> [Offsets -> Bytes \cup {Garbage}]]
      BY DEF FsInv, TypeOK
    <3> QED BY <2>3, <3>1 DEF Memcpy
  <2>7. UNCHANGED dir_entry
    BY <1>3 DEF WriteBytes
  <2>8. ASSUME NEW b, NEW j, Leads(b, j), j # i PROVE Same(j)
    <3>1. j \in Inumbers /\ Live(j) /\ FileSize(j) \in Int
      BY <2>8, NamedInode, NamesApart DEF FsInv
    <3>2. FileSize(j)' = FileSize(j) /\ inode_table'[j].i_data_block = inode_table[j].i_data_block
      BY <2>5, <2>8, <3>1 DEF FileSize
    <3>3. CASE FileSize(j) > 0
      <4>1. PICK c : c = inode_table[j].i_data_block
        OBVIOUS
      <4>2. c \in Blocks /\ free_blocks[c] = "TAKEN"
        BY <3>1, <3>3, <4>1 DEF FsInv, TablesInv, BlocksExclusive, FileSize
      <4>3. c # blk
        <5>1. FileSize(i) > 0 => inode_table[i].i_data_block # c
          BY <1>1, <2>8, <3>1, <3>3, <4>1 DEF FsInv, TablesInv, BlocksExclusive, Owns, FileSize
        <5> QED BY <2>3, <4>2, <5>1
      <4> QED BY <2>6, <3>1, <3>2, <4>1, <4>2, <4>3 DEF Same, Grown, FileByte
    <3>4. CASE ~(FileSize(j) > 0)
      BY <3>1, <3>2, <3>4 DEF Same, Grown
    <3> QED BY <3>3, <3>4
  <2>9. \A o \in 0 .. BLOCK_SIZE - 1 : FileByte(i, o)' = fs_data'[blk][o] /\ o \in Offsets
    BY <2>5 DEF FileByte, Offsets
  <2>10. ASSUME NEW o \in 0 .. FileSize(i) - 1 PROVE FileByte(i, o)' = FileByte(i, o)
    <3>1. FileSize(i) > 0 /\ o \in 0 .. BLOCK_SIZE - 1 /\ o < FileSize(i) /\ FileSize(i) \in Int
      BY <1>1, SizesAssumption
    <3>2. blk = inode_table[i].i_data_block
      BY <2>3, <3>1
    <3> QED BY <2>6, <2>9, <3>1, <3>2 DEF FileByte
  <2>11. ASSUME NEW o \in FileSize(i) .. FileSize(i)' - 1
         PROVE  \E k \in 1 .. Len(data) : FileByte(i, o)' = data[k]
    <3>1. FileSize(i)' = FileSize(i) + n
      BY <2>5 DEF FileSize
    <3>2. /\ o \in 0 .. BLOCK_SIZE - 1 /\ FileSize(i) <= o /\ o < FileSize(i) + n
          /\ o - FileSize(i) + 1 \in 1 .. Len(data)
      BY <1>1, <2>2, <3>1, SizesAssumption
    <3> QED BY <2>6, <2>9, <3>2
  <2>12. Grown(i)
    <3>1. FileSize(i)' >= FileSize(i)
      BY <1>1, <2>2, <2>5, SizesAssumption DEF FileSize
    <3> QED BY <2>10, <3>1 DEF Grown
  <2> QED BY <2>7, <2>8, <2>11, <2>12 DEF Appends
<1>4. ~WriteDies(h, data)
  BY <1>1, SizesAssumption DEF WriteDies
<1>5. CASE WriteNoSpace(h, data) \/ WriteNothing(h, data) \/ FailCall
  BY <1>2, <1>5 DEF WriteNoSpace, WriteNothing, FailCall, Still, inodeVars, blockVars
<1> QED BY <1>3, <1>4, <1>5 DEF TfsWrite

\* tfs_read from the start of a file gives its beginning.
LEMMA ReadNamed ==
  ASSUME FsInv, NEW h, IsOpen(h), NEW len \in Nat, TfsRead(h, len), open_file_table[h].of_offset = 0,
         NEW i, i = open_file_table[h].of_inumber, NEW name, Leads(name, i)
  PROVE  Begins(buf', i)
<1>1. i \in Inumbers /\ FileSize(i) \in 0 .. BLOCK_SIZE /\ Live(i)
  BY NamedInode, NamesApart DEF FsInv
<1>2. PICK n : n = ToRead(h, len)
  OBVIOUS
<1>3. n = AtMost(len, FileSize(i))
  <2>1. SizeSub(FileSize(i), 0) = FileSize(i)
    BY <1>1, SizeSubExact
  <2> QED BY <1>2, <2>1 DEF ToRead, FileSize
<1>4. n \in Nat /\ n <= FileSize(i)
  BY <1>1, <1>3, SizesAssumption DEF AtMost
<1>5. n > 0 => inode_table[i].i_data_block \in Blocks
  BY <1>1, <1>4, SizesAssumption DEF FsInv, TablesInv, BlocksExclusive, FileSize
<1>6. ReadBytes(h, len)
  <2>1. ~ReadDies(h, len)
    BY <1>2, <1>5, SizesAssumption DEF ReadDies, Blocks
  <2> QED BY <2>1 DEF TfsRead
<1>7. buf' = [k \in 1 .. n |-> ByteAt(inode_table[i].i_data_block, 0 + k - 1)]
  BY <1>2, <1>6 DEF ReadBytes
<1>8. ASSUME NEW k \in 1 .. n PROVE buf'[k] = FileByte(i, k - 1)
  <2>1. 0 + k - 1 = k - 1 /\ k - 1 \in 0 .. BLOCK_SIZE - 1 /\ n > 0
    BY <1>1, <1>4, SizesAssumption
  <2>2. (k - 1) \div BLOCK_SIZE = 0 /\ (k - 1) % BLOCK_SIZE = k - 1
    BY <2>1, SizesAssumption
  <2>3. inode_table[i].i_data_block + 0 = inode_table[i].i_data_block
    BY <1>5, <2>1 DEF Blocks
  <2>4. ByteAt(inode_table[i].i_data_block, k - 1) = fs_data[inode_table[i].i_data_block][k - 1]
    BY <1>5, <2>1, <2>2, <2>3 DEF ByteAt
  <2> QED BY <1>7, <2>1, <2>4 DEF FileByte
<1>9. Len(buf') = n
  BY <1>4, <1>7
<1> QED BY <1>4, <1>8, <1>9 DEF Begins

(***************************************************************************)
(* What a step leaves of the others.                                       *)
(***************************************************************************)

\* What a file begins with it still begins with when it has grown.
LEMMA BeginsGrown ==
  ASSUME TypeOK, TypeOK', NEW S, NEW m \in Seq(S), NEW i \in Inumbers, Begins(m, i), Grown(i)
  PROVE  Begins(m, i)'
<1>1. FileSize(i) \in Int /\ FileSize(i)' \in Int /\ Len(m) \in Nat
  BY SizesAssumption DEF FileSize, TypeOK, Inode
<1>2. \A k \in 1 .. Len(m) : k - 1 \in 0 .. FileSize(i) - 1
  BY <1>1 DEF Begins
<1> QED BY <1>1, <1>2 DEF Begins, Grown

\* A session that does not move, while its file grows at most.
LEMMA OtherGood ==
  ASSUME MessagesInv, BoxesInv', NEW s \in Sessions,
         pc'[s] = pc[s], box'[s] = box[s], kind'[s] = kind[s], msg'[s] = msg[s],
         ant_msg'[s] = ant_msg[s], fh'[s] = fh[s],
         fh[s] # -1 => open_file_table'[fh[s]] = open_file_table[fh[s]],
         NEW b, b = box[s],
         Running(s) => \A i : (Leads(b, i)' => Leads(b, i)) /\ (Leads(b, i) => Grown(i)),
         pc[s] = "write" => \A i : Leads(b, i) => Leads(b, i)' /\ FileSize(i)' = FileSize(i)
  PROVE  SessionGood(s)'
<1>1. SessionGood(s)
  BY DEF MessagesInv, PoliteInv
<1>2. TypeOK /\ TypeOK'
  BY DEF MessagesInv, BoxesInv, FsInv
<1>3. \A i : Leads(box[s], i)' <=> Leads(b, i)'
  BY DEF Leads, EntryMatches
<1>4. ASSUME pc[s] = "write" PROVE AtEndOfBox(s)'
  <2>1. PICK h, i : h = fh[s] /\ i = open_file_table[h].of_inumber
    OBVIOUS
  <2>2. /\ h # -1 /\ Leads(b, i) /\ open_file_table[h].of_offset = FileSize(i)
    BY <1>1, <1>4, <2>1 DEF SessionGood, AtEndOfBox
  <2>3. Leads(b, i)' /\ FileSize(i)' = FileSize(i) /\ open_file_table'[h] = open_file_table[h]
    BY <1>4, <2>1, <2>2
  <2> QED BY <1>3, <2>1, <2>2, <2>3 DEF AtEndOfBox, FileSize
<1>5. ASSUME pc[s] = "read" PROVE ReadsOwnBox(s)'
  <2>1. Running(s) /\ ReadsOwnBox(s)
    BY <1>1, <1>5 DEF Running, Waiting, SessionGood
  <2> QED BY <1>3, <2>1 DEF ReadsOwnBox
<1>6. ASSUME Running(s), kind[s] = "sub", NEW i, Leads(b, i)'
      PROVE  Begins(msg[s], i)' /\ Begins(ant_msg[s], i)'
  <2>1. PICK m, a : m = msg[s] /\ a = ant_msg[s]
    OBVIOUS
  <2>2. Leads(b, i) /\ Grown(i) /\ i \in Inumbers
    BY <1>2, <1>6, NamedInode
  <2>3. Begins(m, i) /\ Begins(a, i)
    BY <1>1, <1>6, <2>1, <2>2 DEF SessionGood
  <2>4. m \in Seq(Bytes \cup {Garbage}) /\ a \in Seq(Bytes \cup {Garbage})
    BY <2>1 DEF MessagesInv, BoxesInv, PlacesInv, ThreadsTyped, PoliteInv, SentTyped
  <2>5. Begins(m, i)' /\ Begins(a, i)'
    BY <1>2, <2>2, <2>3, <2>4, BeginsGrown
  <2> QED BY <2>1, <2>5 DEF Begins, FileSize, FileByte
<1>7. Running(s)' <=> Running(s)
  BY DEF Running
<1>8. ASSUME Running(s)', kind'[s] = "sub", NEW i, Leads(box[s], i)'
      PROVE  Begins(msg[s], i)' /\ Begins(ant_msg[s], i)'
  BY <1>3, <1>6, <1>7, <1>8 DEF Begins, FileSize, FileByte
<1>9. msg'[s] \in Messages(box'[s]) <=> msg[s] \in Messages(box[s])
  BY DEF Messages
<1> QED BY <1>1, <1>4, <1>5, <1>8, <1>9 DEF SessionGood

\* What a subscriber has, or sends, is still the beginning of its box.
LEMMA StillBegins ==
  ASSUME MessagesInv, BoxesInv', NEW s \in Sessions, Still, Running(s), kind[s] = "sub",
         box'[s] = box[s], msg'[s] = msg[s], ant_msg'[s] = ant_msg[s] \/ ant_msg'[s] = msg[s]
  PROVE  \A i : Leads(box[s], i)' => Begins(msg[s], i)' /\ Begins(ant_msg[s], i)'
<1>1. SessionGood(s) /\ FsInv /\ TypeOK /\ TypeOK'
  BY DEF MessagesInv, PoliteInv, BoxesInv, FsInv
<1>2. PICK b, m, a : b = box[s] /\ m = msg[s] /\ a = ant_msg'[s]
  OBVIOUS
<1>3. \A i : Leads(box[s], i)' <=> Leads(b, i)
  BY <1>1, <1>2, StillNames DEF Leads, EntryMatches
<1>4. ASSUME NEW i, Leads(b, i) PROVE Begins(m, i)' /\ Begins(a, i)'
  <2>1. Begins(m, i) /\ Begins(a, i)
    BY <1>1, <1>2, <1>4 DEF SessionGood
  <2>2. m \in Seq(Bytes \cup {Garbage}) /\ a \in Seq(Bytes \cup {Garbage})
    BY <1>2 DEF MessagesInv, BoxesInv, PlacesInv, ThreadsTyped, PoliteInv, SentTyped
  <2>3. i \in Inumbers /\ Grown(i)
    BY <1>1, <1>4, NamedInode, StillNames DEF Same
  <2> QED BY <1>1, <2>1, <2>2, <2>3, BeginsGrown
<1> QED BY <1>2, <1>3, <1>4 DEF Begins, FileSize, FileByte

\* A session that moves to a label with no other obligation.
LEMMA OwnGood ==
  ASSUME MessagesInv, BoxesInv', NEW s \in Sessions, Running(s), Still,
         pc'[s] \notin {"unused", "write_open", "write", "read"},
         box'[s] = box[s], kind'[s] = kind[s], msg'[s] = msg[s],
         ant_msg'[s] = ant_msg[s] \/ ant_msg'[s] = msg[s]
  PROVE  SessionGood(s)'
<1>1. SessionGood(s) /\ pc[s] # "unused"
  BY DEF MessagesInv, PoliteInv, Running, Waiting
<1>2. kind[s] = "sub" => \A i : Leads(box[s], i)' => Begins(msg[s], i)' /\ Begins(ant_msg[s], i)'
  BY StillBegins
<1> QED BY <1>1, <1>2 DEF SessionGood

\* OwnBytes speaks of names and files only.
LEMMA StillOwn == ASSUME MessagesInv, Still PROVE OwnBytes'
  BY DEF MessagesInv, PoliteInv, OwnBytes, Still, Leads, EntryMatches, FileSize, FileByte

\* Sessions come to an end and are not removed from under their clients.
LEMMA FewerSessions ==
  ASSUME MessagesInv, UNCHANGED <<box, kind>>, pc'[Main] = pc[Main], UNCHANGED dir_entry,
         \A s \in Sessions : Running(s)' => Running(s)
  PROVE  OnePublisher' /\ RequestPolite'
<1>1. OnePublisher'
  BY DEF MessagesInv, PoliteInv, OnePublisher
<1>2. HasPublisher(box[Main])' => HasPublisher(box[Main])
  BY DEF HasPublisher
<1>3. InUse(box[Main])' => InUse(box[Main])
  BY DEF InUse
<1>4. BoxExists(box[Main])' <=> BoxExists(box[Main])
  BY DEF BoxExists, NotInDir, EntryMatches
<1> QED BY <1>1, <1>2, <1>3, <1>4 DEF MessagesInv, PoliteInv, RequestPolite

\* A step of a session thread.
LEMMA SessionMoves ==
  ASSUME MessagesInv, BoxesInv', NEW s \in Sessions, Running(s), SessionGood(s)',
         \A t \in Threads \ {s} : pc'[t] = pc[t],
         \A u \in Sessions \ {s} : msg'[u] = msg[u] /\ ant_msg'[u] = ant_msg[u],
         UNCHANGED <<box, kind, dir_entry>>, OthersKeep(s), OwnBytes', SentTyped',
         \A b, i : Leads(b, i) => Grown(i),
         \A u \in Sessions \ {s} : pc[u] = "write" =>
           \A i : Leads(box[u], i) => FileSize(i)' = FileSize(i)
  PROVE  MessagesInv'
<1>1. \A b, i : Leads(b, i)' <=> Leads(b, i)
  BY DEF Leads, EntryMatches
<1>2. ASSUME NEW u \in Sessions, u # s PROVE SessionGood(u)'
  <2>1. u \in Threads \ {s} /\ u \in Sessions \ {s}
    BY <1>2, SessionIsThread
  <2>2. pc'[u] = pc[u] /\ box'[u] = box[u] /\ kind'[u] = kind[u] /\ msg'[u] = msg[u] /\ ant_msg'[u] = ant_msg[u]
    BY <2>1
  <2>3. fh'[u] = fh[u] /\ (fh[u] # -1 => open_file_table'[fh[u]] = open_file_table[fh[u]])
    BY <2>1 DEF OthersKeep
  <2>4. PICK b : b = box[u]
    OBVIOUS
  <2>5. pc[u] = "write" => \A i : Leads(b, i) => FileSize(i)' = FileSize(i)
    BY <2>1, <2>4
  <2> QED BY <1>1, <2>2, <2>3, <2>4, <2>5, OtherGood
<1>3. \A u \in Sessions : Running(u)' => Running(u)
  BY SessionIsThread DEF Running
<1>4. pc'[Main] = pc[Main]
  BY MainIsThread
<1>5. OnePublisher' /\ RequestPolite'
  BY <1>3, <1>4, FewerSessions
<1> QED BY <1>2, <1>5 DEF MessagesInv, PoliteInv

\* A step of a session thread that only reads.
LEMMA StillMoves ==
  ASSUME MessagesInv, BoxesInv', NEW s \in Sessions, Running(s), SessionGood(s)', Still,
         \A t \in Threads \ {s} : pc'[t] = pc[t],
         \A u \in Sessions \ {s} : msg'[u] = msg[u] /\ ant_msg'[u] = ant_msg[u],
         UNCHANGED <<box, kind>>, OthersKeep(s), SentTyped'
  PROVE  MessagesInv'
<1>1. \A b, i : Leads(b, i) => Same(i)
  BY StillNames DEF MessagesInv, BoxesInv
<1>2. UNCHANGED dir_entry
  BY DEF Still
<1>3. \A u \in Sessions \ {s} : pc[u] = "write" =>
        \A i : Leads(box[u], i) => FileSize(i)' = FileSize(i)
  BY <1>1 DEF Same
<1> QED BY <1>1, <1>2, <1>3, StillOwn, SessionMoves DEF Same

\* Where a thread goes, and that no other moves.
LEMMA Moved ==
  ASSUME BoxesInv, NEW t \in Threads, NEW label, Goto(t, label)
  PROVE  pc'[t] = label /\ \A u \in Threads \ {t} : pc'[u] = pc[u]
  BY DEF Goto, BoxesInv, PlacesInv, ThreadsTyped

\* What a session thread that opens a box knows of its handle.
LEMMA SessionOpens ==
  ASSUME MessagesInv, NEW t \in Threads, pc[t] \notin Holding, NEW mode,
         "CREAT" \notin mode, "TRUNC" \notin mode, OpenBox(t, mode), UNCHANGED kind
  PROVE  /\ Still /\ OthersKeep(t) /\ fh'[t] = ret'
         /\ ret' # -1 =>
              LET entry == open_file_table'[ret']
              IN  /\ Leads(box[t], entry.of_inumber)
                  /\ entry.of_offset = InitialOffset(FileSize(entry.of_inumber), mode)
<1>1. fh[t] = -1 /\ FsInv /\ BoxesInv
  BY DEF MessagesInv, BoxesInv, PlacesInv, HandlesHeld
<1>2. OthersKeep(t) /\ fh'[t] = ret'
  BY <1>1, OpenBoxHandles
<1>3. TfsOpen(box[t], mode)
  BY DEF OpenBox
<1> QED BY <1>1, <1>2, <1>3, OpenNamed

\* A session thread that opens a box and goes on to another label than those
\* of writing and reading.
LEMMA ProbeMessages ==
  ASSUME MessagesInv, BoxesInv', NEW s \in Sessions, ProbeOpen(s, "probe", "probed")
  PROVE  MessagesInv'
<1>1. s \in Threads /\ s # Main /\ pc[s] = "probe" /\ OpenBox(s, {"APPEND"}) /\ Goto(s, "probed")
      /\ UNCHANGED <<box, kind, msg, ant_msg>>
  BY SessionIsThread DEF ProbeOpen
<1>2. Still /\ OthersKeep(s)
  BY <1>1, SessionOpens DEF Holding
<1>3. pc'[s] = "probed" /\ \A t \in Threads \ {s} : pc'[t] = pc[t]
  BY <1>1, Moved DEF MessagesInv
<1>4. Running(s)
  BY <1>1 DEF Running, Waiting
<1>5. SessionGood(s)'
  BY <1>1, <1>2, <1>3, <1>4, OwnGood
<1>6. SentTyped'
  BY <1>1 DEF MessagesInv, PoliteInv, SentTyped
<1> QED BY <1>1, <1>2, <1>3, <1>4, <1>5, <1>6, StillMoves

\* A session thread that gives its handle back.
LEMMA CloseMessages ==
  ASSUME MessagesInv, BoxesInv', NEW s \in Sessions,
         ProbeClose(s, "probed", "work", "done") \/ WriteClose(s)
  PROVE  MessagesInv'
<1>1. PICK label \in {"work", "done", "check_open", "probe"} : Goto(s, label)
  BY DEF ProbeClose, WriteClose
<1>2. /\ s \in Threads /\ s # Main /\ CloseBox(s) /\ UNCHANGED <<box, kind, msg, ant_msg>>
      /\ pc[s] \in {"probed", "write_close", "write_failed", "check_close"}
  BY SessionIsThread DEF ProbeClose, WriteClose
<1>3. Still
  BY <1>2 DEF CloseBox, TfsClose, CloseHandle, FailCall, Still, inodeVars, blockVars
<1>4. OthersKeep(s)
  BY <1>2, CloseBoxHandles DEF MessagesInv
<1>5. pc'[s] = label /\ \A t \in Threads \ {s} : pc'[t] = pc[t]
  BY <1>1, <1>2, Moved DEF MessagesInv
<1>6. Running(s)
  BY <1>2 DEF Running, Waiting
<1>7. SessionGood(s)'
  BY <1>2, <1>3, <1>5, <1>6, OwnGood
<1>8. SentTyped'
  BY <1>2 DEF MessagesInv, PoliteInv, SentTyped
<1> QED BY <1>2, <1>3, <1>4, <1>5, <1>6, <1>7, <1>8, StillMoves

\* The message read back.
LEMMA CheckMessages ==
  ASSUME MessagesInv, BoxesInv', NEW s \in Sessions, CheckOpen(s) \/ CheckRead(s)
  PROVE  MessagesInv'
<1>1. /\ s \in Threads /\ s # Main /\ UNCHANGED <<box, kind, msg, ant_msg>>
      /\ pc[s] \in {"check_open", "check_read"}
  BY SessionIsThread DEF CheckOpen, CheckRead
<1>2. PICK label \in {"check_read", "check_close"} : Goto(s, label)
  BY DEF CheckOpen, CheckRead
<1>3. Still /\ OthersKeep(s)
  <2>1. CASE CheckOpen(s)
    <3>1. OpenBox(s, {}) /\ pc[s] \notin Holding
      BY <2>1 DEF CheckOpen, Holding
    <3> QED BY <1>1, <3>1, SessionOpens
  <2>2. CASE CheckRead(s)
    <3>1. TfsRead(fh[s], Len(msg[s])) /\ UNCHANGED fh /\ pc[s] = "check_read"
      BY <2>2 DEF CheckRead
    <3>2. BoxesInv /\ FsInv /\ Len(msg[s]) \in Nat
      BY DEF MessagesInv, BoxesInv, PlacesInv, ThreadsTyped
    <3>3. IsOpen(fh[s]) => open_file_table[fh[s]].of_offset = 0
      BY <3>1, <3>2, SizesAssumption DEF IsOpen, Handles, BoxesInv, PlacesInv, ReadsFromStart
    <3>4. OnlyOffset(fh[s])
      BY <3>1, <3>2, <3>3, ReadFs
    <3>5. Still
      BY <3>1 DEF TfsRead, ReadBytes, ReadDies, FailCall, Still, inodeVars, blockVars
    <3> QED BY <1>1, <3>1, <3>2, <3>4, <3>5, OffsetHandles
  <2> QED BY <2>1, <2>2
<1>4. pc'[s] = label /\ \A t \in Threads \ {s} : pc'[t] = pc[t]
  BY <1>1, <1>2, Moved DEF MessagesInv
<1>5. Running(s)
  BY <1>1 DEF Running, Waiting
<1>6. SessionGood(s)'
  BY <1>1, <1>3, <1>4, <1>5, OwnGood
<1>7. SentTyped'
  BY <1>1 DEF MessagesInv, PoliteInv, SentTyped
<1> QED BY <1>1, <1>3, <1>4, <1>5, <1>6, <1>7, StillMoves

\* A message comes, of those published to the box of the session.
LEMMA ReceiveMessages ==
  ASSUME ~ArgsLost, MessagesInv, BoxesInv', NEW s \in Sessions, NEW m \in Published(s), Receive(s, m)
  PROVE  MessagesInv'
<1>1. /\ s \in Threads /\ s # Main /\ UNCHANGED <<vars, fh, box, kind, ant_msg>>
      /\ pc[s] = "work" /\ kind[s] = "pub" /\ Goto(s, "write_open") /\ msg' = [msg EXCEPT ![s] = m]
  BY SessionIsThread DEF Receive
<1>2. pc'[s] = "write_open" /\ \A t \in Threads \ {s} : pc'[t] = pc[t]
  BY <1>1, Moved DEF MessagesInv
<1>3. msg'[s] = m /\ \A u \in Sessions \ {s} : msg'[u] = msg[u]
  BY <1>1 DEF MessagesInv, BoxesInv, PlacesInv, ThreadsTyped
<1>4. m \in Messages(box'[s])
  BY <1>1 DEF Published
<1>5. Running(s) /\ Still /\ OthersKeep(s)
  BY <1>1 DEF Running, Waiting, Still, OthersKeep, vars, inodeVars, blockVars, fileVars
<1>6. SessionGood(s)'
  BY <1>1, <1>2, <1>3, <1>4 DEF SessionGood
<1>7. SentTyped'
  BY <1>1 DEF MessagesInv, PoliteInv, SentTyped
<1> QED BY <1>1, <1>2, <1>3, <1>5, <1>6, <1>7, StillMoves

\* A publisher's thread opens its box at its end.
LEMMA WriteOpenMessages ==
  ASSUME MessagesInv, BoxesInv', NEW s \in Sessions, WriteOpen(s)
  PROVE  MessagesInv'
<1>1. /\ s \in Threads /\ s # Main /\ UNCHANGED <<box, kind, msg, ant_msg>>
      /\ pc[s] = "write_open" /\ OpenBox(s, {"APPEND"})
      /\ Goto(s, IF ret' # -1 THEN "write" ELSE "probe")
  BY SessionIsThread DEF WriteOpen
<1>2. /\ Still /\ OthersKeep(s) /\ fh'[s] = ret'
      /\ ret' # -1 =>
           LET entry == open_file_table'[ret']
           IN  /\ Leads(box[s], entry.of_inumber)
               /\ entry.of_offset = InitialOffset(FileSize(entry.of_inumber), {"APPEND"})
  BY <1>1, SessionOpens DEF Holding
<1>3. /\ pc'[s] = IF ret' # -1 THEN "write" ELSE "probe"
      /\ \A t \in Threads \ {s} : pc'[t] = pc[t]
  BY <1>1, Moved DEF MessagesInv
<1>4. Running(s)
  BY <1>1 DEF Running, Waiting
<1>5. SessionGood(s)'
  <2>1. CASE ret' = -1
    BY <1>1, <1>2, <1>3, <1>4, <2>1, OwnGood
  <2>2. CASE ret' # -1
    <3>1. SessionGood(s) /\ kind[s] = "pub"
      BY <1>1 DEF MessagesInv, PoliteInv, SessionGood, BoxesInv, PlacesInv, KindsKnown
    <3>2. PICK h, i : h = ret' /\ i = open_file_table'[h].of_inumber
      OBVIOUS
    <3>3. Leads(box[s], i) /\ open_file_table'[h].of_offset = FileSize(i)
      BY <1>2, <2>2, <3>2 DEF InitialOffset
    <3>4. Leads(box[s], i)' /\ FileSize(i)' = FileSize(i)
      BY <1>1, <1>2, <3>3 DEF Still, Leads, EntryMatches, FileSize
    <3>5. AtEndOfBox(s)'
      BY <1>2, <2>2, <3>2, <3>3, <3>4 DEF AtEndOfBox, FileSize
    <3>6. msg'[s] \in Messages(box'[s])
      BY <1>1, <3>1 DEF SessionGood
    <3> QED BY <1>1, <1>3, <2>2, <3>1, <3>5, <3>6 DEF SessionGood
  <2> QED BY <2>1, <2>2
<1>6. SentTyped'
  BY <1>1 DEF MessagesInv, PoliteInv, SentTyped
<1> QED BY <1>1, <1>2, <1>3, <1>4, <1>5, <1>6, StillMoves

\* A publisher's thread writes at the end of its own box.
LEMMA WriteMessages ==
  ASSUME MessagesInv, BoxesInv', NEW s \in Sessions, WriteMessage(s)
  PROVE  MessagesInv'
<1>1. /\ s \in Threads /\ s # Main /\ UNCHANGED <<box, fh, kind, msg, ant_msg>>
      /\ pc[s] = "write" /\ TfsWrite(fh[s], msg[s])
  BY SessionIsThread DEF WriteMessage
<1>2. PICK label \in {"write_close", "write_failed"} : Goto(s, label)
  BY DEF WriteMessage
<1>3. BoxesInv /\ FsInv /\ SessionGood(s)
  BY DEF MessagesInv, BoxesInv, PoliteInv
<1>4. PICK b, h, i, m : b = box[s] /\ h = fh[s] /\ i = open_file_table[h].of_inumber /\ m = msg[s]
  OBVIOUS
<1>5. /\ h # -1 /\ Leads(b, i) /\ open_file_table[h].of_offset = FileSize(i)
      /\ m \in Messages(b) /\ kind[s] = "pub"
  BY <1>1, <1>3, <1>4 DEF SessionGood, AtEndOfBox, BoxesInv, PlacesInv, KindsKnown
<1>6. IsOpen(h) /\ m \in Seq(Bytes)
  BY <1>1, <1>3, <1>4, <1>5 DEF BoxesInv, HandlesInv, HandlesPrivate, PlacesInv, MessagesFit
<1>7. /\ UNCHANGED dir_entry
      /\ \A c, j : Leads(c, j) /\ j # i => Same(j)
      /\ Grown(i)
      /\ \A o \in FileSize(i) .. FileSize(i)' - 1 : \E k \in 1 .. Len(m) : FileByte(i, o)' = m[k]
  <2>1. TfsWrite(h, m)
    BY <1>1, <1>4
  <2>2. i = open_file_table[h].of_inumber
    BY <1>4
  <2>3. FsInv /\ IsOpen(h) /\ m \in Seq(Bytes) /\ Leads(b, i) /\ open_file_table[h].of_offset = FileSize(i)
    BY <1>3, <1>5, <1>6
  <2>4. Appends(i, m)
    BY <2>1, <2>2, <2>3, WriteNamed
  <2> QED BY <2>4 DEF Appends
<1>8. OthersKeep(s)
  <2>1. OnlyOffset(h)
    BY <1>1, <1>3, <1>4, <1>6, WriteFs
  <2> QED BY <1>1, <1>3, <1>4, <2>1, OffsetHandles
<1>9. OwnBytes'
  <2> SUFFICES ASSUME NEW c, NEW j, Leads(c, j), NEW o \in 0 .. FileSize(j)' - 1
               PROVE  FileByte(j, o)' = c
    BY <1>7 DEF OwnBytes, Leads, EntryMatches
  <2>1. \A p \in 0 .. FileSize(j) - 1 : FileByte(j, p) = c
    BY DEF MessagesInv, PoliteInv, OwnBytes
  <2>2. CASE j # i
    BY <1>7, <2>1, <2>2 DEF Same, Grown
  <2>3. CASE j = i
    <3>1. c = b
      BY <1>3, <1>5, <2>3, NamesApart
    <3>2. \A k \in 1 .. Len(m) : m[k] = b
      BY <1>5 DEF Messages
    <3>3. FileSize(i) \in Int /\ FileSize(i) >= 0
      BY <1>3, <1>5, NamedInode, SizesAssumption DEF FsInv
    <3>4. FileSize(i)' \in Int
      <4>1. i \in Inumbers /\ TypeOK'
        BY <1>3, <1>5, NamedInode DEF BoxesInv, FsInv
      <4> QED BY <4>1, SizesAssumption DEF FileSize, TypeOK, Inode
    <3>5. CASE o < FileSize(i)
      BY <1>7, <2>1, <2>3, <3>3, <3>4, <3>5 DEF Grown
    <3>6. CASE o >= FileSize(i)
      BY <1>7, <2>3, <3>1, <3>2, <3>3, <3>4, <3>6
    <3> QED BY <3>3, <3>4, <3>5, <3>6
  <2> QED BY <2>2, <2>3
<1>10. ASSUME NEW u \in Sessions, u # s, pc[u] = "write", NEW j, Leads(box[u], j)
       PROVE  FileSize(j)' = FileSize(j)
  <2>1. kind[u] = "pub" /\ Running(u) /\ Running(s)
    BY <1>1, <1>10 DEF MessagesInv, PoliteInv, SessionGood, BoxesInv, PlacesInv, KindsKnown, Running, Waiting
  <2>2. box[u] # b
    BY <1>4, <1>5, <1>10, <2>1 DEF MessagesInv, PoliteInv, OnePublisher
  <2>3. j # i
    BY <1>3, <1>5, <1>10, <2>2, NamesApart
  <2> QED BY <1>7, <1>10, <2>3 DEF Same
<1>11. pc'[s] = label /\ \A t \in Threads \ {s} : pc'[t] = pc[t]
  BY <1>1, <1>2, <1>3, Moved
<1>12. SessionGood(s)'
  BY <1>1, <1>5, <1>11 DEF SessionGood
<1>13. SentTyped' /\ Running(s)
  BY <1>1 DEF MessagesInv, PoliteInv, SentTyped, Running, Waiting
<1>14. \A c, j : Leads(c, j) => Grown(j)
  BY <1>7 DEF Same
<1> QED BY <1>1, <1>7, <1>8, <1>9, <1>10, <1>11, <1>12, <1>13, <1>14, SessionMoves

\* A subscriber's thread opens its box, or sends what it has.
LEMMA ReadOpenMessages ==
  ASSUME MessagesInv, BoxesInv', NEW s \in Sessions, ReadOpen(s)
  PROVE  MessagesInv'
<1>1. /\ s \in Threads /\ s # Main /\ UNCHANGED <<box, kind, msg>>
      /\ pc[s] = "work" /\ kind[s] = "sub" /\ OpenBox(s, {})
  BY SessionIsThread DEF ReadOpen
<1>2. \/ ret' # -1 /\ Goto(s, "read") /\ UNCHANGED ant_msg
      \/ ret' = -1 /\ Goto(s, "probe") /\ ant_msg' = [ant_msg EXCEPT ![s] = msg[s]]
  BY DEF ReadOpen, Send
<1>3. BoxesInv /\ FsInv /\ Running(s) /\ msg[s] \in Seq(Bytes \cup {Garbage})
  BY <1>1 DEF MessagesInv, BoxesInv, PlacesInv, ThreadsTyped, Running, Waiting
<1>4. /\ Still /\ OthersKeep(s) /\ fh'[s] = ret'
      /\ ret' # -1 => Leads(box[s], open_file_table'[ret'].of_inumber)
  BY <1>1, SessionOpens DEF Holding
<1>5. PICK label \in {"read", "probe"} : Goto(s, label) /\ (label = "read" => ret' # -1)
  BY <1>2
<1>6. pc'[s] = label /\ \A t \in Threads \ {s} : pc'[t] = pc[t]
  BY <1>1, <1>3, <1>5, Moved
<1>7. /\ SentTyped'
      /\ ant_msg'[s] = ant_msg[s] \/ ant_msg'[s] = msg[s]
      /\ \A u \in Sessions \ {s} : ant_msg'[u] = ant_msg[u]
  BY <1>2, <1>3 DEF MessagesInv, PoliteInv, SentTyped
<1>8. SessionGood(s)'
  <2>1. CASE label = "probe"
    BY <1>1, <1>3, <1>4, <1>6, <1>7, <2>1, OwnGood
  <2>2. CASE label = "read"
    <3>1. PICK b, i : b = box[s] /\ i = open_file_table'[ret'].of_inumber
      OBVIOUS
    <3>2. Leads(b, i) /\ \A j : Leads(b, j) => j = i
      BY <1>3, <1>4, <1>5, <2>2, <3>1, NamesApart
    <3>3. \A j : Leads(box[s], j)' <=> Leads(b, j)
      BY <1>1, <1>4, <3>1 DEF Still, Leads, EntryMatches
    <3>4. ReadsOwnBox(s)'
      BY <1>4, <1>5, <2>2, <3>1, <3>2, <3>3 DEF ReadsOwnBox
    <3>5. \A j : Leads(box[s], j)' => Begins(msg[s], j)' /\ Begins(ant_msg[s], j)'
      BY <1>1, <1>3, <1>4, <1>7, StillBegins
    <3> QED BY <1>1, <1>6, <2>2, <3>4, <3>5 DEF SessionGood
  <2> QED BY <2>1, <2>2
<1> QED BY <1>1, <1>3, <1>4, <1>6, <1>7, <1>8, StillMoves

\* The start of a file over an older start of it is a start of it.
LEMMA OverlayBegins ==
  ASSUME NEW S, NEW new \in Seq(S), NEW old \in Seq(S), NEW i, FileSize(i) \in Int,
         Begins(new, i), Begins(old, i)
  PROVE  Begins(Overlay(new, old), i)
<1>1. PICK rest : rest = SubSeq(old, Len(new) + 1, Len(old))
  OBVIOUS
<1>2. /\ rest \in Seq(S) /\ Len(rest) = IF Len(new) < Len(old) THEN Len(old) - Len(new) ELSE 0
      /\ \A k \in 1 .. Len(rest) : rest[k] = old[Len(new) + k] /\ Len(new) + k \in 1 .. Len(old)
  BY <1>1
<1>3. PICK all : all = new \o rest
  OBVIOUS
<1>4. /\ Len(all) = Len(new) + Len(rest) /\ Len(new) \in Nat /\ Len(old) \in Nat /\ Len(rest) \in Nat
      /\ \A k \in 1 .. Len(all) :
           all[k] = IF k <= Len(new) THEN new[k] ELSE rest[k - Len(new)]
  <2>1. Len(new) \in Nat /\ Len(old) \in Nat /\ Len(rest) \in Nat /\ new \in Seq(S) /\ rest \in Seq(S)
    BY <1>2
  <2> QED BY <1>3, <2>1
<1>5. Len(all) <= FileSize(i)
  BY <1>2, <1>4 DEF Begins
<1>6. ASSUME NEW k \in 1 .. Len(all) PROVE all[k] = FileByte(i, k - 1)
  <2>1. CASE k <= Len(new)
    BY <1>4, <2>1 DEF Begins
  <2>2. CASE ~(k <= Len(new))
    <3>1. k - Len(new) \in 1 .. Len(rest) /\ Len(new) + (k - Len(new)) = k
      BY <1>4, <2>2
    <3>2. all[k] = old[k] /\ k \in 1 .. Len(old)
      BY <1>2, <1>4, <2>2, <3>1
    <3> QED BY <3>2 DEF Begins
  <2> QED BY <2>1, <2>2
<1>7. Begins(all, i)
  BY <1>5, <1>6 DEF Begins
<1> QED BY <1>1, <1>3, <1>7 DEF Overlay

\* read_box: what is read, over the start of the old message.
LEMMA ReadBoxMessages ==
  ASSUME MessagesInv, BoxesInv', NEW s \in Sessions, ReadBox(s)
  PROVE  MessagesInv'
<1>1. /\ s \in Threads /\ s # Main /\ UNCHANGED <<box, kind>>
      /\ pc[s] = "read" /\ Goto(s, "probe") /\ TfsRead(fh[s], MESSAGE_SIZE)
      /\ fh' = [fh EXCEPT ![s] = -1]
      /\ msg' = [msg EXCEPT ![s] = Overlay(buf', msg[s])]
      /\ ant_msg' = [ant_msg EXCEPT ![s] = msg'[s]]
  BY SessionIsThread DEF ReadBox, Send
<1>2. BoxesInv /\ FsInv /\ SessionGood(s) /\ TypeOK /\ TypeOK' /\ kind[s] = "sub" /\ Running(s)
  BY <1>1 DEF MessagesInv, PoliteInv, BoxesInv, FsInv, PlacesInv, KindsKnown, Running, Waiting
<1>3. PICK b, h, new, old : b = box[s] /\ h = fh[s] /\ new = buf' /\ old = msg[s]
  OBVIOUS
<1>4. /\ IsOpen(h) /\ open_file_table[h].of_offset = 0 /\ MESSAGE_SIZE \in Nat
      /\ \A i : Leads(b, i) => i = open_file_table[h].of_inumber
  <2>1. ReadsOwnBox(s)
    BY <1>1, <1>2 DEF SessionGood
  <2> QED BY <1>1, <1>2, <1>3, <2>1, BoxesAssumption
       DEF ReadsOwnBox, BoxesInv, HandlesInv, HandlesPrivate, PlacesInv, ReadsFromStart
<1>5. OnlyOffset(h)
  BY <1>1, <1>2, <1>3, <1>4, ReadFs
<1>6. Still
  BY <1>1 DEF TfsRead, ReadBytes, ReadDies, FailCall, Still, inodeVars, blockVars
<1>7. new \in Seq(Bytes \cup {Garbage}) /\ old \in Seq(Bytes \cup {Garbage})
  BY <1>2, <1>3 DEF TypeOK, BoxesInv, PlacesInv, ThreadsTyped
<1>8. PICK all : all = Overlay(new, old)
  OBVIOUS
<1>9. all \in Seq(Bytes \cup {Garbage})
  <2>1. SubSeq(old, Len(new) + 1, Len(old)) \in Seq(Bytes \cup {Garbage})
    BY <1>7
  <2> QED BY <1>7, <1>8, <2>1 DEF Overlay
<1>10. ASSUME NEW i, Leads(b, i) PROVE Begins(all, i)'
  <2>1. i = open_file_table[h].of_inumber /\ i \in Inumbers /\ FileSize(i) \in Int /\ Grown(i)
    BY <1>2, <1>4, <1>6, <1>10, NamedInode, StillNames DEF Same
  <2>2. Begins(new, i)
    BY <1>1, <1>2, <1>3, <1>4, <1>10, <2>1, ReadNamed
  <2>3. Begins(old, i)
    BY <1>2, <1>3, <1>10 DEF SessionGood
  <2>4. Begins(all, i)
    BY <1>7, <1>8, <2>1, <2>2, <2>3, OverlayBegins
  <2> QED BY <1>2, <1>9, <2>1, <2>4, BeginsGrown
<1>11. /\ msg'[s] = all /\ ant_msg'[s] = all /\ SentTyped'
       /\ \A u \in Sessions \ {s} : msg'[u] = msg[u] /\ ant_msg'[u] = ant_msg[u]
  <2>1. msg \in [Sessions -> Seq(Bytes \cup {Garbage})] /\ ant_msg \in [Sessions -> Seq(Bytes \cup {Garbage})]
    BY <1>2 DEF MessagesInv, PoliteInv, SentTyped, BoxesInv, PlacesInv, ThreadsTyped
  <2>2. msg' = [msg EXCEPT ![s] = all] /\ msg'[s] = all
    BY <1>1, <1>3, <1>8, <2>1
  <2>3. ant_msg' = [ant_msg EXCEPT ![s] = all]
    BY <1>1, <2>2
  <2> QED BY <1>9, <2>1, <2>2, <2>3 DEF SentTyped
<1>12. pc'[s] = "probe" /\ \A t \in Threads \ {s} : pc'[t] = pc[t]
  BY <1>1, <1>2, Moved
<1>13. SessionGood(s)'
  <2>1. \A i : Leads(box[s], i)' <=> Leads(b, i)
    BY <1>1, <1>3, <1>6 DEF Still, Leads, EntryMatches
  <2>2. \A i : Leads(box[s], i)' => Begins(msg[s], i)' /\ Begins(ant_msg[s], i)'
    BY <1>10, <1>11, <2>1 DEF Begins, FileSize, FileByte
  <2> QED BY <1>1, <1>2, <1>12, <2>2 DEF SessionGood
<1>14. OthersKeep(s)
  <2>1. \A u \in Threads \ {s} : fh'[u] = fh[u] /\ (fh[u] # -1 => fh[u] \in Handles /\ fh[u] # h)
    BY <1>1, <1>2, <1>3 DEF BoxesInv, HandlesInv, HandlesPrivate, PlacesInv, ThreadsTyped
  <2> QED BY <1>5, <2>1 DEF OthersKeep, OnlyOffset
<1> QED BY <1>1, <1>2, <1>6, <1>11, <1>12, <1>13, <1>14, StillMoves

(***************************************************************************)
(* The steps of Main.                                                      *)
(***************************************************************************)

SessionsStay ==
  /\ \A s \in Sessions : pc'[s] = pc[s] /\ box'[s] = box[s] /\ kind'[s] = kind[s]
  /\ UNCHANGED <<msg, ant_msg>>

\* The box of the session, while that runs, loses nothing.
KeepsFile(s) ==
  \A b, i : b = box[s] =>
    /\ Running(s) => (Leads(b, i)' => Leads(b, i)) /\ (Leads(b, i) => Grown(i))
    /\ pc[s] = "write" /\ Leads(b, i) => Leads(b, i)' /\ FileSize(i)' = FileSize(i)

\* A step of Main keeps the messages, when it takes nothing from a running session.
LEMMA MainMessages ==
  ASSUME MessagesInv, BoxesInv', SessionsStay, OthersKeep(Main), \A s \in Sessions : KeepsFile(s),
         OwnBytes', RequestPolite'
  PROVE  MessagesInv'
<1>1. ASSUME NEW s \in Sessions PROVE SessionGood(s)'
  <2>1. /\ pc'[s] = pc[s] /\ box'[s] = box[s] /\ kind'[s] = kind[s]
        /\ msg'[s] = msg[s] /\ ant_msg'[s] = ant_msg[s]
    BY DEF SessionsStay
  <2>2. fh'[s] = fh[s] /\ (fh[s] # -1 => open_file_table'[fh[s]] = open_file_table[fh[s]])
    BY SessionIsThread DEF OthersKeep
  <2>3. PICK b : b = box[s]
    OBVIOUS
  <2>4. /\ Running(s) => \A i : (Leads(b, i)' => Leads(b, i)) /\ (Leads(b, i) => Grown(i))
        /\ pc[s] = "write" => \A i : Leads(b, i) => Leads(b, i)' /\ FileSize(i)' = FileSize(i)
    BY <2>3 DEF KeepsFile
  <2> QED BY <2>1, <2>2, <2>3, <2>4, OtherGood
<1>2. OnePublisher'
  BY DEF MessagesInv, PoliteInv, OnePublisher, SessionsStay, Running
<1>3. SentTyped'
  BY DEF MessagesInv, PoliteInv, SentTyped, SessionsStay
<1> QED BY <1>1, <1>2, <1>3 DEF MessagesInv, PoliteInv

\* No session loses its box to a step that leaves names and files alone.
LEMMA StillFiles == ASSUME MessagesInv, Still PROVE \A s : KeepsFile(s)
<1>1. (\A b, i : Leads(b, i)' <=> Leads(b, i)) /\ (\A b, i : Leads(b, i) => Same(i))
  BY StillNames DEF MessagesInv, BoxesInv
<1> QED BY <1>1 DEF KeepsFile, Same

\* Who uses a box, as long as the sessions stay.
LEMMA UsersStay ==
  ASSUME SessionsStay
  PROVE  \A b : (HasPublisher(b)' <=> HasPublisher(b)) /\ (InUse(b)' <=> InUse(b))
  BY DEF SessionsStay, HasPublisher, InUse, Running

SessionLabels == {"session", "session_probed", "session_start"}
RemoveLabels  == {"remove_open", "remove_close", "remove_unlink"}
CreateLabels  == {"create_probe", "create_probed", "create_open"}

\* Main goes on with the request it serves.
LEMMA RequestKept ==
  ASSUME MessagesInv, SessionsStay, box'[Main] = box[Main], kind'[Main] = kind[Main],
         UNCHANGED dir_entry,
         pc'[Main] \in SessionLabels => pc[Main] \in SessionLabels,
         pc'[Main] \in RemoveLabels => pc[Main] \in RemoveLabels,
         pc'[Main] \in CreateLabels => pc[Main] \in CreateLabels
  PROVE  RequestPolite'
<1>1. PICK b : b = box[Main]
  OBVIOUS
<1>2. (HasPublisher(b)' <=> HasPublisher(b)) /\ (InUse(b)' <=> InUse(b))
  BY UsersStay
<1>3. /\ HasPublisher(box[Main])' <=> HasPublisher(box[Main])
      /\ InUse(box[Main])' <=> InUse(box[Main])
  BY <1>1, <1>2 DEF HasPublisher, InUse
<1>4. BoxExists(box[Main])' <=> BoxExists(box[Main])
  BY DEF BoxExists, NotInDir, EntryMatches
<1>5. RequestPolite
  BY DEF MessagesInv, PoliteInv
<1>6. pc[Main] \in SessionLabels => kind[Main] \in {"pub", "sub"} /\ (kind[Main] = "pub" => ~HasPublisher(box[Main]))
  BY <1>5 DEF RequestPolite, SessionLabels
<1>7. pc[Main] \in RemoveLabels => ~HasPublisher(box[Main])
  BY <1>5 DEF RequestPolite, RemoveLabels
<1>8. pc[Main] \in CreateLabels => BoxExists(box[Main]) \/ ~InUse(box[Main])
  BY <1>5 DEF RequestPolite, CreateLabels
<1> QED BY <1>3, <1>4, <1>6, <1>7, <1>8 DEF RequestPolite, SessionLabels, RemoveLabels, CreateLabels

\* Main opens or closes a box and changes no file.
LEMMA MainStill ==
  ASSUME MessagesInv, BoxesInv', Still, OthersKeep(Main), NEW label, Goto(Main, label),
         UNCHANGED <<box, kind, msg, ant_msg>>,
         label \in SessionLabels => pc[Main] \in SessionLabels,
         label \in RemoveLabels => pc[Main] \in RemoveLabels,
         label \in CreateLabels => pc[Main] \in CreateLabels
  PROVE  MessagesInv'
<1>1. pc'[Main] = label /\ \A u \in Threads \ {Main} : pc'[u] = pc[u]
  BY Moved, MainIsThread DEF MessagesInv
<1>2. SessionsStay
  BY <1>1, SessionIsThread DEF SessionsStay
<1>3. RequestPolite'
  BY <1>1, <1>2, RequestKept DEF Still
<1> QED BY <1>2, <1>3, StillFiles, StillOwn, MainMessages

\* Main opens a box, for nothing else than to find it.
LEMMA MainOpens ==
  ASSUME MessagesInv, NEW mode, "CREAT" \notin mode, "TRUNC" \notin mode, OpenBox(Main, mode),
         pc[Main] \notin Holding, UNCHANGED kind
  PROVE  Still /\ OthersKeep(Main)
  BY SessionOpens, MainIsThread

\* Main gives its handle back.
LEMMA MainCloses ==
  ASSUME MessagesInv, CloseBox(Main), UNCHANGED kind
  PROVE  Still /\ OthersKeep(Main)
<1>1. Still
  BY DEF CloseBox, TfsClose, CloseHandle, FailCall, Still, inodeVars, blockVars
<1> QED BY <1>1, CloseBoxHandles, MainIsThread DEF MessagesInv

\* A request that respects the protocol.
LEMMA RequestMessages ==
  ASSUME MessagesInv, BoxesInv', NEW op \in {"create", "remove", "pub", "sub"}, NEW b \in Names,
         PoliteRequest(op, b)
  PROVE  MessagesInv'
<1>1. /\ op \in {"remove", "pub"} => ~HasPublisher(b)
      /\ op = "create" => BoxExists(b) \/ ~InUse(b)
      /\ UNCHANGED <<vars, fh, msg, ant_msg>>
      /\ box' = [box EXCEPT ![Main] = b] /\ kind' = [kind EXCEPT ![Main] = op]
  BY DEF PoliteRequest, Request
<1>2. PICK label : label = CASE op = "create" -> "create_probe"
                             [] op = "remove" -> "remove_open"
                             [] OTHER -> "session"
  OBVIOUS
<1>3. pc'[Main] = label /\ \A u \in Threads \ {Main} : pc'[u] = pc[u]
  <2>1. Goto(Main, label)
    BY <1>2 DEF PoliteRequest, Request
  <2> QED BY <2>1, Moved, MainIsThread DEF MessagesInv
<1>4. box'[Main] = b /\ kind'[Main] = op
      /\ \A u \in Threads \ {Main} : box'[u] = box[u] /\ kind'[u] = kind[u]
  BY <1>1, MainIsThread DEF MessagesInv, BoxesInv, PlacesInv, ThreadsTyped
<1>5. Still /\ OthersKeep(Main)
  BY <1>1 DEF Still, OthersKeep, vars, inodeVars, blockVars, fileVars
<1>6. SessionsStay
  BY <1>1, <1>3, <1>4, SessionIsThread DEF SessionsStay
<1>7. (HasPublisher(b)' <=> HasPublisher(b)) /\ (InUse(b)' <=> InUse(b))
  BY <1>6, UsersStay
<1>8. BoxExists(b)' <=> BoxExists(b)
  BY <1>5 DEF Still, BoxExists, NotInDir, EntryMatches
<1>9. /\ HasPublisher(box[Main])' <=> HasPublisher(b)
      /\ InUse(box[Main])' <=> InUse(b)
      /\ BoxExists(box[Main])' <=> BoxExists(b)
  BY <1>4, <1>7, <1>8 DEF HasPublisher, InUse, BoxExists, NotInDir, EntryMatches
<1>10. RequestPolite'
  <2>1. label = "session" => op \in {"pub", "sub"}
    BY <1>2
  <2>2. label = "remove_open" => op = "remove"
    BY <1>2
  <2>3. label = "create_probe" => op = "create"
    BY <1>2
  <2>4. label \in {"session", "remove_open", "create_probe"}
    BY <1>2
  <2> QED BY <1>1, <1>3, <1>4, <1>9, <2>1, <2>2, <2>3, <2>4 DEF RequestPolite
<1> QED BY <1>5, <1>6, <1>10, StillFiles, StillOwn, MainMessages

\* create_box gives an empty file to a name that no session uses.
LEMMA CreateOpenMessages ==
  ASSUME MessagesInv, BoxesInv', CreateOpen
  PROVE  MessagesInv'
<1>1. /\ pc[Main] = "create_open" /\ OpenBox(Main, {"CREAT"})
      /\ UNCHANGED <<box, kind, msg, ant_msg>>
  BY DEF CreateOpen
<1>2. PICK label \in {"create_close", "idle"} : Goto(Main, label)
  BY DEF CreateOpen
<1>3. BoxesInv /\ FsInv /\ PoliteInv
  BY DEF MessagesInv, BoxesInv
<1>4. pc'[Main] = label /\ \A u \in Threads \ {Main} : pc'[u] = pc[u]
  BY <1>2, <1>3, Moved, MainIsThread
<1>5. SessionsStay
  BY <1>1, <1>4, SessionIsThread DEF SessionsStay
<1>6. OthersKeep(Main)
  <2>1. fh[Main] = -1
    BY <1>1, <1>3, MainIsThread DEF BoxesInv, PlacesInv, HandlesHeld, Holding
  <2> QED BY <1>1, <1>3, <2>1, OpenBoxHandles, MainIsThread
<1>7. PICK n : n = box[Main]
  OBVIOUS
<1>8. /\ \A b, i : Leads(b, i) => Leads(b, i)' /\ Same(i)
      /\ \A b, i : Leads(b, i)' /\ ~Leads(b, i) => b = n /\ NotInDir(n) /\ FileSize(i)' = 0
  <2>1. TfsOpen(n, {"CREAT"})
    BY <1>1, <1>7 DEF OpenBox
  <2> QED BY <1>3, <2>1, CreateNamed
<1>9. NotInDir(n) => ~InUse(n)
  BY <1>1, <1>3, <1>7 DEF PoliteInv, RequestPolite, BoxExists
<1>10. ASSUME NEW s \in Sessions PROVE KeepsFile(s)
  <2> SUFFICES ASSUME NEW b, NEW i, b = box[s]
               PROVE  /\ Running(s) => (Leads(b, i)' => Leads(b, i)) /\ (Leads(b, i) => Grown(i))
                      /\ pc[s] = "write" /\ Leads(b, i) => Leads(b, i)' /\ FileSize(i)' = FileSize(i)
    BY DEF KeepsFile
  <2>1. Running(s) /\ Leads(b, i)' => Leads(b, i)
    BY <1>8, <1>9 DEF InUse
  <2> QED BY <1>8, <2>1 DEF Same
<1>11. OwnBytes'
  <2> SUFFICES ASSUME NEW b, NEW i, Leads(b, i)', NEW o \in 0 .. FileSize(i)' - 1
               PROVE  FileByte(i, o)' = b
    BY DEF OwnBytes
  <2>1. Leads(b, i)
    BY <1>8
  <2> QED BY <1>3, <1>8, <2>1 DEF PoliteInv, OwnBytes, Same, Grown
<1>12. RequestPolite'
  BY <1>4 DEF RequestPolite
<1> QED BY <1>5, <1>6, <1>10, <1>11, <1>12, MainMessages

\* create_box, with does_box_exist before it.
LEMMA CreateMessages == ASSUME MessagesInv, BoxesInv', CreateBox PROVE MessagesInv'
<1>1. CASE ProbeOpen(Main, "create_probe", "create_probed")
  <2>1. /\ OpenBox(Main, {"APPEND"}) /\ Goto(Main, "create_probed") /\ pc[Main] = "create_probe"
        /\ UNCHANGED <<box, kind, msg, ant_msg>>
    BY <1>1 DEF ProbeOpen
  <2>2. Still /\ OthersKeep(Main)
    BY <2>1, MainOpens DEF Holding
  <2> QED BY <2>1, <2>2, MainStill DEF SessionLabels, RemoveLabels, CreateLabels
<1>2. CASE ProbeClose(Main, "create_probed", "idle", "create_open")
  <2>1. /\ CloseBox(Main) /\ pc[Main] = "create_probed" /\ UNCHANGED <<box, kind, msg, ant_msg>>
    BY <1>2 DEF ProbeClose
  <2>2. PICK label \in {"idle", "create_open"} : Goto(Main, label)
    BY <1>2 DEF ProbeClose
  <2>3. Still /\ OthersKeep(Main)
    BY <2>1, MainCloses
  <2> QED BY <2>1, <2>2, <2>3, MainStill DEF SessionLabels, RemoveLabels, CreateLabels
<1>3. CASE CreateOpen
  BY <1>3, CreateOpenMessages
<1>4. CASE CreateClose
  <2>1. /\ CloseBox(Main) /\ Goto(Main, "idle") /\ pc[Main] = "create_close"
        /\ UNCHANGED <<box, kind, msg, ant_msg>>
    BY <1>4 DEF CreateClose
  <2>2. Still /\ OthersKeep(Main)
    BY <2>1, MainCloses
  <2> QED BY <2>1, <2>2, MainStill DEF SessionLabels, RemoveLabels, CreateLabels
<1> QED BY <1>1, <1>2, <1>3, <1>4 DEF CreateBox

\* remove_box takes the name away from a box that nobody writes to.
LEMMA RemoveUnlinkMessages ==
  ASSUME MessagesInv, BoxesInv', RemoveUnlink
  PROVE  MessagesInv'
<1>1. /\ pc[Main] = "remove_unlink" /\ TfsUnlink(box[Main]) /\ Goto(Main, "idle")
      /\ UNCHANGED <<box, fh, kind, msg, ant_msg>>
  BY DEF RemoveUnlink
<1>2. BoxesInv /\ FsInv /\ PoliteInv
  BY DEF MessagesInv, BoxesInv
<1>3. pc'[Main] = "idle" /\ \A u \in Threads \ {Main} : pc'[u] = pc[u]
  BY <1>1, <1>2, Moved, MainIsThread
<1>4. SessionsStay
  BY <1>1, <1>3, SessionIsThread DEF SessionsStay
<1>5. PICK n : n = box[Main]
  OBVIOUS
<1>6. TfsUnlink(n) /\ ~HasPublisher(n)
  BY <1>1, <1>2, <1>5 DEF PoliteInv, RequestPolite
<1>7. OthersKeep(Main)
  BY <1>1, <1>2, <1>6, UnlinkFs DEF OthersKeep, fileVars
<1>8. /\ \A b, i : Leads(b, i)' => Leads(b, i)
      /\ \A b, i : Leads(b, i) /\ b # n => Leads(b, i)'
      /\ \A b, i : Leads(b, i) => Same(i)
  BY <1>2, <1>6, UnlinkNamed
<1>9. ASSUME NEW s \in Sessions PROVE KeepsFile(s)
  <2> SUFFICES ASSUME NEW b, NEW i, b = box[s]
               PROVE  /\ Running(s) => (Leads(b, i)' => Leads(b, i)) /\ (Leads(b, i) => Grown(i))
                      /\ pc[s] = "write" /\ Leads(b, i) => Leads(b, i)' /\ FileSize(i)' = FileSize(i)
    BY DEF KeepsFile
  <2>1. pc[s] = "write" => b # n
    <3>1. pc[s] = "write" => Running(s) /\ kind[s] = "pub"
      BY <1>2 DEF PoliteInv, SessionGood, BoxesInv, PlacesInv, KindsKnown, Running, Waiting
    <3> QED BY <1>6, <3>1 DEF HasPublisher
  <2> QED BY <1>8, <2>1 DEF Same
<1>10. OwnBytes'
  <2> SUFFICES ASSUME NEW b, NEW i, Leads(b, i)', NEW o \in 0 .. FileSize(i)' - 1
               PROVE  FileByte(i, o)' = b
    BY DEF OwnBytes
  <2>1. Leads(b, i) /\ Same(i)
    BY <1>8
  <2> QED BY <1>2, <2>1 DEF PoliteInv, OwnBytes, Same, Grown
<1>11. RequestPolite'
  BY <1>3 DEF RequestPolite
<1> QED BY <1>4, <1>7, <1>9, <1>10, <1>11, MainMessages

\* remove_box.
LEMMA RemoveMessages == ASSUME MessagesInv, BoxesInv', RemoveBox PROVE MessagesInv'
<1>1. CASE RemoveOpen
  <2>1. /\ OpenBox(Main, {"APPEND"}) /\ pc[Main] = "remove_open" /\ UNCHANGED <<box, kind, msg, ant_msg>>
    BY <1>1 DEF RemoveOpen
  <2>2. PICK label \in {"remove_close", "idle"} : Goto(Main, label)
    BY <1>1 DEF RemoveOpen
  <2>3. Still /\ OthersKeep(Main)
    BY <2>1, MainOpens DEF Holding
  <2> QED BY <2>1, <2>2, <2>3, MainStill DEF SessionLabels, RemoveLabels, CreateLabels
<1>2. CASE RemoveClose
  <2>1. /\ CloseBox(Main) /\ Goto(Main, "remove_unlink") /\ pc[Main] = "remove_close"
        /\ UNCHANGED <<box, kind, msg, ant_msg>>
    BY <1>2 DEF RemoveClose
  <2>2. Still /\ OthersKeep(Main)
    BY <2>1, MainCloses
  <2> QED BY <2>1, <2>2, MainStill DEF SessionLabels, RemoveLabels, CreateLabels
<1>3. CASE RemoveUnlink
  BY <1>3, RemoveUnlinkMessages
<1> QED BY <1>1, <1>2, <1>3 DEF RemoveBox

\* A session is refused, or granted after does_box_exist.
LEMMA SessionRequestMessages ==
  ASSUME MessagesInv, BoxesInv', SessionRefused \/ SessionProbe \/ SessionProbed
  PROVE  MessagesInv'
<1>1. CASE SessionRefused
  <2>1. /\ Goto(Main, "idle") /\ UNCHANGED <<vars, fh, box, kind, msg, ant_msg>>
    BY <1>1 DEF SessionRefused
  <2>2. Still /\ OthersKeep(Main)
    BY <2>1 DEF Still, OthersKeep, vars, inodeVars, blockVars, fileVars
  <2> QED BY <2>1, <2>2, MainStill DEF SessionLabels, RemoveLabels, CreateLabels
<1>2. CASE SessionProbe
  <2>1. /\ OpenBox(Main, {"APPEND"}) /\ Goto(Main, "session_probed") /\ pc[Main] = "session"
        /\ UNCHANGED <<box, kind, msg, ant_msg>>
    BY <1>2 DEF SessionProbe, ProbeOpen
  <2>2. Still /\ OthersKeep(Main)
    BY <2>1, MainOpens DEF Holding
  <2> QED BY <2>1, <2>2, MainStill DEF SessionLabels, RemoveLabels, CreateLabels
<1>3. CASE SessionProbed
  <2>1. /\ CloseBox(Main) /\ pc[Main] = "session_probed" /\ UNCHANGED <<box, kind, msg, ant_msg>>
    BY <1>3 DEF SessionProbed, ProbeClose
  <2>2. PICK label \in {"idle", "session_start"} : Goto(Main, label)
    BY <1>3 DEF SessionProbed, ProbeClose
  <2>3. Still /\ OthersKeep(Main)
    BY <2>1, MainCloses
  <2> QED BY <2>1, <2>2, <2>3, MainStill DEF SessionLabels, RemoveLabels, CreateLabels
<1> QED BY <1>1, <1>2, <1>3

\* The session that starts has sent nothing yet; a publisher's has its box for itself.
LEMMA SessionStartMessages ==
  ASSUME MessagesInv, BoxesInv', SessionStart
  PROVE  MessagesInv'
<1> PICK s0 \in Sessions : StartsAt(s0)
  BY SessionStarts DEF MessagesInv
<1>1. UNCHANGED <<vars, fh, msg, ant_msg>> /\ pc[Main] = "session_start"
  BY DEF SessionStart
<1>2. /\ s0 \in Threads /\ s0 # Main /\ pc[s0] = "unused" /\ msg[s0] = <<>>
      /\ pc'[s0] = "probe" /\ kind'[s0] = kind[Main] /\ box'[s0] = box[Main] /\ pc'[Main] = "idle"
      /\ \A t \in Sessions \ {s0} : pc'[t] = pc[t] /\ kind'[t] = kind[t] /\ box'[t] = box[t]
  BY SessionIsThread DEF StartsAt
<1>3. BoxesInv /\ FsInv /\ TypeOK /\ PoliteInv
  BY DEF MessagesInv, BoxesInv, FsInv
<1>4. Still /\ OthersKeep(s0) /\ UNCHANGED <<open_file_table, dir_entry>>
  BY <1>1 DEF Still, OthersKeep, vars, inodeVars, blockVars, fileVars
<1>5. kind[Main] \in {"pub", "sub"} /\ (kind[Main] = "pub" => ~HasPublisher(box[Main]))
  BY <1>1, <1>3 DEF PoliteInv, RequestPolite
<1>6. /\ \A b, i : Leads(b, i)' <=> Leads(b, i)
      /\ \A b, i : Leads(b, i) => Same(i)
  BY <1>3, <1>4, StillNames
<1>7. ASSUME NEW s \in Sessions, s # s0 PROVE SessionGood(s)'
  <2>1. /\ pc'[s] = pc[s] /\ box'[s] = box[s] /\ kind'[s] = kind[s]
        /\ msg'[s] = msg[s] /\ ant_msg'[s] = ant_msg[s] /\ fh'[s] = fh[s]
    BY <1>1, <1>2, <1>7
  <2>2. fh[s] # -1 => open_file_table'[fh[s]] = open_file_table[fh[s]]
    BY <1>4
  <2>3. PICK b : b = box[s]
    OBVIOUS
  <2>4. \A i : (Leads(b, i)' <=> Leads(b, i)) /\ (Leads(b, i) => Grown(i) /\ FileSize(i)' = FileSize(i))
    BY <1>6 DEF Same
  <2> QED BY <2>1, <2>2, <2>3, <2>4, OtherGood
<1>8. SessionGood(s0)'
  <2>1. PICK b : b = box[Main]
    OBVIOUS
  <2>2. \A i : Leads(box[s0], i)' <=> Leads(b, i)
    BY <1>2, <1>4, <2>1 DEF Leads, EntryMatches
  <2>3. ant_msg[s0] = <<>>
    BY <1>2, <1>3 DEF PoliteInv, SessionGood
  <2>4. ASSUME NEW i, Leads(b, i) PROVE Begins(msg[s0], i)' /\ Begins(ant_msg[s0], i)'
    <3>1. FileSize(i) \in 0 .. BLOCK_SIZE /\ FileSize(i)' = FileSize(i)
      BY <1>3, <1>6, <2>4, NamedInode DEF Same
    <3>2. msg'[s0] = <<>> /\ ant_msg'[s0] = <<>>
      BY <1>1, <1>2, <2>3
    <3>3. Len(<<>>) = 0 /\ FileSize(i) >= 0
      BY <3>1, SizesAssumption
    <3>4. Len(<<>>) <= FileSize(i)' /\ ~(\E k \in 1 .. Len(<<>>) : TRUE)
      BY <3>1, <3>3
    <3> QED BY <3>2, <3>4 DEF Begins
  <2> QED BY <1>2, <1>5, <2>2, <2>4 DEF SessionGood
<1>9. OnePublisher'
  <2> SUFFICES ASSUME NEW s \in Sessions, NEW u \in Sessions, Running(s)', Running(u)',
                      kind'[s] = "pub", kind'[u] = "pub", box'[s] = box'[u]
               PROVE  s = u
    BY DEF OnePublisher
  <2>1. CASE s # s0 /\ u # s0
    BY <1>2, <1>3, <2>1 DEF PoliteInv, OnePublisher, Running
  <2>2. CASE s = s0 /\ u # s0
    <3>1. Running(u) /\ kind[u] = "pub" /\ box[u] = box[Main] /\ kind[Main] = "pub"
      BY <1>2, <2>2 DEF Running
    <3> QED BY <1>5, <3>1 DEF HasPublisher
  <2>3. CASE s # s0 /\ u = s0
    <3>1. Running(s) /\ kind[s] = "pub" /\ box[s] = box[Main] /\ kind[Main] = "pub"
      BY <1>2, <2>3 DEF Running
    <3> QED BY <1>5, <3>1 DEF HasPublisher
  <2> QED BY <2>1, <2>2, <2>3
<1>10. RequestPolite'
  BY <1>2 DEF RequestPolite
<1>11. SentTyped'
  BY <1>1, <1>3 DEF PoliteInv, SentTyped
<1>12. OwnBytes'
  BY <1>4, StillOwn
<1> QED BY <1>7, <1>8, <1>9, <1>10, <1>11, <1>12 DEF MessagesInv, PoliteInv

\* One step of a session thread.
LEMMA SessionMessages ==
  ASSUME MessagesInv, BoxesInv', NEW s \in Sessions, SessionStep(s)
  PROVE  MessagesInv'
<1>1. CASE ProbeOpen(s, "probe", "probed")
  BY <1>1, ProbeMessages
<1>2. CASE ProbeClose(s, "probed", "work", "done") \/ WriteClose(s)
  BY <1>2, CloseMessages
<1>3. CASE CheckOpen(s) \/ CheckRead(s)
  BY <1>3, CheckMessages
<1>4. CASE WriteOpen(s)
  BY <1>4, WriteOpenMessages
<1>5. CASE WriteMessage(s)
  BY <1>5, WriteMessages
<1>6. CASE ReadOpen(s)
  BY <1>6, ReadOpenMessages
<1>7. CASE ReadBox(s)
  BY <1>7, ReadBoxMessages
<1> QED BY <1>1, <1>2, <1>3, <1>4, <1>5, <1>6, <1>7 DEF SessionStep

\* A step in which nothing moves.
LEMMA IdleMessages == ASSUME MessagesInv, UNCHANGED allVars PROVE MessagesInv'
<1>1. BoxesInv'
  BY BoxesStep DEF MessagesInv
<1>2. UNCHANGED <<vars, pc, fh, box, kind, msg, ant_msg>>
  BY DEF allVars, threadVars
<1>3. Still /\ OthersKeep(Main) /\ SessionsStay /\ UNCHANGED dir_entry
  BY <1>2 DEF Still, OthersKeep, SessionsStay, vars, inodeVars, blockVars, fileVars
<1>4. RequestPolite'
  BY <1>2, <1>3, RequestKept
<1> QED BY <1>1, <1>3, <1>4, StillFiles, StillOwn, MainMessages

\* A step of polite clients and of the broker.
LEMMA MessagesStep ==
  ASSUME ~ArgsLost, MessagesInv, [PoliteNext]_allVars
  PROVE  MessagesInv'
<1>1. BoxesInv'
  <2>1. [BoxesNext]_allVars
    BY BoxesAssumption DEF PoliteNext, PoliteRequest, BoxesNext
  <2> QED BY <2>1, BoxesStep DEF MessagesInv
<1>2. CASE \E op \in Requests, b \in Names : PoliteRequest(op, b)
  BY <1>1, <1>2, BoxesAssumption, RequestMessages
<1>3. CASE MainStep
  <2>1. CASE CreateBox
    BY <1>1, <2>1, CreateMessages
  <2>2. CASE RemoveBox
    BY <1>1, <2>2, RemoveMessages
  <2>3. CASE SessionRefused \/ SessionProbe \/ SessionProbed
    BY <1>1, <2>3, SessionRequestMessages
  <2>4. CASE SessionStart
    BY <1>1, <2>4, SessionStartMessages
  <2> QED BY <1>3, <2>1, <2>2, <2>3, <2>4 DEF MainStep
<1>4. CASE Receives
  BY <1>1, <1>4, ReceiveMessages DEF Receives
<1>5. CASE FramesReused
  BY <1>5 DEF FramesReused, FrameReused
<1>6. CASE \E s \in Sessions : SessionStep(s)
  BY <1>1, <1>6, SessionMessages
<1>7. CASE UNCHANGED allVars
  BY <1>7, IdleMessages
<1> QED BY <1>2, <1>3, <1>4, <1>5, <1>6, <1>7 DEF PoliteNext

\* An empty broker: no box, no session.
LEMMA InitMessages == BoxesInit => MessagesInv
<1> SUFFICES ASSUME BoxesInit PROVE PoliteInv
  BY InitBoxes DEF MessagesInv
<1>1. \A b, i : ~Leads(b, i)
  BY DEF BoxesInit, Init, FreshDirectory, Leads, EntryMatches
<1>2. /\ pc[Main] = "idle"
      /\ \A s \in Sessions : pc[s] = "unused" /\ ant_msg[s] = <<>> /\ ~Running(s)
  BY SessionIsThread, MainIsThread DEF BoxesInit, Running, Waiting
<1>3. \A s \in Sessions : SessionGood(s)
  BY <1>2 DEF SessionGood
<1>4. OnePublisher /\ RequestPolite /\ OwnBytes
  BY <1>1, <1>2 DEF OnePublisher, RequestPolite, OwnBytes
<1>5. SentTyped
  <2>1. <<>> \in Seq(Bytes \cup {Garbage})
    OBVIOUS
  <2> QED BY <2>1 DEF BoxesInit, SentTyped
<1> QED BY <1>3, <1>4, <1>5 DEF PoliteInv

(***************************************************************************)
(* The theorems about messages.                                            *)
(***************************************************************************)

\* While clients are polite and threads keep their arguments, the invariant of
\* the messages holds of the broker.
THEOREM MessagesInvariant == ASSUME ~ArgsLost PROVE PoliteSpec => []MessagesInv
<1>1. MessagesInv /\ [PoliteNext]_allVars => MessagesInv'
  BY MessagesStep
<1> QED BY InitMessages, <1>1, PTL DEF PoliteSpec

\* A box holds nothing but what was published to it, whoever opens, removes or
\* creates boxes between the tfs_open and the tfs_write of write_message
\* (mbroker/boxes.c).
THEOREM OwnMessagesAlways == ASSUME ~ArgsLost PROVE PoliteSpec => []OwnMessagesOnly
<1>1. MessagesInv => OwnMessagesOnly
  <2> SUFFICES ASSUME MessagesInv, NEW e \in DirSlots, Used(e), NEW o \in 0 .. BoxSize(e) - 1
               PROVE  Byte(e, o) = dir_entry[e].d_name
    BY DEF OwnMessagesOnly
  <2>1. PICK b, i : b = dir_entry[e].d_name /\ i = dir_entry[e].d_inumber
    OBVIOUS
  <2>2. Leads(b, i)
    BY <2>1 DEF Used, Leads, EntryMatches
  <2>3. BoxSize(e) = FileSize(i) /\ Byte(e, o) = FileByte(i, o)
    BY <2>1 DEF BoxSize, Byte, FileSize, FileByte
  <2> QED BY <2>1, <2>2, <2>3 DEF MessagesInv, PoliteInv, OwnBytes
<1> QED BY MessagesInvariant, <1>1, PTL

\* What read_box (mbroker/boxes.c) had sent to a subscriber by the time its
\* thread looks again is the beginning of its box, whatever publishers have
\* added since.
THEOREM SentAlwaysPrefix == ASSUME ~ArgsLost PROVE PoliteSpec => []SentIsPrefixOfBox
<1>1. MessagesInv => SentIsPrefixOfBox
  <2> SUFFICES ASSUME MessagesInv, NEW s \in Sessions, NEW e \in DirSlots,
                      Running(s), kind[s] = "sub", EntryMatches(e, box[s])
               PROVE  /\ Len(ant_msg[s]) <= BoxSize(e)
                      /\ \A k \in 1 .. Len(ant_msg[s]) : ant_msg[s][k] = Byte(e, k - 1)
    BY DEF SentIsPrefixOfBox
  <2>1. PICK i : i = dir_entry[e].d_inumber
    OBVIOUS
  <2>2. Leads(box[s], i)
    BY <2>1 DEF Leads
  <2>3. Begins(ant_msg[s], i)
    BY <2>2 DEF MessagesInv, PoliteInv, SessionGood
  <2> QED BY <2>1, <2>3 DEF Begins, BoxSize, Byte, FileSize, FileByte
<1> QED BY MessagesInvariant, <1>1, PTL

\* write_message (mbroker/boxes.c) appends: no byte of an earlier message is
\* written over.
THEOREM WritesAlwaysAtEnd == ASSUME ~ArgsLost PROVE PoliteSpec => WritesAtEnd
<1>1. MessagesInv => \A s \in Sessions : pc[s] = "write" =>
        open_file_table[fh[s]].of_offset = inode_table[open_file_table[fh[s]].of_inumber].i_size
  BY DEF MessagesInv, PoliteInv, SessionGood, AtEndOfBox, FileSize
<1>2. MessagesInv /\ [PoliteNext]_allVars =>
        [\A s \in Sessions :
           pc[s] = "write" /\ pc'[s] = "write_close" =>
             LET entry == open_file_table[fh[s]]
             IN  entry.of_offset = inode_table[entry.of_inumber].i_size]_allVars
  BY <1>1
<1> QED BY MessagesInvariant, <1>2, PTL DEF PoliteSpec, WritesAtEnd

(***************************************************************************)
(* does_box_exist, when there are only publishers and more handles than    *)
(* sessions.                                                               *)
(***************************************************************************)

NoSubscribers == \A t \in Threads : kind[t] # "sub"

\* What Main's last does_box_exist said of the box it is about to create.
ProbedRight ==
  /\ pc[Main] = "create_probed" /\ fh[Main] = -1 => ~BoxExists(box[Main])
  /\ pc[Main] = "create_open" => ~BoxExists(box[Main])

\* The invariant of the probes.
ProbesInv == BoxesInv /\ NoSubscribers /\ ProbedRight

\* Every open handle belongs to a thread, so one is left for each that asks.
LEMMA HandleLeft ==
  ASSUME MAX_OPEN_FILES > MaxSessions, BoxesInv, NoSubscribers, NEW t \in Threads, fh[t] = -1
  PROVE  ~NoneFree(free_open_file_entries)
<1> SUFFICES ASSUME NoneFree(free_open_file_entries) PROVE FALSE
  OBVIOUS
<1>1. \A h \in Handles : IsOpen(h)
  BY DEF NoneFree, IsOpen, BoxesInv, FsInv, TypeOK
<1>2. ASSUME NEW h \in Handles PROVE \E u \in Threads \ {t} : fh[u] = h
  <2>1. h # -1
    BY SizesAssumption DEF Handles
  <2>2. \A s \in Sessions : kind[s] # "sub"
    BY SessionIsThread DEF NoSubscribers
  <2> QED BY <1>1, <2>1, <2>2 DEF BoxesInv, HandlesInv, OnlySubscribersLeak
<1>3. PICK f : f = [h \in Handles |-> CHOOSE u \in Threads \ {t} : fh[u] = h]
  OBVIOUS
<1>4. \A h \in Handles : f[h] \in Threads \ {t} /\ fh[f[h]] = h
  BY <1>2, <1>3
<1>5. f \in Injection(Handles, Threads \ {t})
  BY <1>3, <1>4 DEF Injection, IsInjective
<1>6. IsFiniteSet(Threads) /\ Cardinality(Threads) = MaxSessions + 1
  <2>1. Threads = 0 .. MaxSessions
    BY BoxesAssumption DEF Threads, Sessions, Main
  <2> QED BY <2>1, BoxesAssumption, FS_Interval
<1>7. IsFiniteSet(Threads \ {t}) /\ Cardinality(Threads \ {t}) = MaxSessions
  BY <1>6, BoxesAssumption, FS_RemoveElement
<1>8. Cardinality(Handles) = MAX_OPEN_FILES
  BY SizesAssumption, FS_Interval DEF Handles
<1>9. Cardinality(Handles) <= Cardinality(Threads \ {t})
  BY <1>5, <1>7, FS_Injection
<1> QED BY <1>7, <1>8, <1>9, BoxesAssumption, SizesAssumption

\* Names of boxes are valid.
LEMMA BoxesValid == ASSUME FsInv, NEW b, BoxExists(b) PROVE b \notin BadPaths
  BY NamesAssumption
  DEF BoxExists, NotInDir, EntryMatches, FsInv, TypeOK, DirEntry, TablesInv, NamesKept, Used

\* does_box_exist.
LEMMA ProbeExact ==
  ASSUME MAX_OPEN_FILES > MaxSessions, BoxesInv, NoSubscribers, NEW t \in Threads,
         pc[t] \notin Holding, OpenBox(t, {"APPEND"})
  PROVE  Still /\ (fh'[t] # -1 <=> BoxExists(box[t]))
<1>1. /\ FsInv /\ fh[t] = -1 /\ TfsOpen(box[t], {"APPEND"}) /\ fh'[t] = ret'
  BY DEF OpenBox, BoxesInv, PlacesInv, HandlesHeld, ThreadsTyped
<1>2. /\ Still
      /\ ret' # -1 => Leads(box[t], open_file_table'[ret'].of_inumber)
      /\ ret' = -1 => box[t] \in BadPaths \/ NotInDir(box[t]) \/ NoneFree(free_open_file_entries)
  BY <1>1, OpenNamed
<1>3. ~NoneFree(free_open_file_entries)
  BY <1>1, HandleLeft
<1>4. ret' # -1 => BoxExists(box[t])
  BY <1>2, ExistsNamed
<1>5. ret' = -1 => ~BoxExists(box[t])
  BY <1>1, <1>2, <1>3, BoxesValid DEF BoxExists
<1> QED BY <1>1, <1>2, <1>4, <1>5

\* A session thread leaves the names and Main alone.
LEMMA SessionNames ==
  ASSUME BoxesInv, NEW s \in Sessions, SessionStep(s)
  PROVE  UNCHANGED <<dir_entry, box, kind>> /\ pc'[Main] = pc[Main] /\ fh'[Main] = fh[Main]
<1>1. s \in Threads /\ s # Main /\ Main \in Threads /\ FsInv
  BY SessionIsThread, MainIsThread DEF BoxesInv
<1>2. ASSUME NEW mode \in {{}, {"APPEND"}}, OpenBox(s, mode)
      PROVE  UNCHANGED dir_entry /\ fh'[Main] = fh[Main]
  <2>1. TfsOpen(box[s], mode) /\ fh' = [fh EXCEPT ![s] = ret']
    BY <1>2 DEF OpenBox
  <2>2. "CREAT" \notin mode /\ "TRUNC" \notin mode
    OBVIOUS
  <2>3. Still
    BY <1>1, <2>1, <2>2, OpenNamed
  <2> QED BY <1>1, <2>1, <2>3 DEF Still, BoxesInv, PlacesInv, ThreadsTyped
<1>3. ASSUME CloseBox(s) PROVE UNCHANGED dir_entry /\ fh'[Main] = fh[Main]
  <2>1. TfsClose(fh[s]) /\ fh' = [fh EXCEPT ![s] = -1]
    BY <1>3 DEF CloseBox
  <2>2. UNCHANGED dir_entry
    BY <2>1 DEF TfsClose, CloseHandle, FailCall, inodeVars
  <2> QED BY <1>1, <2>1, <2>2 DEF BoxesInv, PlacesInv, ThreadsTyped
<1>4. \A h, data : TfsWrite(h, data) => UNCHANGED dir_entry
  BY DEF TfsWrite, WriteBytes, WriteNoSpace, WriteNothing, WriteDies, FailCall, inodeVars
<1>5. \A h, len : TfsRead(h, len) => UNCHANGED dir_entry
  BY DEF TfsRead, ReadBytes, ReadDies, FailCall, inodeVars
<1>6. \A label : Goto(s, label) => pc'[Main] = pc[Main]
  BY <1>1 DEF Goto, BoxesInv, PlacesInv, ThreadsTyped
<1>7. CASE ProbeOpen(s, "probe", "probed")
  BY <1>2, <1>6, <1>7 DEF ProbeOpen
<1>8. CASE ProbeClose(s, "probed", "work", "done") \/ WriteClose(s)
  BY <1>3, <1>6, <1>8 DEF ProbeClose, WriteClose
<1>9. CASE WriteOpen(s) \/ CheckOpen(s)
  BY <1>2, <1>6, <1>9 DEF WriteOpen, CheckOpen
<1>10. CASE WriteMessage(s)
  BY <1>4, <1>6, <1>10 DEF WriteMessage
<1>11. CASE CheckRead(s)
  BY <1>5, <1>6, <1>11 DEF CheckRead
<1>12. CASE ReadOpen(s)
  BY <1>2, <1>6, <1>12 DEF ReadOpen
<1>13. CASE ReadBox(s)
  <2>1. fh' = [fh EXCEPT ![s] = -1] /\ TfsRead(fh[s], MESSAGE_SIZE) /\ Goto(s, "probe")
        /\ UNCHANGED <<box, kind>>
    BY <1>13 DEF ReadBox
  <2> QED BY <1>1, <1>5, <1>6, <2>1 DEF BoxesInv, PlacesInv, ThreadsTyped
<1> QED BY <1>7, <1>8, <1>9, <1>10, <1>11, <1>12, <1>13 DEF SessionStep

\* Nothing else than create_box adds a name, and what the probe said stays true.
LEMMA ProbedStays ==
  ASSUME ProbesInv, UNCHANGED dir_entry, box'[Main] = box[Main], pc'[Main] = pc[Main],
         fh'[Main] = fh[Main]
  PROVE  ProbedRight'
<1>1. BoxExists(box[Main])' <=> BoxExists(box[Main])
  BY DEF BoxExists, NotInDir, EntryMatches
<1> QED BY <1>1 DEF ProbesInv, ProbedRight

\* create_box after does_box_exist.
LEMMA CreateProbes ==
  ASSUME MAX_OPEN_FILES > MaxSessions, ProbesInv, CreateBox
  PROVE  ProbedRight' /\ UNCHANGED kind
<1>1. Main \in Threads /\ BoxesInv /\ NoSubscribers
  BY MainIsThread DEF ProbesInv
<1>2. \A label : Goto(Main, label) => pc'[Main] = label
  BY <1>1 DEF Goto, BoxesInv, PlacesInv, ThreadsTyped
<1>3. CASE ProbeOpen(Main, "create_probe", "create_probed")
  <2>1. /\ OpenBox(Main, {"APPEND"}) /\ pc[Main] = "create_probe" /\ Goto(Main, "create_probed")
        /\ UNCHANGED <<box, kind>>
    BY <1>3 DEF ProbeOpen
  <2>2. Still /\ (fh'[Main] # -1 <=> BoxExists(box[Main]))
    BY <1>1, <2>1, ProbeExact DEF Holding
  <2>3. BoxExists(box[Main])' <=> BoxExists(box[Main])
    BY <2>1, <2>2 DEF Still, BoxExists, NotInDir, EntryMatches
  <2> QED BY <1>2, <2>1, <2>2, <2>3 DEF ProbedRight
<1>4. CASE ProbeClose(Main, "create_probed", "idle", "create_open")
  <2>1. /\ CloseBox(Main) /\ pc[Main] = "create_probed" /\ UNCHANGED <<box, kind>>
        /\ Goto(Main, IF fh[Main] # -1 THEN "idle" ELSE "create_open")
    BY <1>4 DEF ProbeClose
  <2>2. UNCHANGED dir_entry
    BY <2>1 DEF CloseBox, TfsClose, CloseHandle, FailCall, inodeVars
  <2>3. BoxExists(box[Main])' <=> BoxExists(box[Main])
    BY <2>1, <2>2 DEF BoxExists, NotInDir, EntryMatches
  <2> QED BY <1>2, <2>1, <2>3 DEF ProbedRight, ProbesInv
<1>5. CASE CreateOpen
  <2>1. pc'[Main] \in {"create_close", "idle"}
    BY <1>2, <1>5 DEF CreateOpen
  <2> QED BY <1>5, <2>1 DEF ProbedRight, CreateOpen
<1>6. CASE CreateClose
  BY <1>2, <1>6 DEF ProbedRight, CreateClose
<1> QED BY <1>3, <1>4, <1>5, <1>6 DEF CreateBox

\* A request for anything but a subscription.
LEMMA RequestProbes ==
  ASSUME ProbesInv, NEW op \in {"create", "remove", "pub"}, NEW b \in Names, Request(op, b)
  PROVE  NoSubscribers' /\ ProbedRight'
<1>1. Main \in Threads /\ pc \in [Threads -> Labels] /\ DOMAIN kind = Threads
  BY MainIsThread DEF ProbesInv, BoxesInv, PlacesInv, ThreadsTyped
<1>2. NoSubscribers'
  <2>1. kind' = [kind EXCEPT ![Main] = op]
    BY DEF Request
  <2> QED BY <1>1, <2>1 DEF ProbesInv, NoSubscribers
<1>3. pc'[Main] \in {"create_probe", "remove_open", "session"}
  <2>1. PICK label : label = CASE op = "create" -> "create_probe"
                               [] op = "remove" -> "remove_open"
                               [] OTHER -> "session"
    OBVIOUS
  <2>2. label \in {"create_probe", "remove_open", "session"}
    BY <2>1
  <2>3. Goto(Main, label)
    BY <2>1 DEF Request
  <2> QED BY <1>1, <2>2, <2>3 DEF Goto
<1> QED BY <1>2, <1>3 DEF ProbedRight

\* The rest of what Main does: nothing that a probe said is needed any more.
LEMMA OtherProbes ==
  ASSUME ProbesInv, RemoveBox \/ SessionRefused \/ SessionProbe \/ SessionProbed \/ SessionStart
  PROVE  NoSubscribers' /\ ProbedRight'
<1>1. Main \in Threads /\ BoxesInv /\ NoSubscribers
  BY MainIsThread DEF ProbesInv
<1>2. \A label : Goto(Main, label) => pc'[Main] = label
  BY <1>1 DEF Goto, BoxesInv, PlacesInv, ThreadsTyped
<1>3. CASE RemoveBox
  <2>1. UNCHANGED kind
    BY <1>3 DEF RemoveBox, RemoveOpen, RemoveClose, RemoveUnlink
  <2>2. pc'[Main] \in {"remove_close", "idle", "remove_unlink"}
    BY <1>2, <1>3 DEF RemoveBox, RemoveOpen, RemoveClose, RemoveUnlink
  <2> QED BY <1>1, <2>1, <2>2 DEF NoSubscribers, ProbedRight
<1>4. CASE SessionRefused \/ SessionProbe \/ SessionProbed
  <2>1. UNCHANGED kind
    BY <1>4 DEF SessionRefused, SessionProbe, SessionProbed, ProbeOpen, ProbeClose
  <2>2. pc'[Main] \in {"idle", "session_probed", "session_start"}
    BY <1>2, <1>4 DEF SessionRefused, SessionProbe, SessionProbed, ProbeOpen, ProbeClose
  <2> QED BY <1>1, <2>1, <2>2 DEF NoSubscribers, ProbedRight
<1>5. CASE SessionStart
  <2>1. PICK s0 \in Sessions : StartsAt(s0)
    BY <1>1, <1>5, SessionStarts
  <2>2. pc'[Main] = "idle" /\ \A t \in Threads : kind'[t] \in {kind[t], kind[Main]}
    BY <2>1 DEF StartsAt
  <2> QED BY <1>1, <2>2 DEF NoSubscribers, ProbedRight
<1> QED BY <1>3, <1>4, <1>5

\* A step of polite clients and of the broker keeps what probes say.
LEMMA ProbesStep ==
  ASSUME "sub" \notin Requests, MAX_OPEN_FILES > MaxSessions, ProbesInv, [PoliteNext]_allVars
  PROVE  ProbesInv'
<1>1. BoxesInv'
  <2>1. [BoxesNext]_allVars
    BY BoxesAssumption DEF PoliteNext, PoliteRequest, BoxesNext
  <2> QED BY <2>1, BoxesStep DEF ProbesInv
<1>2. CASE \E op \in Requests, b \in Names : PoliteRequest(op, b)
  <2>1. PICK op \in {"create", "remove", "pub"}, b \in Names : Request(op, b)
    BY <1>2, BoxesAssumption DEF PoliteRequest
  <2> QED BY <1>1, <2>1, RequestProbes DEF ProbesInv
<1>3. CASE CreateBox
  BY <1>1, <1>3, CreateProbes DEF ProbesInv, NoSubscribers
<1>4. CASE RemoveBox \/ SessionRefused \/ SessionProbe \/ SessionProbed \/ SessionStart
  BY <1>1, <1>4, OtherProbes DEF ProbesInv
<1>5. ASSUME UNCHANGED <<dir_entry, kind>>, box'[Main] = box[Main], pc'[Main] = pc[Main],
             fh'[Main] = fh[Main]
      PROVE  ProbesInv'
  BY <1>1, <1>5, ProbedStays DEF ProbesInv, NoSubscribers
<1>6. CASE Receives
  <2>1. PICK s \in Sessions : pc' = [pc EXCEPT ![s] = "write_open"] /\ UNCHANGED <<vars, box, fh, kind>>
    BY <1>6 DEF Receives, Receive, Goto
  <2>2. pc'[Main] = pc[Main] /\ UNCHANGED dir_entry
    BY <2>1, SessionIsThread, MainIsThread DEF vars, ProbesInv, BoxesInv, PlacesInv, ThreadsTyped
  <2> QED BY <1>5, <2>1, <2>2
<1>7. CASE FramesReused
  <2>1. PICK s \in Sessions, b \in Names \cup {NoName} :
          box' = [box EXCEPT ![s] = b] /\ UNCHANGED <<vars, pc, fh, kind>>
    BY <1>7 DEF FramesReused, FrameReused
  <2>2. box'[Main] = box[Main] /\ UNCHANGED dir_entry
    BY <2>1, SessionIsThread, MainIsThread DEF vars, ProbesInv, BoxesInv, PlacesInv, ThreadsTyped
  <2> QED BY <1>5, <2>1, <2>2
<1>8. CASE \E s \in Sessions : SessionStep(s)
  <2>1. UNCHANGED <<dir_entry, box, kind>> /\ pc'[Main] = pc[Main] /\ fh'[Main] = fh[Main]
    BY <1>8, SessionNames DEF ProbesInv
  <2> QED BY <1>5, <2>1
<1>9. CASE UNCHANGED allVars
  BY <1>5, <1>9 DEF allVars, threadVars, vars
<1> QED BY <1>2, <1>3, <1>4, <1>6, <1>7, <1>8, <1>9 DEF PoliteNext, MainStep

\* Nobody has probed yet.
LEMMA InitProbes == BoxesInit => ProbesInv
<1>1. BoxesInit => NoSubscribers /\ ProbedRight
  BY MainIsThread DEF BoxesInit, NoSubscribers, ProbedRight
<1> QED BY <1>1, InitBoxes DEF ProbesInv

\* The labels from which a thread probes, and where it has probed.
Probing == {"probe", "create_probe", "session"}
Probed  == {"probed", "create_probed", "session_probed"}

\* A thread goes from the one to the other by opening its box for appending.
LEMMA ProbesByOpening ==
  ASSUME BoxesInv, BoxesNext, NEW t \in Threads, pc[t] \in Probing, pc'[t] \in Probed
  PROVE  OpenBox(t, {"APPEND"})
<1>1. Main \in Threads /\ pc \in [Threads -> Labels] /\ pc'[t] # pc[t]
  BY MainIsThread DEF BoxesInv, PlacesInv, ThreadsTyped, Probing, Probed
<1>2. \A u, label : u \in Threads /\ Goto(u, label) => pc'[u] = label /\ (t # u => pc'[t] = pc[t])
  BY <1>1 DEF Goto
<1>3. ASSUME NEW s \in Sessions, SessionStep(s) PROVE OpenBox(t, {"APPEND"})
  <2>1. s \in Threads
    BY SessionIsThread
  <2>2. \E label : Goto(s, label)
    BY <1>3 DEF SessionStep, ProbeOpen, ProbeClose, WriteOpen, WriteMessage, WriteClose, CheckOpen,
                CheckRead, ReadOpen, ReadBox
  <2>3. t = s
    BY <1>1, <1>2, <2>1, <2>2
  <2>4. ProbeOpen(s, "probe", "probed") => OpenBox(s, {"APPEND"})
    BY DEF ProbeOpen
  <2>5. ProbeClose(s, "probed", "work", "done") => pc[s] \notin Probing
    BY DEF ProbeClose, Probing
  <2>6. WriteOpen(s) \/ WriteMessage(s) \/ WriteClose(s) => pc[s] \notin Probing
    BY DEF WriteOpen, WriteMessage, WriteClose, Probing
  <2>7. CheckOpen(s) \/ CheckRead(s) \/ ReadOpen(s) \/ ReadBox(s) => pc[s] \notin Probing
    BY DEF CheckOpen, CheckRead, ReadOpen, ReadBox, Probing
  <2> QED BY <1>3, <2>3, <2>4, <2>5, <2>6, <2>7 DEF SessionStep
<1>4. ASSUME CreateBox PROVE OpenBox(t, {"APPEND"})
  <2>1. \E label : Goto(Main, label)
    BY <1>4 DEF CreateBox, ProbeOpen, ProbeClose, CreateOpen, CreateClose
  <2>2. t = Main
    BY <1>1, <1>2, <2>1
  <2>3. ProbeOpen(Main, "create_probe", "create_probed") => OpenBox(Main, {"APPEND"})
    BY DEF ProbeOpen
  <2>4. ProbeClose(Main, "create_probed", "idle", "create_open") \/ CreateOpen \/ CreateClose
          => pc[Main] \notin Probing
    BY DEF ProbeClose, CreateOpen, CreateClose, Probing
  <2> QED BY <1>4, <2>2, <2>3, <2>4 DEF CreateBox
<1>5. ~RemoveBox
  <2>1. RemoveBox => pc[Main] \notin Probing /\ \E label : Goto(Main, label)
    BY DEF RemoveBox, RemoveOpen, RemoveClose, RemoveUnlink, Probing
  <2> QED BY <1>1, <1>2, <2>1
<1>6. ~SessionRefused
  <2>1. SessionRefused => Goto(Main, "idle")
    BY DEF SessionRefused
  <2> QED BY <1>1, <1>2, <2>1 DEF Probed
<1>7. SessionProbe => OpenBox(t, {"APPEND"})
  BY <1>1, <1>2 DEF SessionProbe, ProbeOpen
<1>8. ~SessionProbed
  <2>1. SessionProbed => pc[Main] \notin Probing /\ \E label : Goto(Main, label)
    BY DEF SessionProbed, ProbeClose, Probing
  <2> QED BY <1>1, <1>2, <2>1
<1>9. ~SessionStart
  <2> SUFFICES ASSUME SessionStart PROVE FALSE
    OBVIOUS
  <2>1. PICK s0 \in Sessions : StartsAt(s0)
    BY SessionStarts
  <2> QED BY <1>1, <2>1 DEF StartsAt, Probed
<1>10. \A op, b : ~Request(op, b)
  <2>1. \A op, b : Request(op, b) => pc[Main] = "idle" /\ \E label : Goto(Main, label)
    BY DEF Request
  <2> QED BY <1>1, <1>2, <2>1 DEF Probing
<1>11. ~Receives
  <2>1. Receives => \E s \in Sessions : Goto(s, "write_open")
    BY DEF Receives, Receive
  <2> QED BY <1>1, <1>2, <2>1, SessionIsThread DEF Probed
<1>12. ~FramesReused
  BY <1>1 DEF FramesReused, FrameReused
<1> QED BY <1>3, <1>4, <1>5, <1>6, <1>7, <1>8, <1>9, <1>10, <1>11, <1>12 DEF BoxesNext, MainStep

\* With no subscribers to lose handles, and more handles than sessions, the
\* invariant of the probes holds of the broker.
THEOREM ProbesInvariant ==
  ASSUME "sub" \notin Requests, MAX_OPEN_FILES > MaxSessions
  PROVE  PoliteSpec => []ProbesInv
<1>1. ProbesInv /\ [PoliteNext]_allVars => ProbesInv'
  BY ProbesStep
<1> QED BY InitProbes, <1>1, PTL DEF PoliteSpec

\* does_box_exist (mbroker/boxes.c) compares with -1 a handle that tfs_open
\* refuses to give only when there is no such box, never because all are taken.
THEOREM ProbesAlwaysExact ==
  ASSUME "sub" \notin Requests, MAX_OPEN_FILES > MaxSessions
  PROVE  PoliteSpec => ProbeIsExact
<1>1. ProbesInv /\ [PoliteNext]_allVars =>
        [\A t \in Threads :
           /\ pc[t] \in {"probe", "create_probe", "session"}
           /\ pc'[t] \in {"probed", "create_probed", "session_probed"}
           => (fh'[t] # -1 <=> BoxExists(box[t]))]_allVars
  <2> SUFFICES ASSUME ProbesInv, PoliteNext, NEW t \in Threads, pc[t] \in Probing, pc'[t] \in Probed
               PROVE  fh'[t] # -1 <=> BoxExists(box[t])
    BY DEF Probing, Probed
  <2>1. BoxesNext
    BY BoxesAssumption DEF PoliteNext, PoliteRequest, BoxesNext
  <2>2. OpenBox(t, {"APPEND"})
    BY <2>1, ProbesByOpening DEF ProbesInv
  <2>3. pc[t] \notin Holding
    BY DEF Probing, Holding
  <2> QED BY <2>2, <2>3, ProbeExact DEF ProbesInv
<1> QED BY ProbesInvariant, <1>1, PTL DEF PoliteSpec, ProbeIsExact

\* create_box (mbroker/boxes.c) answers 0 only for a box that was not there:
\* nothing comes between does_box_exist and the tfs_open that creates the box.
THEOREM CreatesOnlyNew ==
  ASSUME "sub" \notin Requests, MAX_OPEN_FILES > MaxSessions
  PROVE  PoliteSpec => CreatesNewBox
<1>1. ProbesInv /\ [PoliteNext]_allVars =>
        [pc[Main] = "create_open" /\ pc'[Main] = "create_close" => ~BoxExists(box[Main])]_allVars
  BY DEF ProbesInv, ProbedRight
<1> QED BY ProbesInvariant, <1>1, PTL DEF PoliteSpec, CreatesNewBox

=============================================================================
