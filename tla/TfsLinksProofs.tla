--------------------------- MODULE TfsLinksProofs ---------------------------
(***************************************************************************)
(* Proofs about exercise1/fs called by one thread: type correctness, the   *)
(* counters of hard links, the blocks, the causes of a lost block and of a *)
(* failed assertion, the targets of symbolic links and the copy of a file  *)
(* from outside, for every size of the tables and every sequence of calls. *)
(***************************************************************************)
EXTENDS TfsLinks, TecnicoFSProofs, FiniteSetTheorems, SequenceTheorems

(***************************************************************************)
(* The inductive invariant.                                                *)
(***************************************************************************)

\* Used entries lead to live files, and only they have a name.
EntriesLive ==
  /\ NamesKept
  /\ \A e \in DirSlots : Used(e) => InumAt(e) # ROOT_DIR_INUM /\ Live(InumAt(e))

\* The counter of a live file is the number of its entries.
Counted ==
  \A i \in Inumbers \ {ROOT_DIR_INUM} : Live(i) =>
    /\ cnt_hardlinks[i] = Cardinality(EntriesOf(i))
    /\ cnt_hardlinks[i] > 0
    /\ is_softlink[i] => cnt_hardlinks[i] = 1

\* The handle of a copy in progress is open.
CopyOpen ==
  copy # NoCopy =>
    /\ IsOpen(copy.to)
    /\ copy.file \in ExternalFiles
    /\ copy.at <= Len(copy.file)
    /\ copy.outcome = 0 => copy.at = Len(copy.file)

\* What the file of a copy holds, unless a write failed.
CopyDone ==
  copy # NoCopy /\ copy.outcome # -1 =>
    LET entry == open_file_table[copy.to]
        inode == inode_table[entry.of_inumber]
    IN  /\ Live(entry.of_inumber)
        /\ entry.of_offset = AtMost(copy.at, BLOCK_SIZE)
        /\ inode.i_size = entry.of_offset
        /\ \A o \in 0 .. inode.i_size - 1 : fs_data[inode.i_data_block][o] = copy.file[o + 1]

\* Until a file is pulled from under a handle, handles lead to live files.
HandlesLive ==
  "pulled" \notin mishaps =>
    \A h \in Handles : IsOpen(h) => Live(open_file_table[h].of_inumber)

\* Until one is opened through a chain, they lead to no symbolic link, and
\* no further than the end of the file.
HandlesWithin ==
  mishaps \cap {"pulled", "chain"} = {} =>
    \A h \in Handles : IsOpen(h) =>
      LET entry == open_file_table[h]
      IN  /\ ~is_softlink[entry.of_inumber]
          /\ entry.of_offset <= inode_table[entry.of_inumber].i_size

\* A symbolic link holds the name of its target.
LinksSized ==
  mishaps \cap {"pulled", "chain"} = {} =>
    \A i \in Inumbers : Live(i) /\ is_softlink[i] => inode_table[i].i_size > 0

\* The types of the tables, and of what the library keeps beside them.
TablesTyped ==
  /\ freeinode_ts \in [Inumbers -> {"FREE", "TAKEN"}]
  /\ inode_table \in [Inumbers -> Inode]
  /\ dir_entry \in [DirSlots -> DirEntry]
  /\ free_blocks \in [Blocks -> {"FREE", "TAKEN"}]
  /\ fs_data \in [Blocks -> [Offsets -> Bytes \cup {Garbage}]]
  /\ free_open_file_entries \in [Handles -> {"FREE", "TAKEN"}]
  /\ open_file_table \in [Handles -> OpenFile]
  /\ ret \in Nat \cup {-1}
  /\ buf \in Seq(Bytes \cup {Garbage})

RestTyped ==
  /\ phase \in {"up", "panic", "stuck"}
  /\ cnt_hardlinks \in [Inumbers -> Nat]
  /\ is_softlink \in [Inumbers -> BOOLEAN]
  /\ mishaps \subseteq Mishaps

CopyTyped ==
  copy \in [to : Handles \cup {-1}, file : ExternalFiles \cup {<<>>},
            at : Nat, outcome : {-1, 0, 1}]

DirInv   == EntriesLive /\ Counted
CauseInv == HandlesLive /\ HandlesWithin /\ LinksSized /\ LostBlockHasCause /\ LinkPanicHasCause
CoreInv  == TablesTyped /\ RestTyped /\ DirInv /\ BlocksInv /\ CauseInv
CopyInv  == CopyTyped /\ CopyOpen /\ CopyDone
LinkInv  == CoreInv /\ CopyInv /\ lock_file_entries \in {"free", "kept"}

(***************************************************************************)
(* Facts every call needs.                                                 *)
(***************************************************************************)

\* Before a call the tables are those of TecnicoFS.
LEMMA CoreTyped == ASSUME CoreInv, phase = "up" PROVE TypeOK
  BY DEF CoreInv, TablesTyped, TypeOK

\* What an entry that is found leads to.
LEMMA FoundLive ==
  ASSUME CoreInv, NEW e \in DirSlots, NEW name, Finds(e, name)
  PROVE  /\ InumAt(e) \in Inumbers \ {ROOT_DIR_INUM} /\ Live(InumAt(e))
         /\ name \in Names /\ name # NoName
  BY DEF Finds, FindInDir, EntryMatches, CoreInv, DirInv, EntriesLive, NamesKept, Used, InumAt,
         TablesTyped, DirEntry

\* The entries of a file are finitely many, and none lead to a dead one.
LEMMA EntriesFinite ==
  ASSUME NEW i
  PROVE  IsFiniteSet(EntriesOf(i)) /\ Cardinality(EntriesOf(i)) \in Nat
<1>1. IsFiniteSet(DirSlots)
  BY SizesAssumption, FS_Interval DEF DirSlots
<1>2. IsFiniteSet(EntriesOf(i))
  BY <1>1, FS_Subset DEF EntriesOf
<1> QED BY <1>2, FS_CardinalityType

\* A step that changes none of the tables.
LEMMA TablesStay ==
  ASSUME CoreInv, UNCHANGED <<inodeVars, dir_entry, blockVars, fileVars, linkVars>>,
         mishaps \subseteq mishaps', mishaps' \subseteq Mishaps,
         phase' \in {"up", "panic", "stuck"},
         phase' = "panic" => mishaps' \cap {"no_inode", "pulled", "chain"} # {},
         ret' \in Nat \cup {-1}, buf' \in Seq(Bytes \cup {Garbage})
  PROVE  CoreInv'
<1>1. TablesTyped' /\ RestTyped'
  BY DEF CoreInv, TablesTyped, RestTyped, inodeVars, blockVars, fileVars, linkVars
<1>2. DirInv'
  BY DEF CoreInv, DirInv, EntriesLive, NamesKept, Used, Counted, Live, InumAt, EntriesOf,
         inodeVars, linkVars
<1>3. BlocksInv'
  BY DEF CoreInv, BlocksInv, BlocksExclusive, RootIntact, Owns, Live, IsOpen,
         inodeVars, blockVars, fileVars
<1>4. HandlesLive' /\ HandlesWithin' /\ LinksSized'
  BY DEF CoreInv, CauseInv, HandlesLive, HandlesWithin, LinksSized, Live, IsOpen,
         inodeVars, fileVars, linkVars
<1>5. LostBlockHasCause' /\ LinkPanicHasCause'
  BY DEF CoreInv, CauseInv, LostBlockHasCause, LinkPanicHasCause, Owns, Live,
         inodeVars, blockVars
<1> QED BY <1>1, <1>2, <1>3, <1>4, <1>5 DEF CoreInv, CauseInv

\* A call that fails at once.
LEMMA FailCore ==
  ASSUME CoreInv, phase = "up", FailLink, buf' = <<>>, UNCHANGED mishaps
  PROVE  CoreInv'
<1>1. /\ UNCHANGED <<inodeVars, dir_entry, blockVars, fileVars, linkVars>>
      /\ phase' = "up" /\ ret' = -1
  BY DEF FailLink, FailCall
<1>2. mishaps' \subseteq Mishaps
  BY DEF CoreInv, RestTyped
<1> QED BY <1>1, <1>2, TablesStay

\* Without a copy in progress there is nothing to say of one.
LEMMA NoCopyInv == ASSUME copy' = NoCopy PROVE CopyInv'
<1>1. CopyTyped'
  BY DEF CopyTyped, NoCopy
<1> QED BY <1>1 DEF CopyInv, CopyOpen, CopyDone

(***************************************************************************)
(* The directory and the counters.                                         *)
(***************************************************************************)

\* An entry more: of a new file, or of one that is linked again.
LEMMA EntryAdded ==
  ASSUME CoreInv, NEW name, NEW inum \in Inumbers \ {ROOT_DIR_INUM}, AddDirEntry(name, inum),
         \A i \in Inumbers : Live(i)' <=> Live(i) \/ i = inum,
         \A i \in Inumbers \ {inum} :
           cnt_hardlinks'[i] = cnt_hardlinks[i] /\ is_softlink'[i] = is_softlink[i],
         cnt_hardlinks'[inum] = (IF Live(inum) THEN cnt_hardlinks[inum] ELSE 0) + 1,
         Live(inum) => ~is_softlink'[inum]
  PROVE  DirInv' /\ dir_entry' \in [DirSlots -> DirEntry]
<1>1. PICK e \in DirSlots :
        /\ dir_entry[e].d_inumber = -1
        /\ dir_entry' = [dir_entry EXCEPT ![e] = [d_name |-> name, d_inumber |-> inum]]
  BY DEF AddDirEntry
<1>2. name \in Names /\ name # NoName /\ inum # -1 /\ dir_entry \in [DirSlots -> DirEntry]
  BY NamesAssumption, SizesAssumption DEF AddDirEntry, Inumbers, CoreInv, TablesTyped
<1>3. dir_entry' \in [DirSlots -> DirEntry]
  BY <1>1, <1>2 DEF DirEntry
<1>4. /\ InumAt(e)' = inum /\ dir_entry'[e].d_name = name
      /\ \A f \in DirSlots \ {e} : dir_entry'[f] = dir_entry[f]
  BY <1>1, <1>2 DEF InumAt
<1>5. EntriesLive'
  <2>1. NamesKept'
    BY <1>2, <1>4 DEF NamesKept, Used, InumAt, CoreInv, DirInv, EntriesLive
  <2>2. ASSUME NEW f \in DirSlots, Used(f)'
        PROVE  InumAt(f)' # ROOT_DIR_INUM /\ freeinode_ts'[InumAt(f)'] = "TAKEN"
    <3>1. CASE f = e
      BY <1>4, <3>1 DEF Live
    <3>2. CASE f # e
      <4>1. Used(f) /\ InumAt(f)' = InumAt(f) /\ InumAt(f) \in Inumbers
        BY <1>2, <1>4, <2>2, <3>2 DEF Used, InumAt, DirEntry
      <4> QED BY <4>1 DEF CoreInv, DirInv, EntriesLive, Live
    <3> QED BY <3>1, <3>2
  <2> QED BY <2>1, <2>2 DEF EntriesLive, Live
<1>6. EntriesOf(inum)' = EntriesOf(inum) \cup {e} /\ e \notin EntriesOf(inum)
  BY <1>1, <1>2, <1>4 DEF EntriesOf, InumAt
<1>7. \A i \in Inumbers \ {inum} : EntriesOf(i)' = EntriesOf(i)
  BY <1>1, <1>4, SizesAssumption DEF EntriesOf, InumAt, Inumbers
<1>8. Cardinality(EntriesOf(inum)') = Cardinality(EntriesOf(inum)) + 1
  BY <1>6, EntriesFinite, FS_AddElement
<1>9. ~Live(inum) => Cardinality(EntriesOf(inum)) = 0
  <2>1. ~Live(inum) => EntriesOf(inum) = {}
    BY <1>2 DEF EntriesOf, InumAt, CoreInv, DirInv, EntriesLive, Used
  <2> QED BY <2>1, FS_EmptySet
<1>10. Counted'
  <2> SUFFICES ASSUME NEW i \in Inumbers \ {ROOT_DIR_INUM}, Live(i)'
               PROVE  /\ cnt_hardlinks'[i] = Cardinality(EntriesOf(i)')
                      /\ cnt_hardlinks'[i] > 0
                      /\ is_softlink'[i] => cnt_hardlinks'[i] = 1
    BY DEF Counted
  <2>1. CASE i # inum
    <3>1. /\ cnt_hardlinks[i] = Cardinality(EntriesOf(i)) /\ cnt_hardlinks[i] > 0
          /\ is_softlink[i] => cnt_hardlinks[i] = 1
      BY <2>1 DEF CoreInv, DirInv, Counted
    <3> QED BY <1>7, <2>1, <3>1
  <2>2. CASE i = inum /\ ~Live(inum)
    BY <1>8, <1>9, <2>2
  <2>3. CASE i = inum /\ Live(inum)
    <3>1. cnt_hardlinks[inum] = Cardinality(EntriesOf(inum))
      BY <2>3 DEF CoreInv, DirInv, Counted
    <3> QED BY <1>8, <2>3, <3>1, EntriesFinite
  <2> QED BY <2>1, <2>2, <2>3
<1> QED BY <1>3, <1>5, <1>10 DEF DirInv

\* An entry less: the file goes with the last one.
LEMMA EntryRemoved ==
  ASSUME CoreInv, phase = "up", NEW e \in DirSlots, NEW name, Finds(e, name), ClearDirEntry(name),
         cnt_hardlinks' = [cnt_hardlinks EXCEPT ![InumAt(e)] = @ - 1],
         UNCHANGED is_softlink,
         \A i \in Inumbers : Live(i)' <=> Live(i) /\ ~(i = InumAt(e) /\ cnt_hardlinks[i] = 1)
  PROVE  /\ DirInv' /\ dir_entry' \in [DirSlots -> DirEntry]
         /\ cnt_hardlinks' \in [Inumbers -> Nat]
<1>0. PICK inum \in Inumbers \ {ROOT_DIR_INUM} : inum = InumAt(e)
  BY FoundLive
<1>1. /\ Live(inum) /\ Used(e)
      /\ cnt_hardlinks \in [Inumbers -> Nat] /\ dir_entry \in [DirSlots -> DirEntry]
  BY <1>0, FoundLive DEF Finds, FindInDir, EntryMatches, Used, CoreInv, RestTyped, TablesTyped
<1>2. /\ dir_entry'[e] = [d_name |-> NoName, d_inumber |-> -1]
      /\ \A f \in DirSlots \ {e} : dir_entry'[f] = dir_entry[f]
  BY CoreTyped, ClearsFound DEF Finds, CoreInv, DirInv, EntriesLive
<1>3. dir_entry' \in [DirSlots -> DirEntry]
  BY <1>1 DEF ClearDirEntry, DirEntry
<1>4. EntriesOf(inum)' = EntriesOf(inum) \ {e} /\ e \in EntriesOf(inum)
  BY <1>0, <1>1, <1>2, SizesAssumption DEF EntriesOf, InumAt, Inumbers
<1>5. \A i \in Inumbers \ {inum} : EntriesOf(i)' = EntriesOf(i)
  BY <1>0, <1>2, SizesAssumption DEF EntriesOf, InumAt, Inumbers
<1>6. Cardinality(EntriesOf(inum)') = Cardinality(EntriesOf(inum)) - 1
  BY <1>4, EntriesFinite, FS_RemoveElement
<1>7. cnt_hardlinks[inum] = Cardinality(EntriesOf(inum)) /\ cnt_hardlinks[inum] > 0
        /\ (is_softlink[inum] => cnt_hardlinks[inum] = 1)
  BY <1>1 DEF CoreInv, DirInv, Counted
<1>8. /\ cnt_hardlinks' \in [Inumbers -> Nat] /\ cnt_hardlinks'[inum] = cnt_hardlinks[inum] - 1
      /\ \A i \in Inumbers \ {inum} : cnt_hardlinks'[i] = cnt_hardlinks[i]
  BY <1>0, <1>1, <1>7
<1>9. EntriesLive'
  <2>1. NamesKept'
    BY <1>2 DEF NamesKept, Used, CoreInv, DirInv, EntriesLive
  <2>2. ASSUME NEW f \in DirSlots, Used(f)'
        PROVE  InumAt(f)' # ROOT_DIR_INUM /\ freeinode_ts'[InumAt(f)'] = "TAKEN"
    <3>1. f # e /\ Used(f) /\ InumAt(f)' = InumAt(f)
      BY <1>2, <2>2 DEF Used, InumAt
    <3>2. InumAt(f) \in Inumbers /\ InumAt(f) # ROOT_DIR_INUM /\ Live(InumAt(f))
      BY <1>1, <3>1 DEF CoreInv, DirInv, EntriesLive, Used, InumAt, DirEntry
    <3>3. ~(InumAt(f) = inum /\ cnt_hardlinks[inum] = 1)
      <4> SUFFICES ASSUME InumAt(f) = inum, cnt_hardlinks[inum] = 1 PROVE FALSE
        OBVIOUS
      <4>1. f \in EntriesOf(inum)' /\ Cardinality(EntriesOf(inum)') = 0
        BY <1>6, <1>7, <3>1 DEF EntriesOf
      <4>2. IsFiniteSet(EntriesOf(inum)')
        BY <1>4, EntriesFinite, FS_RemoveElement
      <4> QED BY <4>1, <4>2, FS_EmptySet
    <3> QED BY <1>0, <3>1, <3>2, <3>3 DEF Live
  <2> QED BY <2>1, <2>2 DEF EntriesLive, Live
<1>10. Counted'
  <2> SUFFICES ASSUME NEW i \in Inumbers \ {ROOT_DIR_INUM}, Live(i)'
               PROVE  /\ cnt_hardlinks'[i] = Cardinality(EntriesOf(i)')
                      /\ cnt_hardlinks'[i] > 0
                      /\ is_softlink'[i] => cnt_hardlinks'[i] = 1
    BY DEF Counted
  <2>1. CASE i # inum
    <3>1. /\ cnt_hardlinks[i] = Cardinality(EntriesOf(i)) /\ cnt_hardlinks[i] > 0
          /\ is_softlink[i] => cnt_hardlinks[i] = 1
      BY <2>1 DEF CoreInv, DirInv, Counted
    <3> QED BY <1>5, <1>8, <2>1, <3>1
  <2>2. CASE i = inum
    <3>1. cnt_hardlinks[inum] # 1 /\ ~is_softlink[inum]
      BY <1>0, <1>7, <2>2
    <3> QED BY <1>1, <1>6, <1>7, <1>8, <2>2, <3>1
  <2> QED BY <2>1, <2>2
<1> QED BY <1>3, <1>8, <1>9, <1>10 DEF DirInv

\* Fields of a dead inode, and no entry, changed.
LEMMA DeadInodeDir ==
  ASSUME CoreInv, NEW inum \in Inumbers, ~Live(inum), UNCHANGED <<freeinode_ts, dir_entry>>,
         \A i \in Inumbers \ {inum} :
           cnt_hardlinks'[i] = cnt_hardlinks[i] /\ is_softlink'[i] = is_softlink[i]
  PROVE  DirInv'
<1>1. EntriesLive'
  BY DEF CoreInv, DirInv, EntriesLive, NamesKept, Used, Live, InumAt
<1>2. ASSUME NEW i \in Inumbers \ {ROOT_DIR_INUM}, Live(i)'
      PROVE  /\ cnt_hardlinks'[i] = Cardinality(EntriesOf(i)')
             /\ cnt_hardlinks'[i] > 0
             /\ is_softlink'[i] => cnt_hardlinks'[i] = 1
  <2>1. Live(i) /\ i # inum
    BY <1>2 DEF Live
  <2>2. EntriesOf(i)' = EntriesOf(i)
    BY DEF EntriesOf, InumAt
  <2> QED BY <2>1, <2>2 DEF CoreInv, DirInv, Counted
<1> QED BY <1>1, <1>2 DEF DirInv, Counted

(***************************************************************************)
(* Handles, blocks and causes.                                             *)
(***************************************************************************)

\* A handle more, if there is room and the lock is free.
LEMMA HandleAdded ==
  ASSUME TablesTyped, phase = "up", NEW inum \in Inumbers, NEW off \in Nat, AddHandle(inum, off)
  PROVE  /\ free_open_file_entries' \in [Handles -> {"FREE", "TAKEN"}]
         /\ open_file_table' \in [Handles -> OpenFile]
         /\ ret' \in Nat \cup {-1}
         /\ phase' \in {"up", "stuck"}
         /\ \A h \in Handles : IsOpen(h)' =>
              \/ IsOpen(h) /\ open_file_table'[h] = open_file_table[h]
              \/ open_file_table'[h] = [of_inumber |-> inum, of_offset |-> off]
         /\ phase' = "up" /\ ret' # -1 =>
              /\ ret' \in Handles /\ free_open_file_entries'[ret'] = "TAKEN"
              /\ open_file_table'[ret'] = [of_inumber |-> inum, of_offset |-> off]
<1>1. CASE phase' = "stuck" /\ UNCHANGED <<fileVars, ret>>
  BY <1>1 DEF fileVars, TablesTyped, IsOpen
<1>2. CASE NoneFree(free_open_file_entries) /\ ret' = -1 /\ UNCHANGED fileVars /\ UNCHANGED phase
  BY <1>2 DEF fileVars, TablesTyped, IsOpen
<1>3. ASSUME NEW h \in Handles,
             free_open_file_entries' = [free_open_file_entries EXCEPT ![h] = "TAKEN"],
             open_file_table' = [open_file_table EXCEPT ![h] =
                                   [of_inumber |-> inum, of_offset |-> off]],
             ret' = h, UNCHANGED phase
      PROVE  /\ free_open_file_entries' \in [Handles -> {"FREE", "TAKEN"}]
             /\ open_file_table' \in [Handles -> OpenFile]
             /\ ret' \in Nat \cup {-1}
             /\ phase' \in {"up", "stuck"}
             /\ \A g \in Handles : IsOpen(g)' =>
                  \/ IsOpen(g) /\ open_file_table'[g] = open_file_table[g]
                  \/ open_file_table'[g] = [of_inumber |-> inum, of_offset |-> off]
             /\ phase' = "up" /\ ret' # -1 =>
                  /\ ret' \in Handles /\ free_open_file_entries'[ret'] = "TAKEN"
                  /\ open_file_table'[ret'] = [of_inumber |-> inum, of_offset |-> off]
  <2>1. [of_inumber |-> inum, of_offset |-> off] \in OpenFile /\ h \in Nat
    BY SizesAssumption DEF OpenFile, Handles
  <2>2. /\ free_open_file_entries \in [Handles -> {"FREE", "TAKEN"}]
        /\ open_file_table \in [Handles -> OpenFile]
    BY DEF TablesTyped
  <2>3. /\ free_open_file_entries'[h] = "TAKEN"
        /\ open_file_table'[h] = [of_inumber |-> inum, of_offset |-> off]
        /\ \A g \in Handles \ {h} : /\ free_open_file_entries'[g] = free_open_file_entries[g]
                                   /\ open_file_table'[g] = open_file_table[g]
    BY <1>3, <2>2
  <2> QED BY <1>3, <2>1, <2>2, <2>3 DEF IsOpen
<1> QED BY <1>1, <1>2, <1>3 DEF AddHandle, AddToOpenFileTable

\* An inode that was dead is written: it comes and goes, or it stays, with no
\* block or with one that was free.
LEMMA InodeWritten ==
  ASSUME CoreInv, NEW inum \in Inumbers, ~Live(inum), NEW r \in Inode, NEW soft \in BOOLEAN,
         inode_table' = [inode_table EXCEPT ![inum] = r],
         is_softlink' = [is_softlink EXCEPT ![inum] = soft],
         \A i \in Inumbers \ {inum} : Live(i)' <=> Live(i),
         soft /\ Live(inum)' => r.i_size > 0,
         \/ UNCHANGED free_blocks /\ r.i_size = 0
         \/ \E b \in Blocks :
              /\ free_blocks[b] = "FREE" /\ free_blocks' = [free_blocks EXCEPT ![b] = "TAKEN"]
              /\ r.i_data_block = b
              /\ (Live(inum)' /\ r.i_size > 0) \/ (r.i_size = 0 /\ "full" \in mishaps'),
         \A h \in Handles : IsOpen(h)' =>
           \/ IsOpen(h) /\ open_file_table'[h] = open_file_table[h]
           \/ /\ open_file_table'[h] = [of_inumber |-> inum, of_offset |-> 0]
              /\ Live(inum)' /\ ~soft,
         mishaps \subseteq mishaps', phase' # "panic"
  PROVE  BlocksInv' /\ CauseInv'
<1>1. inode_table \in [Inumbers -> Inode] /\ is_softlink \in [Inumbers -> BOOLEAN]
        /\ free_blocks \in [Blocks -> {"FREE", "TAKEN"}] /\ open_file_table \in [Handles -> OpenFile]
  BY DEF CoreInv, TablesTyped, RestTyped
<1>2. inum # ROOT_DIR_INUM
  BY DEF CoreInv, BlocksInv, RootIntact
<1>3. /\ inode_table'[inum] = r /\ is_softlink'[inum] = soft
      /\ \A i \in Inumbers \ {inum} : /\ inode_table'[i] = inode_table[i]
                                     /\ is_softlink'[i] = is_softlink[i]
  BY <1>1
<1>4. r.i_size \in Nat
  BY SizesAssumption DEF Inode
<1>5. RootIntact'
  <2>1. ASSUME NEW h \in Handles, IsOpen(h)' PROVE open_file_table'[h].of_inumber # ROOT_DIR_INUM
    BY <1>2, <2>1 DEF CoreInv, BlocksInv, RootIntact
  <2> QED BY <1>2, <1>3, <2>1, RootInumber DEF CoreInv, BlocksInv, RootIntact, RootInode, Live
<1>6. BlocksExclusive' /\ LostBlockHasCause'
  <2>1. CASE UNCHANGED free_blocks /\ r.i_size = 0
    <3>1. \A i \in Inumbers, b \in Blocks : Owns(i, b)' <=> Owns(i, b)
      BY <1>3, <2>1 DEF Owns, Live
    <3>2. BlocksExclusive'
      BY <1>3, <2>1, <3>1 DEF BlocksExclusive, CoreInv, BlocksInv, Live
    <3> QED BY <2>1, <3>1, <3>2 DEF LostBlockHasCause, CoreInv, CauseInv
  <2>2. ASSUME NEW b \in Blocks,
               free_blocks[b] = "FREE", free_blocks' = [free_blocks EXCEPT ![b] = "TAKEN"],
               r.i_data_block = b,
               (Live(inum)' /\ r.i_size > 0) \/ (r.i_size = 0 /\ "full" \in mishaps')
        PROVE  BlocksExclusive' /\ LostBlockHasCause'
    <3>1. free_blocks'[b] = "TAKEN" /\ \A c \in Blocks \ {b} : free_blocks'[c] = free_blocks[c]
      BY <1>1, <2>2
    <3>2. \A i \in Inumbers \ {inum}, c \in Blocks : Owns(i, c)' <=> Owns(i, c)
      BY <1>3 DEF Owns, Live
    <3>3. \A i \in Inumbers : ~Owns(i, b)
      BY <2>2 DEF Owns, CoreInv, BlocksInv, BlocksExclusive
    <3>4. \A c \in Blocks : Owns(inum, c)' => c = b
      BY <1>3, <2>2 DEF Owns
    <3>5. BlocksExclusive'
      BY <1>3, <2>2, <3>1, <3>2, <3>3, <3>4 DEF BlocksExclusive, CoreInv, BlocksInv, Live, Owns
    <3>6. ASSUME mishaps' \cap {"full", "pulled"} = {}, NEW c \in Blocks, free_blocks'[c] = "TAKEN"
          PROVE  \E i \in Inumbers : Owns(i, c)'
      <4>1. CASE c = b
        <5>1. Owns(inum, b)'
          BY <1>3, <2>2, <3>6 DEF Owns
        <5> QED BY <4>1, <5>1
      <4>2. CASE c # b
        <5>1. PICK i \in Inumbers : Owns(i, c)
          BY <3>1, <3>6, <4>2 DEF CoreInv, CauseInv, LostBlockHasCause
        <5>2. i # inum
          BY <5>1 DEF Owns
        <5> QED BY <3>2, <5>1, <5>2
      <4> QED BY <4>1, <4>2
    <3> QED BY <3>5, <3>6 DEF LostBlockHasCause
  <2> QED BY <2>1, <2>2
<1>7. HandlesLive'
  <2> SUFFICES ASSUME "pulled" \notin mishaps', NEW h \in Handles, IsOpen(h)'
               PROVE  freeinode_ts'[open_file_table'[h].of_inumber] = "TAKEN"
    BY DEF HandlesLive, Live
  <2>1. CASE IsOpen(h) /\ open_file_table'[h] = open_file_table[h]
    <3>1. Live(open_file_table[h].of_inumber) /\ open_file_table[h].of_inumber \in Inumbers
      BY <1>1, <2>1 DEF CoreInv, CauseInv, HandlesLive, OpenFile
    <3> QED BY <2>1, <3>1 DEF Live
  <2>2. CASE open_file_table'[h] = [of_inumber |-> inum, of_offset |-> 0] /\ Live(inum)'
    BY <2>2 DEF Live
  <2> QED BY <2>1, <2>2
<1>8. HandlesWithin'
  <2> SUFFICES ASSUME mishaps' \cap {"pulled", "chain"} = {}, NEW h \in Handles, IsOpen(h)'
               PROVE  /\ ~is_softlink'[open_file_table'[h].of_inumber]
                      /\ open_file_table'[h].of_offset
                           <= inode_table'[open_file_table'[h].of_inumber].i_size
    BY DEF HandlesWithin
  <2>1. CASE IsOpen(h) /\ open_file_table'[h] = open_file_table[h]
    <3>1. Live(open_file_table[h].of_inumber) /\ open_file_table[h].of_inumber \in Inumbers
      BY <1>1, <2>1 DEF CoreInv, CauseInv, HandlesLive, OpenFile
    <3> QED BY <1>3, <2>1, <3>1 DEF CoreInv, CauseInv, HandlesWithin
  <2>2. CASE open_file_table'[h] = [of_inumber |-> inum, of_offset |-> 0] /\ ~soft
    BY <1>3, <1>4, <2>2
  <2> QED BY <2>1, <2>2
<1>9. LinksSized'
  BY <1>3 DEF LinksSized, CoreInv, CauseInv, Live
<1> QED BY <1>5, <1>6, <1>7, <1>8, <1>9 DEF BlocksInv, CauseInv, LinkPanicHasCause

(***************************************************************************)
(* tfs_open.                                                               *)
(***************************************************************************)

\* A file that is in the directory is opened, truncated or not.
LEMMA OpenInodeCore ==
  ASSUME CoreInv, phase = "up", NEW inum \in Inumbers \ {ROOT_DIR_INUM}, Live(inum),
         NEW mode, OpenInode(inum, mode), buf' = <<>>,
         mishaps \subseteq mishaps', mishaps' \subseteq Mishaps,
         is_softlink[inum] => "chain" \in mishaps',
         TruncatesOpen(inum, mode) => mishaps' \cap {"pulled", "chain"} # {}
  PROVE  CoreInv'
<1> DEFINE off == InitialOffset(inode_table'[inum].i_size, mode)
<1>1. TypeOK /\ TablesTyped /\ RestTyped /\ DirInv /\ BlocksInv /\ CauseInv
  BY CoreTyped DEF CoreInv
<1>2. /\ inode_table' \in [Inumbers -> Inode]
      /\ free_blocks' \in [Blocks -> {"FREE", "TAKEN"}]
  BY <1>1, TruncateTyped DEF OpenInode
<1>3. off \in Nat /\ off <= inode_table'[inum].i_size
  BY <1>2, SizesAssumption DEF InitialOffset, Inode
<1>4. AddHandle(inum, off) /\ UNCHANGED <<freeinode_ts, dir_entry, fs_data, linkVars>>
  BY DEF OpenInode
<1> HIDE DEF off
<1>5. /\ free_open_file_entries' \in [Handles -> {"FREE", "TAKEN"}]
      /\ open_file_table' \in [Handles -> OpenFile]
      /\ ret' \in Nat \cup {-1}
      /\ phase' \in {"up", "stuck"}
      /\ \A h \in Handles : IsOpen(h)' =>
           \/ IsOpen(h) /\ open_file_table'[h] = open_file_table[h]
           \/ open_file_table'[h] = [of_inumber |-> inum, of_offset |-> off]
  BY <1>1, <1>3, <1>4, HandleAdded
<1>6. TablesTyped' /\ RestTyped'
  BY <1>1, <1>2, <1>4, <1>5 DEF TablesTyped, RestTyped, linkVars
<1>7. DirInv'
  BY <1>1, <1>4 DEF DirInv, EntriesLive, NamesKept, Used, Counted, Live, InumAt, EntriesOf, linkVars
<1>8. BlocksInv'
  <2>1. BlocksExclusive' /\ UNCHANGED inode_table[ROOT_DIR_INUM]
    BY <1>1, <1>4, TruncateBlocks DEF OpenInode
  <2>2. ASSUME NEW h \in Handles, IsOpen(h)' PROVE open_file_table'[h].of_inumber # ROOT_DIR_INUM
    BY <1>1, <1>5, <2>2 DEF BlocksInv, RootIntact
  <2>3. RootIntact'
    BY <1>1, <1>4, <2>1, <2>2 DEF BlocksInv, RootIntact, Live
  <2> QED BY <2>1, <2>3 DEF BlocksInv
<1>9. /\ \A i \in Inumbers \ {inum} : inode_table'[i] = inode_table[i]
      /\ ~TruncatesOpen(inum, mode) /\ inode_table'[inum] # inode_table[inum] => HandlesOn(inum) = {}
      /\ \/ UNCHANGED free_blocks /\ inode_table'[inum] = inode_table[inum]
         \/ /\ free_blocks' = [free_blocks EXCEPT ![inode_table[inum].i_data_block] = "FREE"]
            /\ inode_table[inum].i_size > 0
  BY <1>1 DEF OpenInode, Truncate, TruncatesOpen, TypeOK
<1>10. HandlesLive'
  BY <1>1, <1>4, <1>5 DEF CauseInv, HandlesLive, Live
<1>11. HandlesWithin'
  <2> SUFFICES ASSUME mishaps' \cap {"pulled", "chain"} = {}, NEW h \in Handles, IsOpen(h)'
               PROVE  /\ ~is_softlink[open_file_table'[h].of_inumber]
                      /\ open_file_table'[h].of_offset
                           <= inode_table'[open_file_table'[h].of_inumber].i_size
    BY <1>4 DEF HandlesWithin, linkVars
  <2>1. CASE open_file_table'[h] = [of_inumber |-> inum, of_offset |-> off]
    BY <1>3, <2>1
  <2>2. CASE IsOpen(h) /\ open_file_table'[h] = open_file_table[h]
    <3>1. /\ ~is_softlink[open_file_table[h].of_inumber] /\ open_file_table[h].of_inumber \in Inumbers
          /\ open_file_table[h].of_offset <= inode_table[open_file_table[h].of_inumber].i_size
      BY <1>1, <2>2 DEF CauseInv, HandlesWithin, TablesTyped, OpenFile
    <3>2. inode_table'[open_file_table[h].of_inumber] = inode_table[open_file_table[h].of_inumber]
      <4>1. ~TruncatesOpen(inum, mode)
        OBVIOUS
      <4>2. open_file_table[h].of_inumber = inum => HandlesOn(inum) # {}
        BY <2>2 DEF HandlesOn
      <4> QED BY <1>9, <3>1, <4>1, <4>2
    <3> QED BY <2>2, <3>1, <3>2
  <2> QED BY <1>5, <2>1, <2>2
<1>12. LinksSized'
  <2> SUFFICES ASSUME mishaps' \cap {"pulled", "chain"} = {}, NEW i \in Inumbers,
                      freeinode_ts[i] = "TAKEN", is_softlink[i]
               PROVE  inode_table'[i].i_size > 0
    BY <1>4 DEF LinksSized, Live, linkVars
  <2>1. i # inum
    OBVIOUS
  <2> QED BY <1>1, <1>9, <2>1 DEF CauseInv, LinksSized, Live
<1>13. LostBlockHasCause'
  <2> SUFFICES ASSUME NEW b \in Blocks, free_blocks'[b] = "TAKEN",
                      mishaps' \cap {"full", "pulled"} = {}
               PROVE  \E i \in Inumbers : Owns(i, b)'
    BY DEF LostBlockHasCause
  <2>1. /\ free_blocks[b] = "TAKEN"
        /\ inode_table'[inum] = inode_table[inum] \/ inode_table[inum].i_data_block # b
    <3>1. free_blocks \in [Blocks -> {"FREE", "TAKEN"}]
      BY <1>1 DEF TablesTyped
    <3>2. CASE UNCHANGED free_blocks /\ inode_table'[inum] = inode_table[inum]
      BY <3>2
    <3>3. CASE free_blocks' = [free_blocks EXCEPT ![inode_table[inum].i_data_block] = "FREE"]
      BY <3>1, <3>3
    <3> QED BY <1>9, <3>2, <3>3
  <2>2. PICK i \in Inumbers : Owns(i, b)
    BY <1>1, <2>1 DEF CauseInv, LostBlockHasCause
  <2>3. inode_table'[i] = inode_table[i]
    BY <1>9, <2>1, <2>2 DEF Owns
  <2> QED BY <1>4, <2>2, <2>3 DEF Owns, Live
<1> QED BY <1>5, <1>6, <1>7, <1>8, <1>10, <1>11, <1>12, <1>13 DEF CoreInv, CauseInv, LinkPanicHasCause

\* An inode that comes and goes, and changes nothing but its own fields.
LEMMA ComesAndGoesCore ==
  ASSUME CoreInv, phase = "up", NEW inum \in Inumbers, NEW soft \in BOOLEAN,
         InodeComesAndGoes(inum, soft), ret' = -1, buf' = <<>>,
         UNCHANGED <<phase, dir_entry, blockVars, fileVars, mishaps>>
  PROVE  CoreInv'
<1>1. ~Live(inum) /\ UNCHANGED freeinode_ts /\ TablesTyped /\ RestTyped
  BY DEF InodeComesAndGoes, IsFirstFree, Live, CoreInv
<1>2. NewFileInode \in Inode /\ NewFileInode.i_size = 0
  BY SizesAssumption DEF NewFileInode, Inode
<1>3. TablesTyped' /\ RestTyped'
  BY <1>1, <1>2 DEF TablesTyped, RestTyped, InodeComesAndGoes, blockVars, fileVars
<1>4. DirInv'
  BY <1>1, DeadInodeDir DEF InodeComesAndGoes, RestTyped
<1>5. \A h \in Handles : IsOpen(h)' => IsOpen(h) /\ open_file_table'[h] = open_file_table[h]
  BY DEF IsOpen, fileVars
<1>6. /\ inode_table' = [inode_table EXCEPT ![inum] = NewFileInode]
      /\ is_softlink' = [is_softlink EXCEPT ![inum] = soft]
      /\ \A i \in Inumbers : Live(i)' <=> Live(i)
      /\ UNCHANGED free_blocks
      /\ phase' = "up"
  BY <1>1 DEF InodeComesAndGoes, blockVars, Live
<1>7. BlocksInv' /\ CauseInv'
  BY <1>1, <1>2, <1>5, <1>6, InodeWritten
<1> QED BY <1>3, <1>4, <1>7 DEF CoreInv

\* A new file gets an inode, an entry and, if there is room, a handle.
LEMMA FileMadeCore ==
  ASSUME CoreInv, phase = "up", NEW name, NEW inum \in Inumbers, InodeCreate(inum, FALSE),
         AddDirEntry(name, inum), AddHandle(inum, 0), buf' = <<>>, UNCHANGED <<blockVars, mishaps>>
  PROVE  CoreInv'
<1>1. ~Live(inum) /\ TablesTyped /\ RestTyped /\ inum # ROOT_DIR_INUM
  BY DEF InodeCreate, InodeCreateFile, IsFirstFree, Live, CoreInv, BlocksInv, RootIntact
<1>2. NewFileInode \in Inode /\ NewFileInode.i_size = 0
  BY SizesAssumption DEF NewFileInode, Inode
<1>3. /\ freeinode_ts' = [freeinode_ts EXCEPT ![inum] = "TAKEN"]
      /\ inode_table' = [inode_table EXCEPT ![inum] = NewFileInode]
      /\ cnt_hardlinks' = [cnt_hardlinks EXCEPT ![inum] = 1]
      /\ is_softlink' = [is_softlink EXCEPT ![inum] = FALSE]
  BY DEF InodeCreate, InodeCreateFile
<1>4. \A i \in Inumbers : Live(i)' <=> Live(i) \/ i = inum
  BY <1>1, <1>3 DEF Live, TablesTyped
<1>5. DirInv' /\ dir_entry' \in [DirSlots -> DirEntry]
  <2>1. /\ \A i \in Inumbers \ {inum} :
             cnt_hardlinks'[i] = cnt_hardlinks[i] /\ is_softlink'[i] = is_softlink[i]
        /\ cnt_hardlinks'[inum] = (IF Live(inum) THEN cnt_hardlinks[inum] ELSE 0) + 1
        /\ Live(inum) => ~is_softlink'[inum]
    BY <1>1, <1>3 DEF RestTyped
  <2>2. inum \in Inumbers \ {ROOT_DIR_INUM}
    BY <1>1
  <2> QED BY <1>4, <2>1, <2>2, EntryAdded
<1>6. /\ free_open_file_entries' \in [Handles -> {"FREE", "TAKEN"}]
      /\ open_file_table' \in [Handles -> OpenFile]
      /\ ret' \in Nat \cup {-1}
      /\ phase' \in {"up", "stuck"}
      /\ \A h \in Handles : IsOpen(h)' =>
           \/ IsOpen(h) /\ open_file_table'[h] = open_file_table[h]
           \/ open_file_table'[h] = [of_inumber |-> inum, of_offset |-> 0]
  BY <1>1, HandleAdded
<1>7. TablesTyped' /\ RestTyped'
  BY <1>1, <1>2, <1>3, <1>5, <1>6 DEF TablesTyped, RestTyped, blockVars
<1>8. UNCHANGED free_blocks /\ mishaps \subseteq mishaps' /\ phase' # "panic" /\ Live(inum)'
        /\ (\A i \in Inumbers \ {inum} : Live(i)' <=> Live(i))
  BY <1>4, <1>6 DEF blockVars
<1>9. BlocksInv' /\ CauseInv'
  BY <1>1, <1>2, <1>3, <1>6, <1>8, InodeWritten
<1> QED BY <1>5, <1>7, <1>9 DEF CoreInv

\* What tfs_open hands out: a handle on a file that is live, at its end if
\* it was opened to append.
OpenGives(mode) ==
  phase' = "up" /\ ret' # -1 =>
    /\ ret' \in Handles /\ free_open_file_entries'[ret'] = "TAKEN"
    /\ LET entry == open_file_table'[ret']
       IN  /\ entry.of_inumber \in Inumbers /\ freeinode_ts'[entry.of_inumber] = "TAKEN"
           /\ "TRUNC" \in mode => inode_table'[entry.of_inumber].i_size = 0 /\ entry.of_offset = 0

\* What it hands out for a file that is in the directory.
LEMMA OpenInodeGives ==
  ASSUME CoreInv, phase = "up", NEW inum \in Inumbers, Live(inum), NEW mode, OpenInode(inum, mode)
  PROVE  OpenGives(mode)
<1> DEFINE off == InitialOffset(inode_table'[inum].i_size, mode)
<1>1. TypeOK /\ TablesTyped
  BY CoreTyped DEF CoreInv
<1>2. inode_table' \in [Inumbers -> Inode]
  BY <1>1, TruncateTyped DEF OpenInode
<1>3. off \in Nat
  BY <1>2, SizesAssumption DEF InitialOffset, Inode
<1>4. "TRUNC" \in mode => inode_table'[inum].i_size = 0
  <2>1. inode_table[inum] \in Inode /\ inode_table \in [Inumbers -> Inode]
    BY <1>1 DEF TypeOK
  <2>2. inode_table[inum].i_size \in Nat
    BY <2>1, SizesAssumption DEF Inode
  <2>3. CASE inode_table' = [inode_table EXCEPT ![inum].i_size = 0]
    BY <2>1, <2>3 DEF Inode
  <2>4. CASE ~(inode_table[inum].i_size > 0) /\ UNCHANGED inode_table
    BY <2>2, <2>4
  <2> QED BY <2>3, <2>4 DEF OpenInode, Truncate
<1>5. "TRUNC" \in mode => off = 0
  BY <1>4 DEF InitialOffset
<1>6. AddHandle(inum, off) /\ UNCHANGED freeinode_ts
  BY DEF OpenInode
<1> HIDE DEF off
<1>7. phase' = "up" /\ ret' # -1 =>
        /\ ret' \in Handles /\ free_open_file_entries'[ret'] = "TAKEN"
        /\ open_file_table'[ret'] = [of_inumber |-> inum, of_offset |-> off]
  BY <1>1, <1>3, <1>6, HandleAdded
<1> QED BY <1>4, <1>5, <1>6, <1>7 DEF OpenGives, Live

\* What it hands out for a new file.
LEMMA FileMadeGives ==
  ASSUME CoreInv, phase = "up", NEW inum \in Inumbers, InodeCreate(inum, FALSE),
         AddHandle(inum, 0), NEW mode
  PROVE  OpenGives(mode)
<1>1. TablesTyped
  BY DEF CoreInv
<1>2. inode_table'[inum] = NewFileInode /\ freeinode_ts'[inum] = "TAKEN"
  BY <1>1 DEF InodeCreate, InodeCreateFile, TablesTyped
<1>3. phase' = "up" /\ ret' # -1 =>
        /\ ret' \in Handles /\ free_open_file_entries'[ret'] = "TAKEN"
        /\ open_file_table'[ret'] = [of_inumber |-> inum, of_offset |-> 0]
  BY <1>1, HandleAdded
<1> QED BY <1>2, <1>3 DEF OpenGives, NewFileInode

\* tfs_open, whatever the name leads to.
LEMMA OpenCore ==
  ASSUME CoreInv, phase = "up", NEW name, NEW mode, Open(name, mode), buf' = <<>>
  PROVE  CoreInv' /\ OpenGives(mode)
<1>1. ASSUME NEW inum, NEW e \in DirSlots, NEW path, Finds(e, path), inum = InumAt(e),
             OpenInode(inum, mode),
             IF is_softlink[inum] THEN mishaps' = mishaps \cup {"chain"}
               ELSE Mishap("pulled", TruncatesOpen(inum, mode))
      PROVE  CoreInv' /\ OpenGives(mode)
  <2>1. inum \in Inumbers \ {ROOT_DIR_INUM} /\ Live(inum) /\ mishaps \subseteq Mishaps
    BY <1>1, FoundLive DEF CoreInv, RestTyped
  <2>2. /\ mishaps \subseteq mishaps' /\ mishaps' \subseteq Mishaps
        /\ is_softlink[inum] => "chain" \in mishaps'
        /\ TruncatesOpen(inum, mode) => mishaps' \cap {"pulled", "chain"} # {}
    BY <1>1, <2>1 DEF Mishap, Mishaps
  <2> QED BY <1>1, <2>1, <2>2, OpenInodeCore, OpenInodeGives
<1>2. CASE FailLink /\ UNCHANGED mishaps
  BY <1>2, FailCore DEF OpenGives, FailLink, FailCall
<1>3. ASSUME NEW inum \in Inumbers, InodeComesAndGoes(inum, FALSE), ret' = -1,
             UNCHANGED <<phase, dir_entry, blockVars, fileVars>>, UNCHANGED mishaps
      PROVE  CoreInv' /\ OpenGives(mode)
  BY <1>3, ComesAndGoesCore DEF OpenGives
<1>4. ASSUME NEW inum \in Inumbers, InodeCreate(inum, FALSE), AddDirEntry(name, inum),
             AddHandle(inum, 0), UNCHANGED blockVars, UNCHANGED mishaps
      PROVE  CoreInv' /\ OpenGives(mode)
  BY <1>4, FileMadeCore, FileMadeGives
<1>5. CASE OpenMissing(name, mode)
  BY <1>2, <1>3, <1>4, <1>5 DEF OpenMissing, OpenNew
<1>6. CASE OpenExisting(name, mode)
  <2>1. PICK e \in DirSlots :
          /\ Finds(e, name)
          /\ \/ /\ ~is_softlink[InumAt(e)] /\ OpenInode(InumAt(e), mode)
                /\ Mishap("pulled", TruncatesOpen(InumAt(e), mode))
             \/ FailLink /\ UNCHANGED mishaps
             \/ \E f \in DirSlots :
                  /\ Finds(f, LinkTarget(InumAt(e)))
                  /\ OpenInode(InumAt(f), mode)
                  /\ IF is_softlink[InumAt(f)] THEN mishaps' = mishaps \cup {"chain"}
                       ELSE Mishap("pulled", TruncatesOpen(InumAt(f), mode))
    BY <1>6 DEF OpenExisting
  <2>2. CASE ~is_softlink[InumAt(e)] /\ OpenInode(InumAt(e), mode)
               /\ Mishap("pulled", TruncatesOpen(InumAt(e), mode))
    BY <1>1, <2>1, <2>2
  <2>3. ASSUME NEW f \in DirSlots, Finds(f, LinkTarget(InumAt(e))), OpenInode(InumAt(f), mode),
               IF is_softlink[InumAt(f)] THEN mishaps' = mishaps \cup {"chain"}
                 ELSE Mishap("pulled", TruncatesOpen(InumAt(f), mode))
        PROVE  CoreInv' /\ OpenGives(mode)
    BY <1>1, <2>3
  <2> QED BY <1>2, <2>1, <2>2, <2>3
<1> QED BY <1>5, <1>6 DEF Open

(***************************************************************************)
(* tfs_link, tfs_sym_link and tfs_unlink.                                  *)
(***************************************************************************)

\* A step that changes no more than the directory and the counters.
LEMMA DirChanges ==
  ASSUME CoreInv, DirInv', dir_entry' \in [DirSlots -> DirEntry],
         cnt_hardlinks' \in [Inumbers -> Nat], phase' = "up", ret' \in Nat \cup {-1}, buf' = <<>>,
         UNCHANGED <<inodeVars, blockVars, fileVars, is_softlink, mishaps>>
  PROVE  CoreInv'
<1>1. TablesTyped' /\ RestTyped'
  BY DEF CoreInv, TablesTyped, RestTyped, inodeVars, blockVars, fileVars
<1>2. BlocksInv'
  BY DEF CoreInv, BlocksInv, BlocksExclusive, RootIntact, Owns, Live, IsOpen,
         inodeVars, blockVars, fileVars
<1>3. HandlesLive' /\ HandlesWithin' /\ LinksSized'
  BY DEF CoreInv, CauseInv, HandlesLive, HandlesWithin, LinksSized, Live, IsOpen,
         inodeVars, fileVars
<1>4. LostBlockHasCause' /\ LinkPanicHasCause'
  BY DEF CoreInv, CauseInv, LostBlockHasCause, LinkPanicHasCause, Owns, Live,
         inodeVars, blockVars
<1> QED BY <1>1, <1>2, <1>3, <1>4 DEF CoreInv, CauseInv

\* tfs_link.
LEMMA HardLinkCore ==
  ASSUME CoreInv, NEW target, NEW link_name, HardLink(target, link_name)
  PROVE  CoreInv'
<1>1. phase = "up" /\ buf' = <<>> /\ UNCHANGED mishaps
  BY DEF HardLink, LinkCall
<1>2. CASE FailLink
  BY <1>1, <1>2, FailCore
<1>3. ASSUME NEW e \in DirSlots, Finds(e, target), ~is_softlink[InumAt(e)],
             AddDirEntry(link_name, InumAt(e)),
             cnt_hardlinks' = [cnt_hardlinks EXCEPT ![InumAt(e)] = @ + 1], ret' = 0,
             UNCHANGED <<phase, inodeVars, blockVars, fileVars, is_softlink>>
      PROVE  CoreInv'
  <2>1. PICK inum \in Inumbers \ {ROOT_DIR_INUM} : inum = InumAt(e)
    BY <1>3, FoundLive
  <2>2. Live(inum) /\ cnt_hardlinks \in [Inumbers -> Nat]
    BY <1>3, <2>1, FoundLive DEF CoreInv, RestTyped
  <2>3. /\ \A i \in Inumbers : Live(i)' <=> Live(i) \/ i = inum
        /\ \A i \in Inumbers \ {inum} :
             cnt_hardlinks'[i] = cnt_hardlinks[i] /\ is_softlink'[i] = is_softlink[i]
        /\ cnt_hardlinks'[inum] = (IF Live(inum) THEN cnt_hardlinks[inum] ELSE 0) + 1
        /\ Live(inum) => ~is_softlink'[inum]
    BY <1>3, <2>1, <2>2 DEF inodeVars, Live
  <2>4. AddDirEntry(link_name, inum)
    BY <1>3, <2>1
  <2>5. DirInv' /\ dir_entry' \in [DirSlots -> DirEntry]
    BY <2>3, <2>4, EntryAdded
  <2>6. cnt_hardlinks' \in [Inumbers -> Nat]
    BY <1>3, <2>1, <2>2
  <2> QED BY <1>1, <1>3, <2>5, <2>6, DirChanges
<1> QED BY <1>2, <1>3 DEF HardLink

\* tfs_sym_link of a name that is in the directory: a new inode, its block
\* with the name, and an entry.
LEMMA SymLinkMadeCore ==
  ASSUME CoreInv, phase = "up", buf' = <<>>, NEW name \in Names, NEW link_name,
         SymLinkMade(name, link_name)
  PROVE  CoreInv'
<1>1. PICK inum \in Inumbers, b \in Blocks :
        /\ IsFirstFree(freeinode_ts, inum)
        /\ freeinode_ts' = [freeinode_ts EXCEPT ![inum] = "TAKEN"]
        /\ inode_table' = [inode_table EXCEPT ![inum] =
             [NewFileInode EXCEPT !.i_data_block = b, !.i_size = Len(name)]]
        /\ cnt_hardlinks' = [cnt_hardlinks EXCEPT ![inum] = 1]
        /\ is_softlink' = [is_softlink EXCEPT ![inum] = TRUE]
        /\ IsFirstFree(free_blocks, b)
        /\ free_blocks' = [free_blocks EXCEPT ![b] = "TAKEN"]
        /\ StoreName(b, name)
        /\ AddDirEntry(link_name, inum)
        /\ ret' = 0
        /\ UNCHANGED <<phase, fileVars, mishaps>>
  BY DEF SymLinkMade
<1> DEFINE r == [NewFileInode EXCEPT !.i_data_block = b, !.i_size = Len(name)]
<1>2. /\ ~Live(inum) /\ TypeOK /\ TablesTyped /\ RestTyped /\ inum # ROOT_DIR_INUM
      /\ free_blocks[b] = "FREE"
  BY <1>1, CoreTyped DEF IsFirstFree, Live, CoreInv, BlocksInv, RootIntact
<1>3. name \in Seq(Bytes) /\ Len(name) \in 0 .. BLOCK_SIZE /\ Len(name) > 0
  BY LinksAssumption, SizesAssumption
<1>4. r \in Inode /\ r.i_size = Len(name) /\ r.i_data_block = b
  <2>1. NewFileInode \in Inode
    BY SizesAssumption DEF NewFileInode, Inode
  <2> QED BY <1>3, <2>1, InodeUpdate DEF Inode
<1>5. fs_data' \in [Blocks -> [Offsets -> Bytes \cup {Garbage}]]
  <2>1. Memcpy(b, 0, name, Len(name)) /\ Len(name) \in Nat
    BY <1>1, <1>3 DEF StoreName
  <2> QED BY <1>2, <1>3, <2>1, MemcpyTyped
<1>6. \A i \in Inumbers : Live(i)' <=> Live(i) \/ i = inum
  BY <1>1, <1>2 DEF Live, TablesTyped
<1>7. DirInv' /\ dir_entry' \in [DirSlots -> DirEntry]
  <2>1. /\ \A i \in Inumbers \ {inum} :
             cnt_hardlinks'[i] = cnt_hardlinks[i] /\ is_softlink'[i] = is_softlink[i]
        /\ cnt_hardlinks'[inum] = (IF Live(inum) THEN cnt_hardlinks[inum] ELSE 0) + 1
        /\ Live(inum) => ~is_softlink'[inum]
    BY <1>1, <1>2 DEF RestTyped
  <2>2. inum \in Inumbers \ {ROOT_DIR_INUM} /\ AddDirEntry(link_name, inum)
    BY <1>1, <1>2
  <2> QED BY <1>6, <2>1, <2>2, EntryAdded
<1> HIDE DEF r
<1>8. inode_table' = [inode_table EXCEPT ![inum] = r]
  BY <1>1 DEF r
<1>9. TablesTyped' /\ RestTyped'
  BY <1>1, <1>2, <1>4, <1>5, <1>7, <1>8 DEF TablesTyped, RestTyped, fileVars
<1>10. /\ is_softlink' = [is_softlink EXCEPT ![inum] = TRUE]
       /\ Live(inum)' /\ r.i_size > 0
       /\ \A i \in Inumbers \ {inum} : Live(i)' <=> Live(i)
       /\ \E c \in Blocks :
            /\ free_blocks[c] = "FREE" /\ free_blocks' = [free_blocks EXCEPT ![c] = "TAKEN"]
            /\ r.i_data_block = c
            /\ (Live(inum)' /\ r.i_size > 0) \/ (r.i_size = 0 /\ "full" \in mishaps')
       /\ \A h \in Handles : IsOpen(h)' => IsOpen(h) /\ open_file_table'[h] = open_file_table[h]
       /\ mishaps \subseteq mishaps' /\ phase' # "panic"
  BY <1>1, <1>2, <1>3, <1>4, <1>6 DEF IsOpen, fileVars
<1>11. BlocksInv' /\ CauseInv'
  BY <1>2, <1>4, <1>8, <1>10, InodeWritten
<1> QED BY <1>7, <1>9, <1>11 DEF CoreInv

\* With the directory full the inode goes again, and its block is lost.
LEMMA SymLinkDirFullCore ==
  ASSUME CoreInv, phase = "up", buf' = <<>>, NEW name \in Names, NEW link_name,
         SymLinkDirFull(name, link_name)
  PROVE  CoreInv'
<1>1. PICK inum \in Inumbers, b \in Blocks :
        /\ IsFirstFree(freeinode_ts, inum)
        /\ inode_table' = [inode_table EXCEPT ![inum] = [NewFileInode EXCEPT !.i_data_block = b]]
        /\ cnt_hardlinks' = [cnt_hardlinks EXCEPT ![inum] = 1]
        /\ is_softlink' = [is_softlink EXCEPT ![inum] = TRUE]
        /\ IsFirstFree(free_blocks, b)
        /\ free_blocks' = [free_blocks EXCEPT ![b] = "TAKEN"]
        /\ StoreName(b, name)
  BY DEF SymLinkDirFull
<1>2. /\ mishaps' = mishaps \cup {"full"} /\ ret' = -1
      /\ UNCHANGED <<phase, freeinode_ts, dir_entry, fileVars>>
  BY DEF SymLinkDirFull
<1> DEFINE r == [NewFileInode EXCEPT !.i_data_block = b]
<1>3. /\ ~Live(inum) /\ TypeOK /\ TablesTyped /\ RestTyped
      /\ free_blocks[b] = "FREE"
  BY <1>1, CoreTyped DEF IsFirstFree, Live, CoreInv
<1>4. r \in Inode /\ r.i_size = 0 /\ r.i_data_block = b
  BY SizesAssumption DEF NewFileInode, Inode
<1>5. fs_data' \in [Blocks -> [Offsets -> Bytes \cup {Garbage}]]
  <2>1. Memcpy(b, 0, name, Len(name)) /\ Len(name) \in Nat /\ name \in Seq(Bytes)
    BY <1>1, LinksAssumption DEF StoreName
  <2> QED BY <1>3, <2>1, MemcpyTyped
<1>6. DirInv'
  <2>1. UNCHANGED <<freeinode_ts, dir_entry>> /\ \A i \in Inumbers \ {inum} :
          cnt_hardlinks'[i] = cnt_hardlinks[i] /\ is_softlink'[i] = is_softlink[i]
    BY <1>1, <1>2, <1>3 DEF RestTyped
  <2> QED BY <1>3, <2>1, DeadInodeDir
<1> HIDE DEF r
<1>7. inode_table' = [inode_table EXCEPT ![inum] = r]
  BY <1>1 DEF r
<1>8. TablesTyped' /\ RestTyped'
  <2> ret' = -1 /\ UNCHANGED <<freeinode_ts, dir_entry, free_open_file_entries, open_file_table>>
    BY <1>2 DEF fileVars
  <2> /\ inode_table' \in [Inumbers -> Inode]
      /\ free_blocks' \in [Blocks -> {"FREE", "TAKEN"}]
    BY <1>1, <1>3, <1>4, <1>7 DEF TablesTyped
  <2>1. TablesTyped'
    BY <1>3, <1>5 DEF TablesTyped
  <2>2. mishaps' \subseteq Mishaps
    BY <1>2, <1>3 DEF RestTyped, Mishaps
  <2>3. RestTyped'
    BY <1>1, <1>2, <1>3, <2>2 DEF RestTyped
  <2> QED BY <2>1, <2>3
<1>9. /\ is_softlink' = [is_softlink EXCEPT ![inum] = TRUE]
      /\ \A i \in Inumbers : Live(i)' <=> Live(i)
      /\ \E c \in Blocks :
           /\ free_blocks[c] = "FREE" /\ free_blocks' = [free_blocks EXCEPT ![c] = "TAKEN"]
           /\ r.i_data_block = c
           /\ (Live(inum)' /\ r.i_size > 0) \/ (r.i_size = 0 /\ "full" \in mishaps')
      /\ \A h \in Handles : IsOpen(h)' => IsOpen(h) /\ open_file_table'[h] = open_file_table[h]
      /\ mishaps \subseteq mishaps' /\ phase' # "panic"
  BY <1>1, <1>2, <1>3, <1>4 DEF IsOpen, fileVars, Live
<1>10. BlocksInv' /\ CauseInv'
  BY <1>3, <1>4, <1>7, <1>9, InodeWritten
<1> QED BY <1>6, <1>8, <1>10 DEF CoreInv

\* tfs_sym_link.
LEMMA SymLinkCore ==
  ASSUME CoreInv, NEW target, NEW link_name, SymLink(target, link_name)
  PROVE  CoreInv'
<1>1. phase = "up" /\ buf' = <<>>
  BY DEF SymLink, LinkCall
<1>2. CASE FailLink /\ UNCHANGED mishaps
  BY <1>1, <1>2, FailCore
<1>3. ASSUME NEW name, ~FindsNothing(name),
             \/ SymLinkMade(name, link_name)
             \/ SymLinkNoBlock
             \/ SymLinkDirFull(name, link_name)
             \/ SymLinkNoInode
      PROVE  CoreInv'
  <2>1. name \in Names
    BY <1>3 DEF FindsNothing, NotInDir, EntryMatches, CoreInv, DirInv, EntriesLive, NamesKept, Used,
                TablesTyped, DirEntry
  <2>2. ASSUME SymLinkNoBlock PROVE CoreInv'
    <3>1. PICK inum \in Inumbers : InodeComesAndGoes(inum, TRUE)
      BY <2>2 DEF SymLinkNoBlock
    <3>2. ret' = -1 /\ UNCHANGED <<phase, dir_entry, blockVars, fileVars, mishaps>>
      BY <2>2 DEF SymLinkNoBlock
    <3> QED BY <1>1, <3>1, <3>2, ComesAndGoesCore
  <2>3. ASSUME SymLinkNoInode PROVE CoreInv'
    <3>1. /\ UNCHANGED <<inodeVars, dir_entry, blockVars, fileVars, linkVars, ret>>
          /\ mishaps' = mishaps \cup {"no_inode"} /\ phase' = "panic"
      BY <2>3 DEF SymLinkNoInode
    <3>2. mishaps \subseteq mishaps' /\ mishaps' \subseteq Mishaps /\ ret' \in Nat \cup {-1}
            /\ buf' \in Seq(Bytes \cup {Garbage})
      BY <1>1, <3>1 DEF CoreInv, RestTyped, TablesTyped, Mishaps
    <3> QED BY <3>1, <3>2, TablesStay
  <2> QED BY <1>1, <1>3, <2>1, <2>2, <2>3, SymLinkMadeCore, SymLinkDirFullCore
<1>4. (FailLink /\ UNCHANGED mishaps) \/ \E e \in DirSlots :
        /\ ~FindsNothing(FinalTarget(e, target))
        /\ \/ SymLinkMade(FinalTarget(e, target), link_name)
           \/ SymLinkNoBlock
           \/ SymLinkDirFull(FinalTarget(e, target), link_name)
           \/ SymLinkNoInode
  BY DEF SymLink
<1> QED BY <1>2, <1>3, <1>4

\* tfs_unlink of a name that is not the last one, and of one that is.
LEMMA UnlinkCore ==
  ASSUME CoreInv, NEW name, Unlink(name)
  PROVE  CoreInv'
<1>1. phase = "up" /\ buf' = <<>>
  BY DEF Unlink, LinkCall
<1>2. CASE FailLink /\ UNCHANGED mishaps
  BY <1>1, <1>2, FailCore
<1>3. ASSUME NEW e \in DirSlots, Finds(e, name), ClearDirEntry(name),
             cnt_hardlinks' = [cnt_hardlinks EXCEPT ![InumAt(e)] = @ - 1],
             IF cnt_hardlinks[InumAt(e)] = 1
               THEN InodeDelete(InumAt(e)) /\ Mishap("pulled", HandlesOn(InumAt(e)) # {})
               ELSE UNCHANGED <<inodeVars, blockVars, mishaps>>,
             ret' = 0, UNCHANGED <<phase, fileVars, is_softlink>>
      PROVE  CoreInv'
  <2>1. PICK inum \in Inumbers \ {ROOT_DIR_INUM} : inum = InumAt(e)
    BY <1>3, FoundLive
  <2>2. Live(inum) /\ TypeOK /\ BlocksInv /\ TablesTyped /\ RestTyped
    BY <1>1, <1>3, <2>1, FoundLive, CoreTyped DEF CoreInv
  <2>3. CASE cnt_hardlinks[inum] # 1
    <3>1. UNCHANGED <<inodeVars, blockVars, mishaps>>
      BY <1>3, <2>1, <2>3
    <3>2. \A i \in Inumbers : Live(i)' <=> Live(i) /\ ~(i = InumAt(e) /\ cnt_hardlinks[i] = 1)
      BY <2>1, <2>3, <3>1 DEF inodeVars, Live
    <3>3. DirInv' /\ dir_entry' \in [DirSlots -> DirEntry] /\ cnt_hardlinks' \in [Inumbers -> Nat]
      BY <1>1, <1>3, <3>2, EntryRemoved
    <3> QED BY <1>1, <1>3, <3>1, <3>3, DirChanges
  <2>4. CASE cnt_hardlinks[inum] = 1
    <3>1. InodeDelete(inum) /\ mishaps' = (IF HandlesOn(inum) # {} THEN mishaps \cup {"pulled"} ELSE mishaps)
      BY <1>3, <2>1, <2>4 DEF Mishap
    <3>2. BlocksInv' /\ \A i \in Inumbers : Live(i)' <=> Live(i) /\ i # inum
      BY <1>3, <2>2, <3>1, DeleteBlocks
    <3>3. \A i \in Inumbers : Live(i)' <=> Live(i) /\ ~(i = InumAt(e) /\ cnt_hardlinks[i] = 1)
      BY <2>1, <2>4, <3>2
    <3>4. DirInv' /\ dir_entry' \in [DirSlots -> DirEntry] /\ cnt_hardlinks' \in [Inumbers -> Nat]
      BY <1>1, <1>3, <3>3, EntryRemoved
    <3>5. TablesTyped' /\ RestTyped'
      <4> /\ freeinode_ts' \in [Inumbers -> {"FREE", "TAKEN"}]
          /\ free_blocks' \in [Blocks -> {"FREE", "TAKEN"}]
          /\ UNCHANGED <<inode_table, fs_data>>
        BY <2>2, <3>1 DEF TablesTyped, InodeDelete
      <4> ret' = 0 /\ UNCHANGED <<free_open_file_entries, open_file_table>>
        BY <1>3 DEF fileVars
      <4>1. TablesTyped'
        BY <1>1, <2>2, <3>4 DEF TablesTyped
      <4>2. mishaps' \subseteq Mishaps
        BY <2>2, <3>1 DEF RestTyped, Mishaps
      <4>3. RestTyped'
        BY <1>1, <1>3, <2>2, <3>4, <4>2 DEF RestTyped
      <4> QED BY <4>1, <4>3
    <3>6. HandlesLive'
      <4> SUFFICES ASSUME "pulled" \notin mishaps', NEW h \in Handles, IsOpen(h)
                   PROVE  freeinode_ts'[open_file_table[h].of_inumber] = "TAKEN"
        BY <1>3 DEF HandlesLive, Live, IsOpen, fileVars
      <4>1. HandlesOn(inum) = {} /\ mishaps' = mishaps
        BY <3>1
      <4>2. Live(open_file_table[h].of_inumber) /\ open_file_table[h].of_inumber \in Inumbers
        BY <2>2, <4>1 DEF CoreInv, CauseInv, HandlesLive, TablesTyped, OpenFile
      <4>3. open_file_table[h].of_inumber # inum
        BY <4>1 DEF HandlesOn
      <4> QED BY <3>2, <4>2, <4>3 DEF Live
    <3>7. UNCHANGED inode_table /\ mishaps \subseteq mishaps'
      BY <3>1 DEF InodeDelete
    <3>8. HandlesWithin' /\ LinksSized'
      BY <1>3, <3>2, <3>7 DEF CoreInv, CauseInv, HandlesWithin, LinksSized, IsOpen, fileVars
    <3>9. LostBlockHasCause'
      <4> SUFFICES ASSUME NEW b \in Blocks, free_blocks'[b] = "TAKEN",
                          mishaps' \cap {"full", "pulled"} = {}
                   PROVE  \E i \in Inumbers : Owns(i, b)'
        BY DEF LostBlockHasCause
      <4>1. free_blocks[b] = "TAKEN" /\ ~Owns(inum, b)
        BY <2>2, <3>1 DEF InodeDelete, TablesTyped, Owns
      <4>2. PICK i \in Inumbers : Owns(i, b)
        BY <3>7, <4>1 DEF CoreInv, CauseInv, LostBlockHasCause
      <4>3. Live(i)' /\ inode_table'[i] = inode_table[i]
        BY <3>2, <3>7, <4>1, <4>2 DEF Owns
      <4> QED BY <4>2, <4>3 DEF Owns
    <3> QED BY <1>1, <1>3, <3>2, <3>4, <3>5, <3>6, <3>8, <3>9 DEF CoreInv, CauseInv, LinkPanicHasCause
  <2> QED BY <2>3, <2>4
<1>4. (FailLink /\ UNCHANGED mishaps) \/ \E e \in DirSlots :
        /\ Finds(e, name) /\ ClearDirEntry(name)
        /\ cnt_hardlinks' = [cnt_hardlinks EXCEPT ![InumAt(e)] = @ - 1]
        /\ IF cnt_hardlinks[InumAt(e)] = 1
              THEN InodeDelete(InumAt(e)) /\ Mishap("pulled", HandlesOn(InumAt(e)) # {})
              ELSE UNCHANGED <<inodeVars, blockVars, mishaps>>
        /\ ret' = 0 /\ UNCHANGED <<phase, fileVars, is_softlink>>
  BY DEF Unlink
<1> QED BY <1>2, <1>3, <1>4

(***************************************************************************)
(* Calls on handles.                                                       *)
(***************************************************************************)

\* Where a handle of a good run stands.
LEMMA HandleWithin ==
  ASSUME CoreInv, NEW h, IsOpen(h), mishaps \cap {"pulled", "chain"} = {}
  PROVE  LET entry == open_file_table[h]
         IN  /\ entry.of_inumber \in Inumbers /\ Live(entry.of_inumber)
             /\ ~is_softlink[entry.of_inumber]
             /\ entry.of_offset \in Nat
             /\ inode_table[entry.of_inumber].i_size \in 0 .. BLOCK_SIZE
             /\ entry.of_offset <= inode_table[entry.of_inumber].i_size
<1>1. h \in Handles /\ open_file_table[h] \in OpenFile
  BY DEF IsOpen, CoreInv, TablesTyped
<1>2. inode_table[open_file_table[h].of_inumber] \in Inode
  BY <1>1 DEF CoreInv, TablesTyped, OpenFile
<1>3. "pulled" \notin mishaps
  OBVIOUS
<1> QED BY <1>1, <1>2, <1>3 DEF CoreInv, CauseInv, HandlesLive, HandlesWithin, OpenFile, Inode

\* A step that closes a handle or moves its offset.
LEMMA FilesChange ==
  ASSUME CoreInv, UNCHANGED <<inodeVars, dir_entry, blockVars, linkVars, mishaps>>, phase' = "up",
         free_open_file_entries' \in [Handles -> {"FREE", "TAKEN"}],
         open_file_table' \in [Handles -> OpenFile],
         ret' \in Nat \cup {-1}, buf' \in Seq(Bytes \cup {Garbage}),
         \A h \in Handles : free_open_file_entries'[h] = "TAKEN" =>
           /\ free_open_file_entries[h] = "TAKEN"
           /\ open_file_table'[h].of_inumber = open_file_table[h].of_inumber
           /\ mishaps \cap {"pulled", "chain"} = {} =>
                open_file_table'[h].of_offset <= inode_table[open_file_table[h].of_inumber].i_size
  PROVE  CoreInv'
<1>1. TablesTyped' /\ RestTyped'
  BY DEF CoreInv, TablesTyped, RestTyped, inodeVars, blockVars, linkVars
<1>2. DirInv'
  BY DEF CoreInv, DirInv, EntriesLive, NamesKept, Used, Counted, Live, InumAt, EntriesOf,
         inodeVars, linkVars
<1>3. BlocksInv'
  BY DEF CoreInv, BlocksInv, BlocksExclusive, RootIntact, Owns, Live, IsOpen, inodeVars, blockVars
<1>4. HandlesLive' /\ HandlesWithin' /\ LinksSized'
  BY DEF CoreInv, CauseInv, HandlesLive, HandlesWithin, LinksSized, Live, IsOpen,
         inodeVars, linkVars
<1>5. LostBlockHasCause' /\ LinkPanicHasCause'
  BY DEF CoreInv, CauseInv, LostBlockHasCause, LinkPanicHasCause, Owns, Live,
         inodeVars, blockVars
<1> QED BY <1>1, <1>2, <1>3, <1>4, <1>5 DEF CoreInv, CauseInv

\* A handle that is not open, or a lock that is never given back.
LEMMA RefusedCore ==
  ASSUME CoreInv, phase = "up", buf' = <<>>, UNCHANGED mishaps, NEW h,
         RefuseHandle(h) \/ WaitForEver(h)
  PROVE  CoreInv'
<1>1. CASE RefuseHandle(h)
  BY <1>1, FailCore DEF RefuseHandle
<1>2. CASE WaitForEver(h)
  <2>1. /\ UNCHANGED <<inodeVars, dir_entry, blockVars, fileVars, linkVars, ret>>
        /\ phase' = "stuck"
    BY <1>2 DEF WaitForEver
  <2>2. mishaps' \subseteq Mishaps /\ ret' \in Nat \cup {-1}
    BY <2>1 DEF CoreInv, RestTyped, TablesTyped
  <2> QED BY <2>1, <2>2, TablesStay
<1> QED BY <1>1, <1>2

\* A handle is closed.
LEMMA ClosedCore ==
  ASSUME CoreInv, phase = "up", NEW h \in Handles,
         free_open_file_entries' = [free_open_file_entries EXCEPT ![h] = "FREE"],
         UNCHANGED <<phase, inodeVars, dir_entry, blockVars, open_file_table, linkVars, mishaps>>,
         ret' \in Nat \cup {-1}, buf' = <<>>
  PROVE  CoreInv'
<1>1. /\ free_open_file_entries \in [Handles -> {"FREE", "TAKEN"}]
      /\ open_file_table \in [Handles -> OpenFile]
  BY DEF CoreInv, TablesTyped
<1>2. /\ free_open_file_entries' \in [Handles -> {"FREE", "TAKEN"}]
      /\ \A g \in Handles : free_open_file_entries'[g] = "TAKEN" => free_open_file_entries[g] = "TAKEN"
  BY <1>1
<1>3. ASSUME NEW g \in Handles, free_open_file_entries[g] = "TAKEN",
             mishaps \cap {"pulled", "chain"} = {}
      PROVE  open_file_table[g].of_offset <= inode_table[open_file_table[g].of_inumber].i_size
  BY <1>3, HandleWithin DEF IsOpen
<1> QED BY <1>1, <1>2, <1>3, FilesChange

\* tfs_read.
LEMMA ReadCore ==
  ASSUME CoreInv, phase = "up", NEW h, IsOpen(h), NEW len \in Nat,
         ReadBytes(h, len) \/ ReadDies(h, len), UNCHANGED <<linkVars, mishaps>>
  PROVE  CoreInv'
<1> DEFINE inum == open_file_table[h].of_inumber
           off  == open_file_table[h].of_offset
           size == inode_table[inum].i_size
<1>1. TypeOK /\ h \in Handles /\ open_file_table[h] \in OpenFile
        /\ open_file_table \in [Handles -> OpenFile]
  BY CoreTyped DEF IsOpen, TypeOK
<1>2. TypeOK'
  BY <1>1, ReadTyped DEF TfsRead
<1>3. mishaps \cap {"pulled", "chain"} = {} =>
        /\ inum \in Inumbers /\ Live(inum)
        /\ off \in Nat /\ size \in 0 .. BLOCK_SIZE /\ off <= size
        /\ ToRead(h, len) \in Nat /\ ToRead(h, len) <= size - off
  <2> SUFFICES ASSUME mishaps \cap {"pulled", "chain"} = {}
               PROVE  /\ inum \in Inumbers /\ Live(inum)
                      /\ off \in Nat /\ size \in 0 .. BLOCK_SIZE /\ off <= size
                      /\ ToRead(h, len) \in Nat /\ ToRead(h, len) <= size - off
    OBVIOUS
  <2>1. /\ inum \in Inumbers /\ Live(inum)
        /\ off \in Nat /\ size \in 0 .. BLOCK_SIZE /\ off <= size
    BY HandleWithin
  <2>2. ToRead(h, len) = AtMost(len, SizeSub(size, off))
    BY DEF ToRead
  <2> HIDE DEF size, off, inum
  <2>3. off \in 0 .. size
    BY <2>1
  <2>4. SizeSub(size, off) = size - off
    BY <2>1, <2>3, SizeSubExact
  <2>5. ToRead(h, len) \in Nat /\ ToRead(h, len) <= size - off
    BY <2>1, <2>2, <2>4 DEF AtMost
  <2> QED BY <2>1, <2>5
<1>4. CASE ReadBytes(h, len)
  <2>1. /\ UNCHANGED <<phase, inodeVars, dir_entry, blockVars, free_open_file_entries>>
        /\ open_file_table' = [open_file_table EXCEPT ![h].of_offset = off + ToRead(h, len)]
    BY <1>4 DEF ReadBytes
  <2>2. /\ open_file_table'[h].of_inumber = inum
        /\ open_file_table'[h].of_offset = off + ToRead(h, len)
        /\ \A g \in Handles \ {h} : open_file_table'[g] = open_file_table[g]
    BY <1>1, <2>1 DEF OpenFile
  <2>3. /\ free_open_file_entries' \in [Handles -> {"FREE", "TAKEN"}]
        /\ open_file_table' \in [Handles -> OpenFile]
        /\ ret' \in Nat \cup {-1} /\ buf' \in Seq(Bytes \cup {Garbage})
    BY <1>2 DEF TypeOK
  <2>4. ASSUME mishaps \cap {"pulled", "chain"} = {}
        PROVE  open_file_table'[h].of_offset <= size
    <3> HIDE DEF size, off, inum
    <3> QED BY <1>3, <2>2, <2>4
  <2>5. ASSUME NEW g \in Handles, free_open_file_entries'[g] = "TAKEN"
        PROVE  /\ free_open_file_entries[g] = "TAKEN"
               /\ open_file_table'[g].of_inumber = open_file_table[g].of_inumber
               /\ mishaps \cap {"pulled", "chain"} = {} =>
                    open_file_table'[g].of_offset <= inode_table[open_file_table[g].of_inumber].i_size
    <3>1. IsOpen(g)
      BY <2>1, <2>5 DEF IsOpen
    <3>2. CASE g = h
      BY <2>2, <2>4, <3>1, <3>2 DEF IsOpen
    <3>3. CASE g # h
      BY <2>2, <3>1, <3>3, HandleWithin DEF IsOpen
    <3> QED BY <3>2, <3>3
  <2> QED BY <2>1, <2>3, <2>5, FilesChange
<1>5. CASE ReadDies(h, len)
  <2>1. /\ UNCHANGED <<inodeVars, dir_entry, blockVars, fileVars, linkVars, mishaps, ret>>
        /\ phase' = "panic" /\ buf' = <<>>
        /\ ToRead(h, len) > 0 /\ inode_table[inum].i_data_block = -1
    BY <1>5 DEF ReadDies
  <2>2. mishaps \cap {"pulled", "chain"} # {}
    <3> SUFFICES ASSUME mishaps \cap {"pulled", "chain"} = {} PROVE FALSE
      OBVIOUS
    <3>1. size > 0
      <4> HIDE DEF size, off, inum
      <4> QED BY <1>3, <2>1
    <3>2. inode_table[inum].i_data_block \in Blocks
      BY <1>3, <3>1 DEF CoreInv, BlocksInv, BlocksExclusive
    <3> QED BY <2>1, <3>2, SizesAssumption DEF Blocks
  <2>3. mishaps' \subseteq Mishaps /\ ret' \in Nat \cup {-1} /\ buf' \in Seq(Bytes \cup {Garbage})
    BY <2>1 DEF CoreInv, RestTyped, TablesTyped
  <2> QED BY <2>1, <2>2, <2>3, TablesStay
<1> QED BY <1>4, <1>5

\* tfs_write that writes: the file grows, in its own block or in a new one.
LEMMA WriteBytesCore ==
  ASSUME CoreInv, phase = "up", NEW h, IsOpen(h), NEW data \in Seq(Bytes), WriteBytes(h, data),
         buf' = <<>>, UNCHANGED <<linkVars, mishaps>>
  PROVE  CoreInv'
<1> DEFINE inum == open_file_table[h].of_inumber
           off  == open_file_table[h].of_offset
           n    == ToWrite(off, Len(data))
           size == inode_table[inum].i_size
           grown == GrownSize(size, off + n)
<1>1. TypeOK /\ h \in Handles /\ open_file_table[h] \in OpenFile
        /\ open_file_table \in [Handles -> OpenFile] /\ inode_table \in [Inumbers -> Inode]
        /\ free_blocks \in [Blocks -> {"FREE", "TAKEN"}]
  BY CoreTyped DEF IsOpen, TypeOK
<1>2. inum \in Inumbers /\ off \in Nat /\ inode_table[inum] \in Inode
  BY <1>1 DEF OpenFile
<1>3. TypeOK' /\ BlocksInv'
  BY <1>1, WriteTyped, WriteBytesBlocks DEF TfsWrite, CoreInv
<1>4. /\ off <= BLOCK_SIZE /\ n > 0
      /\ UNCHANGED <<phase, freeinode_ts, dir_entry, free_open_file_entries>>
      /\ open_file_table' = [open_file_table EXCEPT ![h].of_offset = off + n]
  BY DEF WriteBytes
<1>5. n \in Nat /\ off + n \in Nat
  <2>1. off \in 0 .. BLOCK_SIZE /\ Len(data) \in Nat
    BY <1>2, <1>4, SizesAssumption
  <2>2. n \in Nat
    BY <2>1, ToWriteFits
  <2> HIDE DEF n, off
  <2> QED BY <1>2, <2>2
<1>6. /\ open_file_table'[h].of_inumber = inum
      /\ open_file_table'[h].of_offset = off + n
      /\ \A g \in Handles \ {h} : open_file_table'[g] = open_file_table[g]
  BY <1>1, <1>4 DEF OpenFile
<1>7. size \in Nat /\ grown >= size /\ grown >= off + n /\ grown > 0
  <2>1. size \in Nat
    BY <1>2, SizesAssumption DEF Inode
  <2> HIDE DEF size, off, n
  <2> QED BY <1>2, <1>4, <1>5, <2>1 DEF GrownSize
<1>8. PICK b : /\ inode_table' = [inode_table EXCEPT ![inum].i_data_block = b, ![inum].i_size = grown]
               /\ \/ size > 0 /\ b = inode_table[inum].i_data_block /\ UNCHANGED free_blocks
                  \/ /\ size = 0 /\ b \in Blocks /\ free_blocks[b] = "FREE"
                     /\ free_blocks' = [free_blocks EXCEPT ![b] = "TAKEN"]
  BY DEF WriteBytes, IsFirstFree
<1>9. /\ inode_table'[inum].i_data_block = b /\ inode_table'[inum].i_size = grown
      /\ \A i \in Inumbers \ {inum} : inode_table'[i] = inode_table[i]
  <2> HIDE DEF inum, grown
  <2> QED BY <1>1, <1>2, <1>8 DEF Inode
<1> HIDE DEF n, grown
<1>10. TablesTyped' /\ RestTyped'
  <2>1. TablesTyped'
    BY <1>3 DEF TypeOK, TablesTyped
  <2> QED BY <1>4, <2>1 DEF CoreInv, RestTyped, linkVars
<1>11. DirInv'
  BY <1>4 DEF CoreInv, DirInv, EntriesLive, NamesKept, Used, Counted, Live, InumAt, EntriesOf,
         linkVars
<1>12. HandlesLive'
  <2> SUFFICES ASSUME "pulled" \notin mishaps, NEW g \in Handles, IsOpen(g)
               PROVE  freeinode_ts[open_file_table'[g].of_inumber] = "TAKEN"
    BY <1>4 DEF HandlesLive, IsOpen, Live
  <2>1. open_file_table'[g].of_inumber = open_file_table[g].of_inumber
    BY <1>6
  <2> QED BY <2>1 DEF CoreInv, CauseInv, HandlesLive, Live
<1>13. HandlesWithin'
  <2> SUFFICES ASSUME mishaps \cap {"pulled", "chain"} = {}, NEW g \in Handles, IsOpen(g)
               PROVE  /\ ~is_softlink[open_file_table'[g].of_inumber]
                      /\ open_file_table'[g].of_offset
                           <= inode_table'[open_file_table'[g].of_inumber].i_size
    BY <1>4 DEF HandlesWithin, IsOpen, linkVars
  <2>1. /\ ~is_softlink[open_file_table[g].of_inumber]
        /\ open_file_table[g].of_inumber \in Inumbers /\ open_file_table[g].of_offset \in Nat
        /\ open_file_table[g].of_offset <= inode_table[open_file_table[g].of_inumber].i_size
    BY HandleWithin
  <2>2. CASE g = h
    BY <1>6, <1>7, <1>9, <2>1, <2>2
  <2>3. CASE g # h /\ open_file_table[g].of_inumber = inum
    <3>1. open_file_table[g].of_offset \in Nat /\ open_file_table[g].of_offset <= size
      BY <2>1, <2>3
    <3>2. grown \in Nat
      <4> HIDE DEF size, off
      <4> QED BY <1>5, <1>7 DEF grown, GrownSize
    <3>3. open_file_table[g].of_offset <= grown
      <4> HIDE DEF size
      <4> QED BY <1>7, <3>1, <3>2
    <3> QED BY <1>6, <1>9, <2>1, <2>3, <3>3
  <2>4. CASE g # h /\ open_file_table[g].of_inumber # inum
    BY <1>6, <1>9, <2>1, <2>4
  <2> QED BY <2>2, <2>3, <2>4
<1>14. LinksSized'
  <2> SUFFICES ASSUME mishaps \cap {"pulled", "chain"} = {}, NEW i \in Inumbers,
                      freeinode_ts[i] = "TAKEN", is_softlink[i]
               PROVE  inode_table'[i].i_size > 0
    BY <1>4 DEF LinksSized, Live, linkVars
  <2>1. i # inum
    BY HandleWithin
  <2> QED BY <1>9, <2>1 DEF CoreInv, CauseInv, LinksSized, Live
<1>15. LostBlockHasCause'
  <2> SUFFICES ASSUME NEW c \in Blocks, free_blocks'[c] = "TAKEN", mishaps \cap {"full", "pulled"} = {}
               PROVE  \E i \in Inumbers : Owns(i, c)'
    BY DEF LostBlockHasCause
  <2>1. Live(inum)
    <3>1. "pulled" \notin mishaps
      OBVIOUS
    <3> QED BY <1>1, <3>1 DEF CoreInv, CauseInv, HandlesLive
  <2>2. \E i \in Inumbers : Owns(i, b)'
    <3>1. PICK i \in Inumbers : i = inum
      BY <1>2
    <3>2. Owns(i, b)'
      BY <1>4, <1>7, <1>9, <2>1, <3>1 DEF Owns, Live
    <3> QED BY <3>2
  <2>3. CASE c = b
    BY <2>2, <2>3
  <2>4. CASE c # b
    <3>1. free_blocks[c] = "TAKEN"
      BY <1>1, <1>8, <2>4
    <3>2. PICK i \in Inumbers : Owns(i, c)
      BY <3>1 DEF CoreInv, CauseInv, LostBlockHasCause
    <3>3. i # inum
      BY <1>8, <2>4, <3>2 DEF Owns
    <3> QED BY <1>4, <1>9, <3>2, <3>3 DEF Owns, Live
  <2> QED BY <2>3, <2>4
<1> QED BY <1>3, <1>4, <1>10, <1>11, <1>12, <1>13, <1>14, <1>15 DEF CoreInv, CauseInv, LinkPanicHasCause

\* tfs_write.
LEMMA WriteCore ==
  ASSUME CoreInv, phase = "up", NEW h, IsOpen(h), NEW data \in Seq(Bytes), WriteOpen(h, data),
         buf' = <<>>, UNCHANGED <<linkVars, mishaps>>
  PROVE  CoreInv'
<1>1. CASE WriteNoSpace(h, data)
  BY <1>1, FailCore DEF WriteNoSpace, FailLink
<1>2. CASE WriteNothing(h, data)
  <2>1. UNCHANGED <<inodeVars, dir_entry, blockVars, fileVars, linkVars>> /\ phase' = "up" /\ ret' = 0
    BY <1>2 DEF WriteNothing
  <2>2. mishaps' \subseteq Mishaps
    BY DEF CoreInv, RestTyped
  <2> QED BY <2>1, <2>2, TablesStay
<1>3. CASE WriteDies(h, data)
  <2>1. /\ UNCHANGED <<inodeVars, dir_entry, blockVars, fileVars, linkVars, ret>>
        /\ phase' = "panic" /\ open_file_table[h].of_offset > BLOCK_SIZE
    BY <1>3 DEF WriteDies
  <2>2. mishaps \cap {"pulled", "chain"} # {}
    <3> SUFFICES ASSUME mishaps \cap {"pulled", "chain"} = {} PROVE FALSE
      OBVIOUS
    <3> DEFINE off  == open_file_table[h].of_offset
               size == inode_table[open_file_table[h].of_inumber].i_size
    <3>1. off \in Nat /\ size \in 0 .. BLOCK_SIZE /\ off <= size /\ off > BLOCK_SIZE
      BY <2>1, HandleWithin
    <3> HIDE DEF off, size
    <3> QED BY <3>1, SizesAssumption
  <2>3. mishaps' \subseteq Mishaps /\ ret' \in Nat \cup {-1}
    BY <2>1 DEF CoreInv, RestTyped, TablesTyped
  <2> QED BY <2>1, <2>2, <2>3, TablesStay
<1> QED BY <1>1, <1>2, <1>3, WriteBytesCore DEF WriteOpen

(***************************************************************************)
(* tfs_copy_from_external_fs.                                              *)
(***************************************************************************)

\* A write at the end of a file appends what fits.
LEMMA WriteAppends ==
  ASSUME TypeOK, NEW h \in Handles, NEW data \in Seq(Bytes), WriteOpen(h, data), ret' # -1,
         NEW off, open_file_table[h].of_offset = off,
         NEW i, open_file_table[h].of_inumber = i,
         inode_table[i].i_size = off, off > 0 => inode_table[i].i_data_block \in Blocks,
         phase' = "up"
  PROVE  /\ open_file_table'[h].of_inumber = i
         /\ open_file_table'[h].of_offset = AtMost(off + Len(data), BLOCK_SIZE)
         /\ inode_table'[i].i_size = AtMost(off + Len(data), BLOCK_SIZE)
         /\ \A o \in 0 .. inode_table'[i].i_size - 1 :
              fs_data'[inode_table'[i].i_data_block][o] =
                IF o < off THEN fs_data[inode_table[i].i_data_block][o] ELSE data[o - off + 1]
<1> DEFINE len == Len(data)
           n   == ToWrite(off, len)
<1>1. /\ open_file_table[h] \in OpenFile /\ i \in Inumbers /\ inode_table[i] \in Inode
      /\ open_file_table \in [Handles -> OpenFile] /\ inode_table \in [Inumbers -> Inode]
      /\ fs_data \in [Blocks -> [Offsets -> Bytes \cup {Garbage}]]
  BY DEF TypeOK, OpenFile
<1>2. off \in 0 .. BLOCK_SIZE /\ len \in Nat
  BY <1>1 DEF Inode
<1>3. n \in Nat /\ n <= len /\ off + n <= BLOCK_SIZE /\ off + n = AtMost(off + len, BLOCK_SIZE)
  <2> HIDE DEF len
  <2>1. n \in Nat /\ n <= len /\ off + n <= BLOCK_SIZE
    BY <1>2, ToWriteFits
  <2>2. CASE len + off > BLOCK_SIZE
    <3>1. SizeSub(BLOCK_SIZE, off) = BLOCK_SIZE - off
      BY <1>2, SizeSubExact, SizesAssumption
    <3> QED BY <1>2, <2>1, <2>2, <3>1, SizesAssumption DEF ToWrite, AtMost
  <2>3. CASE ~(len + off > BLOCK_SIZE)
    BY <1>2, <2>1, <2>3, SizesAssumption DEF ToWrite, AtMost
  <2> QED BY <2>1, <2>2, <2>3
<1>4. CASE WriteNothing(h, data)
  <2>1. n = 0 /\ UNCHANGED <<inodeVars, blockVars, fileVars>>
    BY <1>4 DEF WriteNothing
  <2>2. UNCHANGED <<inode_table, fs_data, open_file_table>> /\ AtMost(off + len, BLOCK_SIZE) = off
    <3> HIDE DEF n, len
    <3> QED BY <1>2, <1>3, <2>1 DEF inodeVars, blockVars, fileVars
  <2> HIDE DEF n, len
  <2>3. \A o \in 0 .. off - 1 : o < off
    BY <1>2, SizesAssumption
  <2> QED BY <2>2, <2>3 DEF len
<1>5. CASE WriteBytes(h, data)
  <2>1. PICK b : /\ Memcpy(b, off, data, n)
                 /\ inode_table' = [inode_table EXCEPT ![i].i_data_block = b,
                                      ![i].i_size = GrownSize(off, off + n)]
                 /\ (off > 0 /\ b = inode_table[i].i_data_block) \/ off = 0
                 /\ b \in Blocks
                 /\ n > 0
                 /\ open_file_table' = [open_file_table EXCEPT ![h].of_offset = off + n]
    BY <1>5 DEF WriteBytes
  <2>2. /\ open_file_table'[h].of_inumber = i /\ open_file_table'[h].of_offset = off + n
        /\ inode_table'[i].i_data_block = b /\ inode_table'[i].i_size = GrownSize(off, off + n)
    <3> HIDE DEF n
    <3> QED BY <1>1, <2>1 DEF OpenFile, Inode
  <2>3. GrownSize(off, off + n) = off + n
    <3> HIDE DEF n
    <3> QED BY <1>2, <1>3, <2>1 DEF GrownSize
  <2>4. ASSUME NEW o \in 0 .. off + n - 1
        PROVE  fs_data'[b][o] = IF o < off THEN fs_data[inode_table[i].i_data_block][o]
                                 ELSE data[o - off + 1]
    <3> HIDE DEF n
    <3>1. o \in Offsets
      BY <1>2, <1>3, SizesAssumption DEF Offsets
    <3>2. fs_data'[b] = [p \in Offsets |-> IF off <= p /\ p < off + n THEN data[p - off + 1]
                                            ELSE fs_data[b][p]]
      BY <1>1, <2>1 DEF Memcpy
    <3>3. fs_data'[b][o] = IF off <= o /\ o < off + n THEN data[o - off + 1] ELSE fs_data[b][o]
      BY <3>1, <3>2
    <3>4. CASE o < off
      <4>1. b = inode_table[i].i_data_block /\ ~(off <= o)
        BY <1>2, <2>1, <3>4
      <4> QED BY <3>3, <3>4, <4>1
    <3>5. CASE ~(o < off)
      <4>1. off <= o /\ o < off + n
        BY <1>2, <1>3, <3>5
      <4> QED BY <3>3, <3>5, <4>1
    <3> QED BY <3>4, <3>5
  <2>5. off + n = AtMost(off + Len(data), BLOCK_SIZE)
    BY <1>3
  <2> HIDE DEF n, len
  <2>6. inode_table'[i].i_size = off + n
    BY <2>2, <2>3
  <2>7. \A o \in 0 .. inode_table'[i].i_size - 1 :
          fs_data'[inode_table'[i].i_data_block][o] =
            IF o < off THEN fs_data[inode_table[i].i_data_block][o] ELSE data[o - off + 1]
    BY <1>2, <1>3, <2>2, <2>4, <2>6
  <2> QED BY <2>2, <2>5, <2>6, <2>7
<1>6. ~WriteNoSpace(h, data) /\ ~WriteDies(h, data)
  BY DEF WriteNoSpace, WriteDies, FailCall
<1> QED BY <1>4, <1>5, <1>6 DEF WriteOpen

\* The copy starts with the destination open and empty.
LEMMA CopyOpened ==
  ASSUME CoreInv, CopyInv, NEW dest, NEW file \in ExternalFiles, CopyOpens(dest, file)
  PROVE  CoreInv' /\ CopyInv'
<1> DEFINE mode == {"CREAT", "TRUNC", "APPEND"}
<1>1. CoreInv' /\ OpenGives(mode)
  BY OpenCore DEF CopyOpens
<1>2. CASE copy' = NoCopy
  BY <1>1, <1>2, NoCopyInv
<1>3. CASE phase' = "up" /\ ret' # -1 /\ copy' = [to |-> ret', file |-> file, at |-> 0, outcome |-> 1]
  <2>1. /\ ret' \in Handles /\ free_open_file_entries'[ret'] = "TAKEN"
        /\ freeinode_ts'[open_file_table'[ret'].of_inumber] = "TAKEN"
        /\ inode_table'[open_file_table'[ret'].of_inumber].i_size = 0
        /\ open_file_table'[ret'].of_offset = 0
    BY <1>1, <1>3 DEF OpenGives
  <2>2. CopyTyped'
    BY <1>3, <2>1 DEF CopyTyped
  <2>3. CopyOpen'
    <3>1. Len(file) \in Nat
      BY LinksAssumption
    <3> QED BY <1>3, <2>1, <3>1 DEF CopyOpen, IsOpen
  <2>4. CopyDone'
    <3>1. AtMost(0, BLOCK_SIZE) = 0
      BY SizesAssumption DEF AtMost
    <3> QED BY <1>3, <2>1, <3>1 DEF CopyDone, Live
  <2> QED BY <1>1, <2>2, <2>3, <2>4 DEF CopyInv
<1> QED BY <1>2, <1>3 DEF CopyOpens

\* A buffer more is written.
LEMMA CopyWritten ==
  ASSUME CoreInv, CopyInv, CopyWrites
  PROVE  CoreInv' /\ CopyInv'
<1> DEFINE rest == Len(copy.file) - copy.at
           n    == AtMost(rest, COPY_BUFFER)
           data == SubSeq(copy.file, copy.at + 1, copy.at + n)
           result == IF ret' = -1 THEN -1 ELSE IF rest < COPY_BUFFER THEN 0 ELSE 1
<1>1. /\ phase = "up" /\ copy.outcome = 1 /\ WriteOpen(copy.to, data)
      /\ copy' = [copy EXCEPT !.at = @ + n, !.outcome = result]
      /\ buf' = <<>> /\ UNCHANGED <<linkVars, mishaps>>
  BY DEF CopyWrites
<1>2. copy # NoCopy
  BY <1>1 DEF NoCopy
<1>3. PICK h \in Handles, file \in ExternalFiles, at \in Nat :
        copy.to = h /\ copy.file = file /\ copy.at = at /\ IsOpen(h) /\ at <= Len(file)
  BY <1>2 DEF CopyInv, CopyTyped, CopyOpen, IsOpen
<1>4. file \in Seq(Bytes) /\ Len(file) \in Nat /\ COPY_BUFFER \in Nat \ {0}
  BY LinksAssumption
<1>5. rest \in Nat /\ n \in Nat /\ n <= rest /\ (rest < COPY_BUFFER => n = rest)
  BY <1>3, <1>4 DEF AtMost
<1>6. at + n \in Nat /\ at + n <= Len(file) /\ (rest < COPY_BUFFER => at + n = Len(file))
  BY <1>3, <1>4, <1>5
<1> HIDE DEF n, rest
<1>7. /\ data \in Seq(Bytes) /\ Len(data) = n
      /\ \A k \in 1 .. n : data[k] = file[at + k]
  <2>1. \A k \in at + 1 .. at + n : file[k] \in Bytes
    BY <1>3, <1>4, <1>6
  <2>2. at + 1 \in Int /\ at + n \in Int
    BY <1>3, <1>6
  <2>3. /\ data \in Seq(Bytes)
        /\ Len(data) = IF at + 1 <= at + n THEN (at + n) - (at + 1) + 1 ELSE 0
        /\ \A k \in 1 .. (at + n) - (at + 1) + 1 : data[k] = file[(at + 1) + k - 1]
    BY <1>3, <2>1, <2>2, SubSeqProperties
  <2>4. (at + n) - (at + 1) + 1 = n /\ (IF at + 1 <= at + n THEN (at + n) - (at + 1) + 1 ELSE 0) = n
    BY <1>3, <1>5
  <2>5. \A k \in 1 .. n : (at + 1) + k - 1 = at + k
    BY <1>3, <1>5
  <2> HIDE DEF data
  <2> QED BY <2>3, <2>4, <2>5
<1> HIDE DEF data, result
<1>8. CoreInv'
  BY <1>1, <1>3, <1>7, WriteCore
<1>9. /\ copy'.to = h /\ copy'.file = file /\ copy'.at = at + n /\ copy'.outcome = result
      /\ CopyTyped'
  <2>1. copy \in [to : Handles \cup {-1}, file : ExternalFiles \cup {<<>>},
                  at : Nat, outcome : {-1, 0, 1}]
    BY DEF CopyInv, CopyTyped
  <2>2. result \in {-1, 0, 1}
    BY DEF result
  <2> QED BY <1>1, <1>3, <1>6, <2>1, <2>2 DEF CopyTyped
<1>10. CopyOpen'
  <2>1. free_open_file_entries' = free_open_file_entries
    BY <1>1, <1>3 DEF WriteOpen, WriteBytes, WriteNoSpace, WriteNothing, WriteDies, FailCall, fileVars
  <2>2. result = 0 => at + n = Len(file)
    BY <1>6 DEF result
  <2> QED BY <1>3, <1>6, <1>9, <2>1, <2>2 DEF CopyOpen, IsOpen
<1>11. CopyDone'
  <2> SUFFICES ASSUME result # -1 PROVE CopyDone'
    BY <1>9 DEF CopyDone
  <2>1. PICK i : open_file_table[h].of_inumber = i
    OBVIOUS
  <2>2. PICK off : open_file_table[h].of_offset = off
    OBVIOUS
  <2>3. /\ Live(i) /\ off = AtMost(at, BLOCK_SIZE) /\ inode_table[i].i_size = off
        /\ \A o \in 0 .. off - 1 : fs_data[inode_table[i].i_data_block][o] = file[o + 1]
    BY <1>1, <1>2, <1>3, <2>1, <2>2 DEF CopyInv, CopyDone
  <2>4. i \in Inumbers /\ off \in Nat /\ TypeOK
    BY <1>1, <1>3, <2>1, <2>2, CoreTyped DEF TypeOK, OpenFile
  <2>5. off > 0 => inode_table[i].i_data_block \in Blocks
    BY <2>3, <2>4 DEF CoreInv, BlocksInv, BlocksExclusive
  <2>6. ret' # -1
    BY DEF result
  <2>7. phase' = "up"
    <3>1. off <= BLOCK_SIZE
      BY <1>3, <2>3, SizesAssumption DEF AtMost
    <3>2. ~WriteDies(h, data)
      BY <2>2, <2>4, <3>1, SizesAssumption DEF WriteDies
    <3> QED BY <1>1, <1>3, <3>2 DEF WriteOpen, WriteBytes, WriteNoSpace, WriteNothing, FailCall
  <2>8. /\ open_file_table'[h].of_inumber = i
        /\ open_file_table'[h].of_offset = AtMost(off + n, BLOCK_SIZE)
        /\ inode_table'[i].i_size = AtMost(off + n, BLOCK_SIZE)
        /\ \A o \in 0 .. inode_table'[i].i_size - 1 :
             fs_data'[inode_table'[i].i_data_block][o] =
               IF o < off THEN fs_data[inode_table[i].i_data_block][o] ELSE data[o - off + 1]
    <3>1. WriteOpen(h, data)
      BY <1>1, <1>3
    <3>2. PICK d \in Seq(Bytes) : d = data
      BY <1>7
    <3>3. inode_table[i].i_size = off /\ WriteOpen(h, d)
      BY <2>3, <3>1, <3>2
    <3>4. /\ open_file_table'[h].of_inumber = i
          /\ open_file_table'[h].of_offset = AtMost(off + Len(d), BLOCK_SIZE)
          /\ inode_table'[i].i_size = AtMost(off + Len(d), BLOCK_SIZE)
          /\ \A o \in 0 .. inode_table'[i].i_size - 1 :
               fs_data'[inode_table'[i].i_data_block][o] =
                 IF o < off THEN fs_data[inode_table[i].i_data_block][o] ELSE d[o - off + 1]
      BY <2>1, <2>2, <2>4, <2>5, <2>6, <2>7, <3>3, WriteAppends
    <3> QED BY <1>7, <3>2, <3>4
  <2>9. AtMost(off + n, BLOCK_SIZE) = AtMost(at + n, BLOCK_SIZE)
    BY <1>3, <1>5, <2>3, SizesAssumption DEF AtMost
  <2>10. ASSUME NEW o \in 0 .. inode_table'[i].i_size - 1
         PROVE  fs_data'[inode_table'[i].i_data_block][o] = file[o + 1]
    <3>1. o \in Nat /\ o < BLOCK_SIZE /\ o < at + n /\ o < off + n
      BY <1>6, <1>5, <2>4, <2>8, <2>9, SizesAssumption DEF AtMost
    <3>2. CASE o < off
      BY <2>3, <2>4, <2>8, <3>1, <3>2
    <3>3. CASE ~(o < off)
      <4>1. off = at
        BY <1>3, <2>3, <3>1, <3>3, SizesAssumption DEF AtMost
      <4>2. o - off + 1 \in 1 .. n /\ at + (o - off + 1) = o + 1
        BY <1>3, <1>5, <3>1, <3>3, <4>1
      <4> QED BY <1>7, <2>8, <3>3, <4>2
    <3> QED BY <3>2, <3>3
  <2>11. freeinode_ts' = freeinode_ts
    BY <1>1, <1>3 DEF WriteOpen, WriteBytes, WriteNoSpace, WriteNothing, WriteDies, FailCall, inodeVars
  <2> QED BY <1>9, <2>3, <2>8, <2>9, <2>10, <2>11 DEF CopyDone, Live
<1> QED BY <1>8, <1>9, <1>10, <1>11 DEF CopyInv

(***************************************************************************)
(* The invariant.                                                          *)
(***************************************************************************)

\* The state after tfs_init.
LEMMA LinksStart == LinksInit => LinkInv
<1> SUFFICES ASSUME LinksInit PROVE LinkInv
  OBVIOUS
<1>1. Init /\ phase = "up" /\ mishaps = {} /\ copy = NoCopy /\ lock_file_entries = "free"
        /\ cnt_hardlinks = [i \in Inumbers |-> 1] /\ is_softlink = [i \in Inumbers |-> FALSE]
  BY DEF LinksInit, Init
<1>2. TypeOK /\ TablesInv
  BY <1>1, InitTyped, InitTables
<1>3. TablesTyped /\ RestTyped
  BY <1>1, <1>2 DEF TypeOK, TablesTyped, RestTyped
<1>4. /\ \A h \in Handles : ~IsOpen(h)
      /\ \A i \in Inumbers : Live(i) => i = ROOT_DIR_INUM
      /\ \A b \in Blocks : free_blocks[b] = "TAKEN" => b = 0
  BY <1>1 DEF Init, AllFree, IsOpen, Live, FreshInodeTs, FreshBlocks
<1>5. DirInv
  <2>1. EntriesLive
    BY <1>2 DEF EntriesLive, TablesInv, DirectoryConsistent, InumAt
  <2> QED BY <1>4, <2>1 DEF DirInv, Counted
<1>6. BlocksInv
  BY <1>2 DEF TablesInv, BlocksInv
<1>7. HandlesLive /\ HandlesWithin
  BY <1>4 DEF HandlesLive, HandlesWithin
<1>8. LinksSized
  BY <1>1 DEF LinksSized
<1>9. LostBlockHasCause
  <2>1. Owns(ROOT_DIR_INUM, 0)
    BY <1>6, SizesAssumption DEF BlocksInv, RootIntact, RootInode, Owns
  <2> QED BY <1>4, <2>1, RootInumber DEF LostBlockHasCause
<1>10. LinkPanicHasCause
  BY <1>1 DEF LinkPanicHasCause
<1>11. CopyInv
  BY <1>1 DEF CopyInv, CopyTyped, CopyOpen, CopyDone, NoCopy
<1> QED BY <1>1, <1>3, <1>5, <1>6, <1>7, <1>8, <1>9, <1>10, <1>11 DEF LinkInv, CoreInv, CauseInv

\* A call other than the copy.
LEMMA CallKeeps ==
  ASSUME LinkInv, NEW name, NEW other, NEW mode, NEW h,
         NEW data \in Seq(Bytes), NEW len \in Nat,
         \/ LinkOpen(name, mode) \/ HardLink(name, other) \/ SymLink(name, other) \/ Unlink(name)
         \/ LinkClose(h) \/ LinkWrite(h, data) \/ LinkRead(h, len)
  PROVE  LinkInv'
<1>1. CoreInv /\ lock_file_entries \in {"free", "kept"}
  BY DEF LinkInv
<1>2. copy' = NoCopy /\ phase = "up"
  BY DEF LinkOpen, HardLink, SymLink, Unlink, LinkCall, LinkClose, LinkWrite, LinkRead
<1>3. CopyInv'
  BY <1>2, NoCopyInv
<1>4. lock_file_entries' \in {"free", "kept"}
  BY <1>1 DEF LinkOpen, HardLink, SymLink, Unlink, LinkCall, LinkClose, LinkWrite, LinkRead,
              RefuseHandle, WaitForEver
<1>5. CASE LinkOpen(name, mode)
  <2>1. Open(name, mode) /\ buf' = <<>>
    BY <1>5 DEF LinkOpen
  <2> QED BY <1>1, <1>2, <1>3, <1>4, <2>1, OpenCore DEF LinkInv
<1>6. CASE HardLink(name, other)
  BY <1>1, <1>3, <1>4, <1>6, HardLinkCore DEF LinkInv
<1>7. CASE SymLink(name, other)
  BY <1>1, <1>3, <1>4, <1>7, SymLinkCore DEF LinkInv
<1>8. CASE Unlink(name)
  BY <1>1, <1>3, <1>4, <1>8, UnlinkCore DEF LinkInv
<1>9. ASSUME buf' = <<>>, UNCHANGED mishaps, RefuseHandle(h) \/ WaitForEver(h)
      PROVE  LinkInv'
  BY <1>1, <1>2, <1>3, <1>4, <1>9, RefusedCore DEF LinkInv
<1>10. CASE LinkClose(h)
  <2>1. CASE CloseHandle(h) /\ UNCHANGED linkVars
    <3>1. /\ h \in Handles
          /\ free_open_file_entries' = [free_open_file_entries EXCEPT ![h] = "FREE"]
          /\ UNCHANGED <<phase, inodeVars, dir_entry, blockVars, open_file_table, linkVars, mishaps>>
          /\ ret' \in Nat \cup {-1} /\ buf' = <<>>
      BY <1>10, <2>1 DEF LinkClose, CloseHandle, IsOpen
    <3> QED BY <1>1, <1>2, <1>3, <1>4, <3>1, ClosedCore DEF LinkInv
  <2> QED BY <1>9, <1>10, <2>1 DEF LinkClose
<1>11. CASE LinkWrite(h, data)
  <2>1. CASE HandleGood(h) /\ WriteOpen(h, data) /\ UNCHANGED linkVars
    <3>1. IsOpen(h) /\ buf' = <<>> /\ UNCHANGED <<linkVars, mishaps>>
      BY <1>11, <2>1 DEF HandleGood, LinkWrite
    <3> QED BY <1>1, <1>2, <1>3, <1>4, <2>1, <3>1, WriteCore DEF LinkInv
  <2> QED BY <1>9, <1>11, <2>1 DEF LinkWrite
<1>12. CASE LinkRead(h, len)
  <2>1. CASE HandleGood(h) /\ (ReadBytes(h, len) \/ ReadDies(h, len)) /\ UNCHANGED linkVars
    <3>1. IsOpen(h) /\ UNCHANGED <<linkVars, mishaps>>
      BY <1>12, <2>1 DEF HandleGood, LinkRead
    <3> QED BY <1>1, <1>2, <1>3, <1>4, <2>1, <3>1, ReadCore DEF LinkInv
  <2> QED BY <1>9, <1>12, <2>1 DEF LinkRead
<1> QED BY <1>5, <1>6, <1>7, <1>8, <1>10, <1>11, <1>12

\* A step of the copy.
LEMMA CopyKeeps ==
  ASSUME LinkInv, CallCopy
  PROVE  LinkInv'
<1>1. CoreInv /\ CopyInv /\ lock_file_entries \in {"free", "kept"}
  BY DEF LinkInv
<1>2. lock_file_entries' \in {"free", "kept"}
  BY <1>1 DEF CallCopy, CopyOpens, CopyWrites, CopyCloses
<1>3. ASSUME NEW dest \in Paths, NEW file \in ExternalFiles, CopyOpens(dest, file) PROVE LinkInv'
  BY <1>1, <1>2, <1>3, CopyOpened DEF LinkInv
<1>4. CASE CopyWrites
  BY <1>1, <1>2, <1>4, CopyWritten DEF LinkInv
<1>5. CASE CopyCloses
  <2>1. PICK h \in Handles : copy.to = h
    BY <1>1, <1>5 DEF CopyCloses, CopyInv, CopyOpen, IsOpen
  <2>2. /\ free_open_file_entries' = [free_open_file_entries EXCEPT ![h] = "FREE"]
        /\ UNCHANGED <<phase, inodeVars, dir_entry, blockVars, open_file_table, linkVars, mishaps>>
        /\ phase = "up" /\ buf' = <<>> /\ copy' = NoCopy
    BY <1>5, <2>1 DEF CopyCloses
  <2>3. ret' \in Nat \cup {-1}
    BY <1>1, <1>5 DEF CopyCloses, CopyInv, CopyTyped
  <2> QED BY <1>1, <1>2, <2>2, <2>3, ClosedCore, NoCopyInv DEF LinkInv
<1> QED BY <1>3, <1>4, <1>5 DEF CallCopy

\* Every step keeps the invariant.
LEMMA LinksStep == LinkInv /\ [LinksNext]_linksVars => LinkInv'
<1> SUFFICES ASSUME LinkInv, [LinksNext]_linksVars PROVE LinkInv'
  OBVIOUS
<1>1. CASE UNCHANGED linksVars
  <2>1. CoreInv'
    BY <1>1, TablesStay DEF LinkInv, CoreInv, TablesTyped, RestTyped, CauseInv, LinkPanicHasCause,
       linksVars, vars
  <2>2. CopyInv'
    BY <1>1 DEF LinkInv, CopyInv, CopyTyped, CopyOpen, CopyDone, IsOpen, Live,
       linksVars, vars, inodeVars, blockVars, fileVars
  <2> QED BY <1>1, <2>1, <2>2 DEF LinkInv, linksVars
<1>2. CASE CallCopy
  BY <1>2, CopyKeeps
<1>3. CASE CallOpen \/ CallLink \/ CallSymLink \/ CallUnlink \/ CallClose \/ CallWrite \/ CallRead
  <2>1. /\ <<>> \in Seq(Bytes) /\ 0 \in Nat
        /\ \A data \in Buffers : data \in Seq(Bytes)
        /\ \A len \in ReadLens : len \in Nat
    BY LinksAssumption
  <2>2. CASE CallOpen \/ CallLink \/ CallSymLink \/ CallUnlink
    BY <2>1, <2>2, CallKeeps DEF CallOpen, CallLink, CallSymLink, CallUnlink
  <2>3. CASE CallClose
    BY <2>1, <2>3, CallKeeps DEF CallClose
  <2>4. CASE CallWrite
    <3>1. PICK h \in HandleArgs, data \in Buffers : LinkWrite(h, data)
      BY <2>4 DEF CallWrite
    <3> QED BY <2>1, <3>1, CallKeeps
  <2>5. CASE CallRead
    <3>1. PICK h \in HandleArgs, len \in ReadLens : LinkRead(h, len)
      BY <2>5 DEF CallRead
    <3> QED BY <2>1, <3>1, CallKeeps
  <2> QED BY <1>3, <2>2, <2>3, <2>4, <2>5
<1> QED BY <1>1, <1>2, <1>3 DEF LinksNext

\* What holds of exercise1/fs called by one thread, whatever it calls.
LEMMA LinksInvariant == LinksSpec => []LinkInv
  BY LinksStart, LinksStep, PTL DEF LinksSpec

\* The tables of exercise1, and a copy in progress, keep their types
\* (state.c, operations.c).
THEOREM LinksTypeCorrect == LinksSpec => []LinksTypeOK
<1>1. LinkInv => LinksTypeOK
  BY DEF LinkInv, CoreInv, CopyInv, CopyTyped, TablesTyped, RestTyped, LinksTypeOK
<1> QED BY <1>1, LinksInvariant, PTL

\* The counter of hard links is exact: tfs_unlink deletes a file with its
\* last name, not before and not after (operations.c, tfs_link, tfs_unlink).
THEOREM LinkCountAlwaysExact == LinksSpec => []LinkCountExact
<1>1. LinkInv => LinkCountExact
  <2> SUFFICES ASSUME LinkInv, NEW i \in Inumbers \ {ROOT_DIR_INUM}, ~Live(i)
               PROVE  EntriesOf(i) = {}
    BY DEF LinkInv, CoreInv, DirInv, Counted, LinkCountExact
  <2> QED BY SizesAssumption DEF LinkInv, CoreInv, DirInv, EntriesLive, EntriesOf, InumAt, Used, Inumbers
<1> QED BY <1>1, LinksInvariant, PTL

\* No two live files share a block, none has a block that is free, and the
\* root keeps its own (state.c, data_block_alloc, data_block_free).
THEOREM LinkBlocksAlwaysExclusive == LinksSpec => []LinkBlocksExclusive
<1>1. LinkInv => LinkBlocksExclusive
  BY DEF LinkInv, CoreInv, BlocksInv, LinkBlocksExclusive
<1> QED BY <1>1, LinksInvariant, PTL

\* A block is lost only where tfs_sym_link met a full directory or a file was
\* pulled from under a handle (operations.c, tfs_sym_link).
THEOREM LostBlockAlwaysHasCause == LinksSpec => []LostBlockHasCause
<1>1. LinkInv => LostBlockHasCause
  BY DEF LinkInv, CoreInv, CauseInv
<1> QED BY <1>1, LinksInvariant, PTL

\* The process dies in an assertion only for a known cause (state.c,
\* inode_get, data_block_get).
THEOREM LinkPanicAlwaysHasCause == LinksSpec => []LinkPanicHasCause
<1>1. LinkInv => LinkPanicHasCause
  BY DEF LinkInv, CoreInv, CauseInv
<1> QED BY <1>1, LinksInvariant, PTL

(***************************************************************************)
(* The target of a symbolic link.                                          *)
(***************************************************************************)

\* A step leaves the symbolic links and their blocks alone.
SoftKept ==
  mishaps' \cap {"pulled", "chain"} = {} =>
    \A i \in Inumbers : Live(i) /\ is_softlink[i] =>
      /\ inode_table'[i] = inode_table[i]
      /\ fs_data'[inode_table[i].i_data_block] = fs_data[inode_table[i].i_data_block]

\* An open call truncates no symbolic link.
LEMMA OpenKeepsSoft ==
  ASSUME CoreInv, phase = "up", NEW name, NEW mode, Open(name, mode)
  PROVE  SoftKept
<1>1. fs_data' = fs_data
  BY DEF Open, OpenExisting, OpenMissing, OpenNew, OpenInode, FailLink, FailCall, blockVars
<1>2. ASSUME NEW inum, is_softlink[inum] => "chain" \in mishaps', OpenInode(inum, mode)
      PROVE  SoftKept
  <2>1. \A i \in Inumbers : i # inum => inode_table'[i] = inode_table[i]
    BY <1>2 DEF OpenInode, Truncate, CoreInv, TablesTyped
  <2> QED BY <1>1, <1>2, <2>1 DEF SoftKept
<1>3. ASSUME NEW inum \in Inumbers, IsFirstFree(freeinode_ts, inum),
             inode_table' = [inode_table EXCEPT ![inum] = NewFileInode]
      PROVE  SoftKept
  <2>1. ~Live(inum) /\ \A i \in Inumbers : i # inum => inode_table'[i] = inode_table[i]
    BY <1>3 DEF IsFirstFree, Live, CoreInv, TablesTyped
  <2> QED BY <1>1, <2>1 DEF SoftKept
<1>4. CASE FailLink
  BY <1>1, <1>4 DEF SoftKept, FailLink, FailCall, inodeVars
<1>5. CASE OpenMissing(name, mode)
  BY <1>3, <1>4, <1>5 DEF OpenMissing, OpenNew, InodeComesAndGoes, InodeCreate, InodeCreateFile
<1>6. CASE OpenExisting(name, mode)
  <2>1. FailLink \/ \E inum : OpenInode(inum, mode) /\ (is_softlink[inum] => "chain" \in mishaps')
    BY <1>6 DEF OpenExisting
  <2> QED BY <1>2, <1>4, <2>1
<1> QED BY <1>5, <1>6 DEF Open

\* A write reaches no block of another file.
LEMMA WriteKeepsSoft ==
  ASSUME CoreInv, phase = "up", NEW h, IsOpen(h), NEW data \in Seq(Bytes), WriteOpen(h, data),
         UNCHANGED mishaps
  PROVE  SoftKept
<1>1. CASE UNCHANGED <<inodeVars, blockVars>>
  BY <1>1 DEF SoftKept, inodeVars, blockVars
<1>2. CASE WriteBytes(h, data)
  <2> DEFINE inum == open_file_table[h].of_inumber
  <2>1. PICK b, off, n, s :
          /\ Memcpy(b, off, data, n)
          /\ inode_table' = [inode_table EXCEPT ![inum].i_data_block = b, ![inum].i_size = s]
          /\ \/ inode_table[inum].i_size > 0 /\ b = inode_table[inum].i_data_block
             \/ free_blocks[b] = "FREE"
    BY <1>2 DEF WriteBytes, IsFirstFree
  <2> SUFFICES ASSUME mishaps \cap {"pulled", "chain"} = {}, NEW i \in Inumbers, Live(i), is_softlink[i]
               PROVE  /\ inode_table'[i] = inode_table[i]
                      /\ fs_data'[inode_table[i].i_data_block] = fs_data[inode_table[i].i_data_block]
    BY DEF SoftKept
  <2>2. i # inum /\ inum \in Inumbers /\ Live(inum)
    BY HandleWithin
  <2>3. inode_table'[i] = inode_table[i]
    BY <2>1, <2>2 DEF CoreInv, TablesTyped
  <2>4. inode_table[i].i_size > 0 /\ inode_table[i].i_data_block \in Blocks
          /\ free_blocks[inode_table[i].i_data_block] = "TAKEN"
    BY DEF CoreInv, CauseInv, LinksSized, BlocksInv, BlocksExclusive
  <2>5. inode_table[i].i_data_block # b
    <3>1. ASSUME inode_table[inum].i_size > 0, inode_table[inum].i_data_block = inode_table[i].i_data_block
          PROVE  FALSE
      <4>1. Owns(inum, inode_table[i].i_data_block)
        BY <2>2, <3>1 DEF Owns
      <4> QED BY <2>2, <2>4, <4>1 DEF CoreInv, BlocksInv, BlocksExclusive
    <3> QED BY <2>1, <2>4, <3>1
  <2>6. fs_data \in [Blocks -> [Offsets -> Bytes \cup {Garbage}]]
    BY DEF CoreInv, TablesTyped
  <2>7. fs_data'[inode_table[i].i_data_block] = fs_data[inode_table[i].i_data_block]
    BY <2>1, <2>4, <2>5, <2>6 DEF Memcpy
  <2> QED BY <2>3, <2>7
<1> QED BY <1>1, <1>2 DEF WriteOpen, WriteNoSpace, WriteNothing, WriteDies, FailCall

\* tfs_sym_link writes to an inode that is dead and a block that is free.
LEMMA SymLinkKeepsSoft ==
  ASSUME CoreInv, NEW target, NEW link_name, SymLink(target, link_name), mishaps \subseteq mishaps'
  PROVE  SoftKept
<1>1. CASE UNCHANGED <<inodeVars, blockVars>>
  BY <1>1 DEF SoftKept, inodeVars, blockVars
<1>2. ASSUME NEW inum \in Inumbers, NEW r, IsFirstFree(freeinode_ts, inum),
             inode_table' = [inode_table EXCEPT ![inum] = r],
             \/ UNCHANGED fs_data
             \/ \E b \in Blocks : IsFirstFree(free_blocks, b) /\ \E name : StoreName(b, name)
      PROVE  SoftKept
  <2> SUFFICES ASSUME mishaps \cap {"pulled", "chain"} = {}, NEW i \in Inumbers, Live(i), is_softlink[i]
               PROVE  /\ inode_table'[i] = inode_table[i]
                      /\ fs_data'[inode_table[i].i_data_block] = fs_data[inode_table[i].i_data_block]
    BY DEF SoftKept
  <2>1. i # inum /\ inode_table'[i] = inode_table[i]
    BY <1>2 DEF IsFirstFree, Live, CoreInv, TablesTyped
  <2>2. inode_table[i].i_data_block \in Blocks /\ free_blocks[inode_table[i].i_data_block] = "TAKEN"
    BY DEF CoreInv, CauseInv, LinksSized, BlocksInv, BlocksExclusive
  <2>3. fs_data \in [Blocks -> [Offsets -> Bytes \cup {Garbage}]]
    BY DEF CoreInv, TablesTyped
  <2>4. ASSUME NEW b \in Blocks, NEW name, IsFirstFree(free_blocks, b), StoreName(b, name)
        PROVE  fs_data'[inode_table[i].i_data_block] = fs_data[inode_table[i].i_data_block]
    <3>1. inode_table[i].i_data_block # b
      BY <2>2, <2>4 DEF IsFirstFree
    <3> QED BY <2>2, <2>3, <2>4, <3>1 DEF StoreName, Memcpy
  <2> QED BY <1>2, <2>1, <2>4
<1>3. ASSUME NEW name, \/ SymLinkMade(name, link_name) \/ SymLinkNoBlock
                       \/ SymLinkDirFull(name, link_name) \/ SymLinkNoInode
      PROVE  SoftKept
  <2>1. CASE SymLinkMade(name, link_name)
    BY <1>2, <2>1 DEF SymLinkMade
  <2>2. CASE SymLinkDirFull(name, link_name)
    BY <1>2, <2>2 DEF SymLinkDirFull
  <2>3. CASE SymLinkNoBlock
    BY <1>2, <2>3 DEF SymLinkNoBlock, InodeComesAndGoes, blockVars
  <2>4. CASE SymLinkNoInode
    BY <1>1, <2>4 DEF SymLinkNoInode
  <2> QED BY <1>3, <2>1, <2>2, <2>3, <2>4
<1>4. CASE FailLink
  BY <1>1, <1>4 DEF FailLink, FailCall
<1>5. FailLink \/ \E name : \/ SymLinkMade(name, link_name) \/ SymLinkNoBlock
                           \/ SymLinkDirFull(name, link_name) \/ SymLinkNoInode
  BY DEF SymLink
<1> QED BY <1>3, <1>4, <1>5

\* Every step keeps them.
LEMMA StepKeepsSoft ==
  ASSUME LinkInv, [LinksNext]_linksVars
  PROVE  SoftKept
<1>1. CoreInv
  BY DEF LinkInv
<1>2. CASE UNCHANGED <<inodeVars, blockVars>>
  BY <1>2 DEF SoftKept, inodeVars, blockVars
<1>3. ASSUME NEW h, NEW data \in Seq(Bytes), phase = "up", IsOpen(h), WriteOpen(h, data),
             UNCHANGED mishaps
      PROVE  SoftKept
  BY <1>1, <1>3, WriteKeepsSoft
<1>4. ASSUME NEW name, NEW mode, phase = "up", Open(name, mode) PROVE SoftKept
  BY <1>1, <1>4, OpenKeepsSoft
<1>5. CASE CallCopy
  <2>1. ASSUME NEW dest \in Paths, NEW file \in ExternalFiles, CopyOpens(dest, file) PROVE SoftKept
    BY <1>4, <2>1 DEF CopyOpens
  <2>2. CASE CopyWrites
    <3>1. PICK d : d = SubSeq(copy.file, copy.at + 1,
                              copy.at + AtMost(Len(copy.file) - copy.at, COPY_BUFFER))
      OBVIOUS
    <3>2. phase = "up" /\ WriteOpen(copy.to, d) /\ UNCHANGED mishaps /\ copy.outcome = 1
      BY <2>2, <3>1 DEF CopyWrites
    <3>3. copy # NoCopy
      BY <3>2 DEF NoCopy
    <3>4. IsOpen(copy.to) /\ copy.file \in ExternalFiles /\ copy.at \in Nat /\ copy.at <= Len(copy.file)
      BY <3>3 DEF LinkInv, CopyInv, CopyOpen, CopyTyped
    <3>5. d \in Seq(Bytes)
      <4> DEFINE n == AtMost(Len(copy.file) - copy.at, COPY_BUFFER)
      <4>1. copy.file \in Seq(Bytes) /\ Len(copy.file) \in Nat /\ COPY_BUFFER \in Nat
        BY <3>4, LinksAssumption
      <4>2. n \in Nat /\ copy.at + n <= Len(copy.file)
        BY <3>4, <4>1 DEF AtMost
      <4> HIDE DEF n
      <4>3. \A k \in copy.at + 1 .. copy.at + n : copy.file[k] \in Bytes
        BY <3>4, <4>1, <4>2
      <4>4. SubSeq(copy.file, copy.at + 1, copy.at + n) \in Seq(Bytes)
        BY <3>4, <4>2, <4>3, SubSeqProperties
      <4> QED BY <3>1, <4>4 DEF n
    <3> QED BY <1>3, <3>2, <3>4, <3>5
  <2>3. CASE CopyCloses
    BY <1>2, <2>3 DEF CopyCloses
  <2> QED BY <1>5, <2>1, <2>2, <2>3 DEF CallCopy
<1>6. ASSUME NEW h, RefuseHandle(h) \/ WaitForEver(h) PROVE SoftKept
  BY <1>2, <1>6 DEF RefuseHandle, WaitForEver, FailLink, FailCall
<1>7. CASE CallOpen
  BY <1>4, <1>7 DEF CallOpen, LinkOpen
<1>8. CASE CallLink
  BY <1>2, <1>8 DEF CallLink, HardLink, FailLink, FailCall
<1>9. CASE CallSymLink
  <2>1. PICK target, link_name : SymLink(target, link_name)
    BY <1>9 DEF CallSymLink
  <2>2. mishaps \subseteq mishaps'
    BY <2>1 DEF SymLink, SymLinkMade, SymLinkNoBlock, SymLinkDirFull, SymLinkNoInode
  <2> QED BY <1>1, <2>1, <2>2, SymLinkKeepsSoft
<1>10. CASE CallUnlink
  <2>1. UNCHANGED <<inode_table, fs_data>>
    BY <1>10 DEF CallUnlink, Unlink, FailLink, FailCall, InodeDelete, inodeVars, blockVars
  <2> QED BY <2>1 DEF SoftKept
<1>11. CASE CallClose
  BY <1>2, <1>6, <1>11 DEF CallClose, LinkClose, CloseHandle
<1>12. CASE CallWrite
  <2>1. PICK h \in HandleArgs, data \in Buffers : LinkWrite(h, data)
    BY <1>12 DEF CallWrite
  <2>2. data \in Seq(Bytes)
    BY LinksAssumption
  <2> QED BY <1>3, <1>6, <2>1, <2>2 DEF LinkWrite, HandleGood
<1>13. CASE CallRead
  BY <1>2, <1>6, <1>13 DEF CallRead, LinkRead, ReadBytes, ReadDies
<1>14. CASE UNCHANGED linksVars
  BY <1>2, <1>14 DEF linksVars, vars
<1> QED BY <1>5, <1>7, <1>8, <1>9, <1>10, <1>11, <1>12, <1>13, <1>14 DEF LinksNext

\* The block of a symbolic link is its own and keeps the name of the target,
\* unless a handle reaches the link that should not (operations.c, tfs_sym_link).
THEOREM LinksAlwaysKeepTarget == LinksSpec => LinksKeepTarget
<1>1. LinkInv /\ [LinksNext]_linksVars =>
        [\A i \in Inumbers :
           /\ Live(i) /\ is_softlink[i] /\ Live(i)' /\ is_softlink[i]'
           /\ mishaps' \cap {"pulled", "chain"} = {}
           => LET b == inode_table[i].i_data_block
              IN  inode_table'[i] = inode_table[i] /\ Owns(i, b)' /\ fs_data'[b] = fs_data[b]]_linksVars
  <2> SUFFICES ASSUME LinkInv, [LinksNext]_linksVars, NEW i \in Inumbers,
                      Live(i), is_softlink[i], Live(i)', is_softlink[i]',
                      mishaps' \cap {"pulled", "chain"} = {}
               PROVE  LET b == inode_table[i].i_data_block
                      IN  inode_table'[i] = inode_table[i] /\ Owns(i, b)' /\ fs_data'[b] = fs_data[b]
    OBVIOUS
  <2>1. SoftKept /\ LinkInv'
    BY StepKeepsSoft, LinksStep
  <2>2. inode_table'[i] = inode_table[i]
          /\ fs_data'[inode_table[i].i_data_block] = fs_data[inode_table[i].i_data_block]
    BY <2>1 DEF SoftKept
  <2>3. inode_table'[i].i_size > 0
    BY <2>1 DEF LinkInv, CoreInv, CauseInv, LinksSized
  <2> QED BY <2>2, <2>3 DEF Owns
<1> QED BY <1>1, LinksInvariant, PTL DEF LinksSpec, LinksKeepTarget

(***************************************************************************)
(* The copy of a file from outside.                                        *)
(***************************************************************************)

\* A copy that returned 0 left in the destination the source, cut at the end
\* of the block (operations.c, tfs_copy_from_external_fs).
THEOREM CopyAlwaysReplaces == LinksSpec => CopyReplaces
<1>1. LinkInv /\ [LinksNext]_linksVars =>
        [copy # NoCopy /\ copy' = NoCopy /\ ret' = 0 =>
           LET inode == inode_table[open_file_table[copy.to].of_inumber]
           IN  /\ inode.i_size = AtMost(Len(copy.file), BLOCK_SIZE)
               /\ \A o \in 0 .. inode.i_size - 1 :
                    fs_data[inode.i_data_block][o] = copy.file[o + 1]]_linksVars
  <2> SUFFICES ASSUME LinkInv, [LinksNext]_linksVars, copy # NoCopy, copy' = NoCopy, ret' = 0
               PROVE  LET inode == inode_table[open_file_table[copy.to].of_inumber]
                      IN  /\ inode.i_size = AtMost(Len(copy.file), BLOCK_SIZE)
                          /\ \A o \in 0 .. inode.i_size - 1 :
                               fs_data[inode.i_data_block][o] = copy.file[o + 1]
    OBVIOUS
  <2>1. ~CopyWrites
    <3>1. copy.to \in Handles /\ CopyTyped
      BY DEF LinkInv, CopyInv, CopyOpen, IsOpen
    <3>2. CopyWrites => copy'.to = copy.to
      BY <3>1 DEF CopyWrites, CopyTyped
    <3> QED BY <3>1, <3>2, SizesAssumption DEF NoCopy, Handles
  <2>2. CopyCloses
    BY <2>1 DEF LinksNext, CallOpen, CallLink, CallSymLink, CallUnlink, CallClose, CallWrite, CallRead,
       CallCopy, LinkOpen, HardLink, SymLink, Unlink, LinkCall, LinkClose, LinkWrite, LinkRead,
       CopyOpens, linksVars
  <2>3. copy.outcome = 0
    BY <2>2 DEF CopyCloses
  <2> QED BY <2>3 DEF LinkInv, CopyInv, CopyOpen, CopyDone
<1> QED BY <1>1, LinksInvariant, PTL DEF LinksSpec, CopyReplaces

=============================================================================
