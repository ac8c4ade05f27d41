------------------------- MODULE TfsRefinementProofs -------------------------
(***************************************************************************)
(* Proof that the library of exercise2/fs with careful callers implements  *)
(* FileStore: every call is the same call of the store, for every number   *)
(* of inodes, blocks, handles, directory slots and names.                  *)
(***************************************************************************)
EXTENDS TfsRefinement, TfsCarefulProofs

(***************************************************************************)
(* What the refinement mapping makes of the tables.                        *)
(***************************************************************************)

\* The contents of a file are a sequence of i_size bytes.
ContentsTyped ==
  \A i \in Inumbers : Live(i) =>
    /\ Contents(i) \in Seq(Bytes \cup {Garbage})
    /\ Len(Contents(i)) = inode_table[i].i_size
    /\ inode_table[i].i_size = 0 => Contents(i) = <<>>

\* A name is a file of the store exactly when an entry has it.
FilesView ==
  \A name \in Names :
    /\ NotInDir(name) => storeFiles[name] = NoFile
    /\ \A e \in DirSlots, i \in Inumbers :
         EntryMatches(e, name) /\ dir_entry[e].d_inumber = i =>
           storeFiles[name] = Contents(i) /\ storeFiles[name] # NoFile

\* An open handle is a handle of the store on the name of its file's entry.
HandlesView ==
  \A h \in Handles :
    /\ ~IsOpen(h) => storeHandles[h] = Closed
    /\ IsOpen(h) =>
         /\ storeHandles[h] # Closed
         /\ \E e \in DirSlots : Used(e) /\ dir_entry[e].d_inumber = open_file_table[h].of_inumber
         /\ \A e \in DirSlots : dir_entry[e].d_inumber = open_file_table[h].of_inumber =>
              storeHandles[h] = [name |-> dir_entry[e].d_name,
                                 pos  |-> open_file_table[h].of_offset]

View == ContentsTyped /\ FilesView /\ HandlesView

\* A used entry has a name of its own and a live inode of its own.
EntriesApart ==
  \A e \in DirSlots : Used(e) =>
    /\ dir_entry[e].d_name \in Names
    /\ dir_entry[e].d_inumber \in Inumbers
    /\ Live(dir_entry[e].d_inumber)
    /\ \A f \in DirSlots : Used(f) /\ f # e =>
         dir_entry[f].d_name # dir_entry[e].d_name
           /\ dir_entry[f].d_inumber # dir_entry[e].d_inumber

\* The directory never confuses two files.
LEMMA EntriesAreApart == CarefulInv => EntriesApart
<1> SUFFICES ASSUME CarefulInv PROVE EntriesApart
  OBVIOUS
<1>1. ASSUME NEW e \in DirSlots, Used(e)
      PROVE  dir_entry[e].d_name \in Names /\ dir_entry[e].d_inumber \in Inumbers
  BY <1>1 DEF CarefulInv, TypeOK, TablesInv, NamesKept, Used, DirEntry
<1> QED BY <1>1 DEF EntriesApart, CarefulInv, TablesInv, DirectoryConsistent

\* The contents of a live file are bytes of its block.
LEMMA ContentsAreTyped == CarefulInv => ContentsTyped
<1> SUFFICES ASSUME CarefulInv, NEW i \in Inumbers, Live(i)
             PROVE  /\ Contents(i) \in Seq(Bytes \cup {Garbage})
                    /\ Len(Contents(i)) = inode_table[i].i_size
                    /\ inode_table[i].i_size = 0 => Contents(i) = <<>>
  BY DEF ContentsTyped
<1> DEFINE size == inode_table[i].i_size
           blk  == inode_table[i].i_data_block
<1>1. size \in 0 .. BLOCK_SIZE
  BY DEF CarefulInv, TypeOK, Inode
<1>2. ASSUME NEW k \in 1 .. size PROVE fs_data[blk][k - 1] \in Bytes \cup {Garbage}
  <2>1. k - 1 \in Offsets /\ size > 0
    BY <1>1, SizesAssumption DEF Offsets
  <2>2. blk \in Blocks
    BY <2>1 DEF CarefulInv, TablesInv, BlocksExclusive
  <2> QED BY <2>1, <2>2 DEF CarefulInv, TypeOK
<1>3. Contents(i) = [k \in 1 .. size |-> fs_data[blk][k - 1]]
  BY DEF Contents
<1> HIDE DEF size, blk
<1>4. size \in Nat
  BY <1>1, SizesAssumption
<1>5. Contents(i) \in Seq(Bytes \cup {Garbage})
  BY <1>2, <1>3, <1>4
<1>6. Len(Contents(i)) = size
  BY <1>3, <1>4
<1> QED BY <1>5, <1>6, <1>4 DEF size

\* Looking up a name through the mapping finds the entry that has it.
LEMMA FilesViewed == CarefulInv => FilesView
<1> SUFFICES ASSUME CarefulInv, NEW name \in Names
             PROVE  /\ NotInDir(name) => storeFiles[name] = NoFile
                    /\ \A e \in DirSlots, i \in Inumbers :
                         EntryMatches(e, name) /\ dir_entry[e].d_inumber = i =>
                           storeFiles[name] = Contents(i) /\ storeFiles[name] # NoFile
  BY DEF FilesView
<1>1. NotInDir(name) => storeFiles[name] = NoFile
  BY DEF storeFiles
<1>2. ASSUME NEW e \in DirSlots, EntryMatches(e, name)
      PROVE  storeFiles[name] = Contents(dir_entry[e].d_inumber) /\ storeFiles[name] # NoFile
  <2> DEFINE c == CHOOSE f \in DirSlots : EntryMatches(f, name)
  <2>1. c \in DirSlots /\ EntryMatches(c, name)
    BY <1>2
  <2> HIDE DEF c
  <2>2. c = e
    BY <1>2, <2>1 DEF CarefulInv, TablesInv, DirectoryConsistent, EntryMatches, Used
  <2>3. ~NotInDir(name)
    BY <1>2 DEF NotInDir
  <2>4. storeFiles[name] = Contents(dir_entry[c].d_inumber)
    BY <2>3 DEF storeFiles, InodeOfName, c
  <2>5. Contents(dir_entry[e].d_inumber) \in Seq(Bytes \cup {Garbage})
    BY <1>2, EntriesAreApart, ContentsAreTyped DEF EntriesApart, ContentsTyped, EntryMatches, Used
  <2> QED BY <2>2, <2>4, <2>5, MarkersAssumption
<1> QED BY <1>1, <1>2

\* An open handle is on a live file, which has an entry; the mapping finds it.
LEMMA HandlesViewed == CarefulInv => HandlesView
<1> SUFFICES ASSUME CarefulInv, NEW h \in Handles
             PROVE  /\ ~IsOpen(h) => storeHandles[h] = Closed
                    /\ IsOpen(h) =>
                         /\ storeHandles[h] # Closed
                         /\ \E e \in DirSlots :
                              Used(e) /\ dir_entry[e].d_inumber = open_file_table[h].of_inumber
                         /\ \A e \in DirSlots :
                              dir_entry[e].d_inumber = open_file_table[h].of_inumber =>
                                storeHandles[h] = [name |-> dir_entry[e].d_name,
                                                   pos  |-> open_file_table[h].of_offset]
  BY DEF HandlesView
<1>1. ASSUME ~IsOpen(h) PROVE storeHandles[h] = Closed
  BY <1>1 DEF storeHandles, IsOpen, CarefulInv, TypeOK
<1>2. ASSUME IsOpen(h)
      PROVE  /\ storeHandles[h] # Closed
             /\ \E e \in DirSlots :
                  Used(e) /\ dir_entry[e].d_inumber = open_file_table[h].of_inumber
             /\ \A e \in DirSlots :
                  dir_entry[e].d_inumber = open_file_table[h].of_inumber =>
                    storeHandles[h] = [name |-> dir_entry[e].d_name,
                                       pos  |-> open_file_table[h].of_offset]
  <2> DEFINE i == open_file_table[h].of_inumber
             c == CHOOSE e \in DirSlots : dir_entry[e].d_inumber = i
  <2>1. i \in Inumbers \ {ROOT_DIR_INUM} /\ Live(i) /\ open_file_table[h].of_offset \in Nat
    BY <1>2 DEF CarefulInv, TypeOK, OpenFile, HandlesLive
  <2>2. i # -1
    BY <2>1, SizesAssumption DEF Inumbers
  <2>3. \E e \in DirSlots : dir_entry[e].d_inumber = i
    BY <2>1 DEF CarefulInv, TablesInv, DirectoryConsistent
  <2>4. c \in DirSlots /\ dir_entry[c].d_inumber = i
    BY <2>3
  <2>5. storeHandles[h] = [name |-> dir_entry[c].d_name, pos |-> open_file_table[h].of_offset]
    BY <1>2 DEF storeHandles, NameOfInode, IsOpen
  <2> HIDE DEF c, i
  <2>6. \A e \in DirSlots : dir_entry[e].d_inumber = i => e = c
    BY <2>2, <2>4 DEF CarefulInv, TablesInv, DirectoryConsistent, Used
  <2>7. dir_entry[c].d_name \in Names
    BY <2>2, <2>4, EntriesAreApart DEF EntriesApart, Used
  <2>8. storeHandles[h] # Closed
    BY <2>1, <2>5, <2>7, MarkersAssumption
  <2> QED BY <2>2, <2>4, <2>5, <2>6, <2>8 DEF Used, i
<1> QED BY <1>1, <1>2

\* The mapping as a whole.
LEMMA Viewed == CarefulInv => View
  BY ContentsAreTyped, FilesViewed, HandlesViewed DEF View

\* The same after a step.
LEMMA ViewedNext == CarefulInv' => View' /\ EntriesApart'
<1>1. CarefulInv => View /\ EntriesApart
  BY Viewed, EntriesAreApart
<1> QED BY <1>1, PTL

(***************************************************************************)
(* What a call leaves as it was, seen through the mapping.                 *)
(***************************************************************************)

\* The store's maps have fixed domains, so they are known by their values.
LEMMA FilesAre ==
  ASSUME NEW name \in Names, NEW c,
         storeFiles'[name] = c,
         \A m \in Names \ {name} : storeFiles'[m] = storeFiles[m]
  PROVE  storeFiles' = [storeFiles EXCEPT ![name] = c]
<1>1. /\ DOMAIN storeFiles = Names /\ DOMAIN storeFiles' = Names
      /\ storeFiles = [m \in Names |-> storeFiles[m]]
      /\ storeFiles' = [m \in Names |-> storeFiles'[m]]
  BY DEF storeFiles
<1> QED BY <1>1

\* No name changes, so the store's files do not.
LEMMA FilesAreSame ==
  ASSUME \A m \in Names : storeFiles'[m] = storeFiles[m]
  PROVE  storeFiles' = storeFiles
<1>1. /\ storeFiles = [m \in Names |-> storeFiles[m]]
      /\ storeFiles' = [m \in Names |-> storeFiles'[m]]
  BY DEF storeFiles
<1> QED BY <1>1

\* The store's handles, likewise.
LEMMA HandlesAre ==
  ASSUME NEW h \in Handles, NEW c,
         storeHandles'[h] = c,
         \A g \in Handles \ {h} : storeHandles'[g] = storeHandles[g]
  PROVE  storeHandles' = [storeHandles EXCEPT ![h] = c]
<1>1. /\ DOMAIN storeHandles = Handles /\ DOMAIN storeHandles' = Handles
      /\ storeHandles = [g \in Handles |-> storeHandles[g]]
      /\ storeHandles' = [g \in Handles |-> storeHandles'[g]]
  BY DEF storeHandles
<1> QED BY <1>1

\* No handle changes, so the store's handles do not.
LEMMA HandlesAreSame ==
  ASSUME \A g \in Handles : storeHandles'[g] = storeHandles[g]
  PROVE  storeHandles' = storeHandles
<1>1. /\ storeHandles = [g \in Handles |-> storeHandles[g]]
      /\ storeHandles' = [g \in Handles |-> storeHandles'[g]]
  BY DEF storeHandles
<1> QED BY <1>1

\* A name keeps its contents when its entry and its file do.
LEMMA FileStays ==
  ASSUME CarefulInv, CarefulInv', NEW name \in Names,
         \A e \in DirSlots : dir_entry'[e] = dir_entry[e]
                                \/ (~EntryMatches(e, name) /\ ~EntryMatches(e, name)'),
         \A e \in DirSlots, i \in Inumbers :
           EntryMatches(e, name) /\ dir_entry[e].d_inumber = i => Contents(i)' = Contents(i)
  PROVE  storeFiles'[name] = storeFiles[name]
<1>1. \A e \in DirSlots : EntryMatches(e, name)' <=> EntryMatches(e, name)
  BY DEF EntryMatches
<1>2. CASE NotInDir(name)
  BY <1>1, <1>2, Viewed, ViewedNext DEF View, FilesView, NotInDir
<1>3. ASSUME NEW e \in DirSlots, EntryMatches(e, name)
      PROVE  storeFiles'[name] = storeFiles[name]
  <2> DEFINE i == dir_entry[e].d_inumber
  <2>1. i \in Inumbers
    BY <1>3, EntriesAreApart DEF EntriesApart, EntryMatches, Used
  <2>2. dir_entry'[e].d_inumber = i /\ EntryMatches(e, name)'
    BY <1>1, <1>3
  <2>3. storeFiles[name] = Contents(i)
    BY <1>3, <2>1, Viewed DEF View, FilesView
  <2> QED
    <3> SUFFICES ASSUME NEW j \in Inumbers, j = i
                 PROVE  storeFiles'[name] = storeFiles[name]
      BY <2>1
    <3>1. storeFiles'[name] = Contents(j)'
      BY <2>2, ViewedNext DEF View, FilesView
    <3>2. Contents(j)' = Contents(j)
      BY <1>3
    <3> QED BY <2>3, <3>1, <3>2
<1> QED BY <1>2, <1>3 DEF NotInDir

\* A handle keeps its name and position when its entries do.
LEMMA HandleStays ==
  ASSUME CarefulInv, CarefulInv', NEW h \in Handles,
         free_open_file_entries'[h] = free_open_file_entries[h],
         open_file_table'[h] = open_file_table[h],
         IsOpen(h) => \A e \in DirSlots :
           dir_entry[e].d_inumber = open_file_table[h].of_inumber => dir_entry'[e] = dir_entry[e]
  PROVE  storeHandles'[h] = storeHandles[h]
<1>1. IsOpen(h)' <=> IsOpen(h)
  BY DEF IsOpen
<1>2. CASE ~IsOpen(h)
  BY <1>1, <1>2, Viewed, ViewedNext DEF View, HandlesView
<1>3. CASE IsOpen(h)
  <2>1. PICK e \in DirSlots : dir_entry[e].d_inumber = open_file_table[h].of_inumber
    BY <1>3, Viewed DEF View, HandlesView
  <2>2. storeHandles[h] = [name |-> dir_entry[e].d_name, pos |-> open_file_table[h].of_offset]
    BY <1>3, <2>1, Viewed DEF View, HandlesView
  <2>3. dir_entry'[e] = dir_entry[e]
    BY <1>3, <2>1
  <2>4. storeHandles'[h] = [name |-> dir_entry'[e].d_name, pos |-> open_file_table'[h].of_offset]
    BY <1>1, <1>3, <2>1, <2>3, ViewedNext DEF View, HandlesView
  <2> QED BY <2>2, <2>3, <2>4
<1> QED BY <1>2, <1>3

\* A file whose inode and block stay keeps its contents.
LEMMA ContentsStay ==
  ASSUME NEW i, inode_table'[i] = inode_table[i],
         \/ inode_table[i].i_size = 0
         \/ fs_data'[inode_table[i].i_data_block] = fs_data[inode_table[i].i_data_block]
  PROVE  Contents(i)' = Contents(i)
<1>1. CASE inode_table[i].i_size = 0
  BY <1>1 DEF Contents
<1>2. CASE fs_data'[inode_table[i].i_data_block] = fs_data[inode_table[i].i_data_block]
  BY <1>2 DEF Contents
<1> QED BY <1>1, <1>2

\* A call that fails leaves the store as it was; the inode of a create that is
\* taken back is not a live one.
LEMMA NothingChanges ==
  ASSUME CarefulInv, CarefulInv', UNCHANGED <<dir_entry, fs_data, fileVars>>,
         \A i \in Inumbers : Live(i) => inode_table'[i] = inode_table[i]
  PROVE  storeFiles' = storeFiles /\ storeHandles' = storeHandles
<1>1. ASSUME NEW name \in Names PROVE storeFiles'[name] = storeFiles[name]
  <2>1. \A e \in DirSlots, i \in Inumbers :
          EntryMatches(e, name) /\ dir_entry[e].d_inumber = i => Contents(i)' = Contents(i)
    BY EntriesAreApart, ContentsStay DEF EntriesApart, EntryMatches, Used
  <2> QED BY <2>1, FileStays
<1>2. ASSUME NEW h \in Handles PROVE storeHandles'[h] = storeHandles[h]
  BY HandleStays DEF fileVars
<1> QED BY <1>1, <1>2, FilesAreSame, HandlesAreSame

(***************************************************************************)
(* Call by call: each one is a call of the store.                          *)
(***************************************************************************)

\* The store's view of a handle argument and of a name.
LEMMA OpenSeen ==
  ASSUME CarefulInv
  PROVE  /\ \A h : h \in Store!OpenHandles <=> IsOpen(h)
         /\ \A name : Store!Exists(name) <=> name \in Names /\ ~NotInDir(name)
         /\ \A name \in Names : Store!HasOpen(name) => HasHandle(name)
<1>1. \A h : h \in Store!OpenHandles <=> IsOpen(h)
  BY Viewed DEF View, HandlesView, Store!OpenHandles, IsOpen
<1>2. ASSUME NEW name PROVE Store!Exists(name) <=> name \in Names /\ ~NotInDir(name)
  <2>1. CASE name \in Names /\ ~NotInDir(name)
    <3>1. PICK e \in DirSlots : EntryMatches(e, name)
      BY <2>1 DEF NotInDir
    <3>2. dir_entry[e].d_inumber \in Inumbers
      BY <3>1, EntriesAreApart DEF EntriesApart, EntryMatches, Used
    <3> QED BY <2>1, <3>1, <3>2, Viewed DEF View, FilesView, Store!Exists
  <2>2. CASE ~(name \in Names /\ ~NotInDir(name))
    BY <2>2, Viewed DEF View, FilesView, Store!Exists
  <2> QED BY <2>1, <2>2
<1>3. ASSUME NEW name \in Names, Store!HasOpen(name) PROVE HasHandle(name)
  <2>1. PICK h \in Store!OpenHandles : storeHandles[h].name = name
    BY <1>3 DEF Store!HasOpen
  <2>2. h \in Handles /\ IsOpen(h)
    BY <1>1, <2>1 DEF IsOpen
  <2>3. PICK e \in DirSlots : Used(e) /\ dir_entry[e].d_inumber = open_file_table[h].of_inumber
    BY <2>2, Viewed DEF View, HandlesView
  <2>4. storeHandles[h] = [name |-> dir_entry[e].d_name, pos |-> open_file_table[h].of_offset]
    BY <2>2, <2>3, Viewed DEF View, HandlesView
  <2> QED BY <2>1, <2>2, <2>3, <2>4 DEF HasHandle, EntryMatches, Used
<1> QED BY <1>1, <1>2, <1>3

\* A call that fails at once is refused.
LEMMA FailRefused ==
  ASSUME CarefulInv, CarefulInv', FailCall
  PROVE  Store!Refused
<1>1. storeFiles' = storeFiles /\ storeHandles' = storeHandles
  BY NothingChanges DEF FailCall, inodeVars, blockVars
<1> QED BY <1>1 DEF FailCall, Store!Refused

\* add_to_open_file_table is the granting of a handle.
LEMMA AddGrants ==
  ASSUME CarefulInv, CarefulInv', NEW e \in DirSlots, NEW name \in Names,
         NEW inum \in Inumbers, NEW pos \in Nat,
         AddToOpenFileTable(inum, pos),
         dir_entry'[e] = [d_name |-> name, d_inumber |-> inum],
         \A f \in DirSlots : Used(f) => dir_entry'[f] = dir_entry[f]
  PROVE  Store!Grant(name, pos)
<1>1. ASSUME NEW h \in Handles, free_open_file_entries'[h] = free_open_file_entries[h],
             open_file_table'[h] = open_file_table[h]
      PROVE  storeHandles'[h] = storeHandles[h]
  <2>1. ASSUME IsOpen(h), NEW f \in DirSlots, dir_entry[f].d_inumber = open_file_table[h].of_inumber
        PROVE  dir_entry'[f] = dir_entry[f]
    <3>1. open_file_table[h].of_inumber # -1
      BY SizesAssumption DEF CarefulInv, TypeOK, OpenFile, Inumbers
    <3> QED BY <2>1, <3>1 DEF Used
  <2> QED BY <1>1, <2>1, HandleStays
<1>2. ASSUME NEW h \in Handles, IsFirstFree(free_open_file_entries, h),
             free_open_file_entries' = [free_open_file_entries EXCEPT ![h] = "TAKEN"],
             open_file_table' = [open_file_table EXCEPT ![h] =
                                   [of_inumber |-> inum, of_offset |-> pos]],
             ret' = h
      PROVE  Store!Grant(name, pos)
  <2>1. h \notin Store!OpenHandles
    BY <1>2, OpenSeen DEF IsFirstFree, IsOpen
  <2>2. IsOpen(h)' /\ open_file_table'[h] = [of_inumber |-> inum, of_offset |-> pos]
    BY <1>2 DEF CarefulInv, TypeOK, IsOpen
  <2>3. storeHandles'[h] = [name |-> name, pos |-> pos]
    <3>1. storeHandles'[h] = [name |-> dir_entry'[e].d_name, pos |-> open_file_table'[h].of_offset]
      BY <2>2, ViewedNext DEF View, HandlesView
    <3> QED BY <2>2, <3>1
  <2>4. \A g \in Handles \ {h} : storeHandles'[g] = storeHandles[g]
    BY <1>1, <1>2 DEF CarefulInv, TypeOK
  <2> QED BY <1>2, <2>1, <2>3, <2>4, HandlesAre DEF Store!Grant
<1>3. CASE NoneFree(free_open_file_entries) /\ ret' = -1 /\ UNCHANGED fileVars
  <2>1. Store!OpenHandles = Handles
    BY <1>3, OpenSeen DEF NoneFree, IsOpen, Store!OpenHandles, CarefulInv, TypeOK
  <2>2. storeHandles' = storeHandles
    BY <1>1, <1>3, HandlesAreSame DEF fileVars
  <2> QED BY <1>3, <2>1, <2>2 DEF Store!Grant
<1> QED BY <1>2, <1>3 DEF AddToOpenFileTable

\* tfs_open of a file that is there.
LEMMA OpenFoundIsOpen ==
  ASSUME CarefulInv, CarefulInv', NEW e \in DirSlots, NEW name, NEW mode,
         "TRUNC" \in mode => ~HasHandle(name), OpenFound(e, name, mode)
  PROVE  Store!OpenExisting(name, mode)
<1> DEFINE inum == dir_entry[e].d_inumber
<1>1. Used(e) /\ dir_entry[e].d_name = name /\ EntryMatches(e, name)
  BY DEF OpenFound, FindInDir, EntryMatches, Used
<1>2. name \in Names /\ inum \in Inumbers /\ Live(inum)
  BY <1>1, EntriesAreApart DEF EntriesApart
<1>3. dir_entry[e] = [d_name |-> name, d_inumber |-> inum]
  BY <1>1 DEF CarefulInv, TypeOK, DirEntry
<1>4. UNCHANGED <<dir_entry, fs_data, freeinode_ts>>
  BY DEF OpenFound
<1>5. Store!Exists(name) /\ ("TRUNC" \in mode => ~Store!HasOpen(name))
  BY <1>1, <1>2, OpenSeen DEF NotInDir
<1>6. \A i \in Inumbers \ {inum} : inode_table'[i] = inode_table[i]
  BY DEF OpenFound, Truncate, CarefulInv, TypeOK
<1>7. \A m \in Names \ {name} : storeFiles'[m] = storeFiles[m]
  <2> SUFFICES ASSUME NEW m \in Names \ {name} PROVE storeFiles'[m] = storeFiles[m]
    OBVIOUS
  <2>1. \A f \in DirSlots, i \in Inumbers :
          EntryMatches(f, m) /\ dir_entry[f].d_inumber = i => Contents(i)' = Contents(i)
    BY <1>1, <1>4, <1>6, EntriesAreApart, ContentsStay DEF EntriesApart, EntryMatches, Used
  <2> QED BY <1>4, <2>1, FileStays
<1>8. /\ inode_table[inum].i_size \in Nat
      /\ "TRUNC" \in mode => inode_table'[inum].i_size = 0
      /\ "TRUNC" \notin mode => inode_table' = inode_table
  <2>1. inode_table[inum] \in Inode /\ inode_table[inum].i_size \in Nat
    BY <1>2, SizesAssumption DEF CarefulInv, TypeOK, Inode
  <2>2. CASE "TRUNC" \in mode /\ inode_table[inum].i_size > 0
    <3>1. inode_table' = [inode_table EXCEPT ![inum].i_size = 0]
      BY <2>2 DEF OpenFound, Truncate
    <3> HIDE DEF inum
    <3> QED BY <1>2, <2>1, <2>2, <3>1 DEF CarefulInv, TypeOK, Inode
  <2>3. CASE ~("TRUNC" \in mode /\ inode_table[inum].i_size > 0)
    BY <2>1, <2>3 DEF OpenFound, Truncate
  <2> QED BY <2>1, <2>2, <2>3
<1>9. /\ storeFiles' = IF "TRUNC" \in mode THEN [storeFiles EXCEPT ![name] = <<>>] ELSE storeFiles
      /\ Len(storeFiles'[name]) = inode_table'[inum].i_size
      /\ inode_table'[inum].i_size \in Nat
  <2> SUFFICES ASSUME NEW i \in Inumbers, i = inum
               PROVE  /\ storeFiles' = IF "TRUNC" \in mode THEN [storeFiles EXCEPT ![name] = <<>>]
                                                          ELSE storeFiles
                      /\ Len(storeFiles'[name]) = inode_table'[inum].i_size
                      /\ inode_table'[inum].i_size \in Nat
    BY <1>2
  <2>1. EntryMatches(e, name)' /\ dir_entry'[e].d_inumber = i /\ freeinode_ts'[i] = "TAKEN"
    BY <1>1, <1>2, <1>4 DEF EntryMatches, Live
  <2>2. storeFiles'[name] = Contents(i)'
    BY <1>2, <2>1, ViewedNext DEF View, FilesView
  <2>3. Len(Contents(i)') = inode_table'[i].i_size /\ (inode_table'[i].i_size = 0 => Contents(i)' = <<>>)
    BY <2>1, ViewedNext DEF View, ContentsTyped, Live
  <2>4. CASE "TRUNC" \in mode
    <3>1. storeFiles'[name] = <<>>
      BY <1>8, <2>2, <2>3, <2>4
    <3> QED BY <1>2, <1>7, <1>8, <2>2, <2>3, <2>4, <3>1, FilesAre
  <2>5. CASE "TRUNC" \notin mode
    <3>1. Contents(i)' = Contents(i)
      BY <1>4, <1>8, <2>5, ContentsStay
    <3>2. storeFiles[name] = Contents(i)
      BY <1>1, <1>2, Viewed DEF View, FilesView
    <3>3. storeFiles' = storeFiles
      BY <1>2, <1>7, <2>2, <3>1, <3>2, FilesAreSame
    <3> QED BY <1>8, <2>2, <2>3, <2>5, <3>3
  <2> QED BY <2>4, <2>5
<1>10. Store!Grant(name, InitialOffset(inode_table'[inum].i_size, mode))
  <2>1. AddToOpenFileTable(inum, InitialOffset(inode_table'[inum].i_size, mode))
    BY DEF OpenFound
  <2>2. InitialOffset(inode_table'[inum].i_size, mode) \in Nat
    BY <1>9 DEF InitialOffset
  <2>3. dir_entry'[e] = [d_name |-> name, d_inumber |-> inum]
    BY <1>3, <1>4
  <2> HIDE DEF inum
  <2> QED BY <1>2, <1>4, <2>1, <2>2, <2>3, AddGrants
<1>11. Store!Grant(name, IF "APPEND" \in mode THEN Len(storeFiles'[name]) ELSE 0)
  BY <1>9, <1>10 DEF InitialOffset
<1> QED BY <1>5, <1>9, <1>11 DEF Store!OpenExisting, Store!Empty

\* tfs_open that creates: a new entry, a new inode and no contents.
LEMMA CreatedIsCreate ==
  ASSUME CarefulInv, CarefulInv', NEW name, NEW mode, NotInDir(name), "CREAT" \in mode,
         NEW inum \in Inumbers, InodeCreateFile(inum), AddDirEntry(name, inum),
         AddToOpenFileTable(inum, 0), UNCHANGED blockVars
  PROVE  Store!Create(name, mode)
<1>1. name \in Names /\ ~Live(inum)
  BY DEF AddDirEntry, InodeCreateFile, IsFirstFree, Live
<1>2. PICK e \in DirSlots :
        /\ dir_entry[e].d_inumber = -1
        /\ dir_entry' = [dir_entry EXCEPT ![e] = [d_name |-> name, d_inumber |-> inum]]
  BY DEF AddDirEntry
<1>3. /\ dir_entry'[e] = [d_name |-> name, d_inumber |-> inum]
      /\ \A f \in DirSlots \ {e} : dir_entry'[f] = dir_entry[f]
      /\ ~Used(e)
  BY <1>2 DEF CarefulInv, TypeOK, Used
<1>4. /\ inode_table'[inum] = NewFileInode
      /\ \A i \in Inumbers \ {inum} : inode_table'[i] = inode_table[i]
      /\ freeinode_ts'[inum] = "TAKEN"
  BY DEF InodeCreateFile, CarefulInv, TypeOK
<1>5. storeFiles'[name] = <<>>
  <2>1. inum # -1
    BY SizesAssumption DEF Inumbers
  <2>2. EntryMatches(e, name)' /\ dir_entry'[e].d_inumber = inum
    BY <1>3, <2>1 DEF EntryMatches
  <2>3. storeFiles'[name] = Contents(inum)'
    BY <1>1, <2>2, ViewedNext DEF View, FilesView
  <2>4. Contents(inum)' = <<>>
    BY <1>4, ViewedNext DEF View, ContentsTyped, Live, NewFileInode
  <2> QED BY <2>3, <2>4
<1>6. ASSUME NEW m \in Names \ {name} PROVE storeFiles'[m] = storeFiles[m]
  <2>1. \A f \in DirSlots, i \in Inumbers :
          EntryMatches(f, m) /\ dir_entry[f].d_inumber = i => Contents(i)' = Contents(i)
    BY <1>1, <1>4, EntriesAreApart, ContentsStay
    DEF EntriesApart, EntryMatches, Used, blockVars
  <2>2. ~EntryMatches(e, m) /\ ~EntryMatches(e, m)'
    BY <1>3 DEF EntryMatches, Used
  <2> QED BY <1>3, <2>1, <2>2, FileStays
<1>7. storeFiles' = [storeFiles EXCEPT ![name] = <<>>]
  BY <1>1, <1>5, <1>6, FilesAre
<1>8. Store!Grant(name, 0)
  BY <1>1, <1>3, AddGrants
<1>9. ~Store!Exists(name)
  BY OpenSeen
<1> QED BY <1>1, <1>7, <1>8, <1>9 DEF Store!Create, Store!Empty

\* tfs_open as a whole.
LEMMA OpenIsOpen ==
  ASSUME CarefulInv, CarefulInv', NEW name, NEW mode, CarefulOpen(name, mode),
         call' = <<"open", name, mode>>
  PROVE  Store!Open(name, mode)
<1>1. UNCHANGED phase /\ buf' = <<>>
  BY DEF CarefulOpen, TfsOpen, OpenFails, OpenFound, OpenCreates, FailCall
<1>2. CASE OpenFails(name, mode)
  <2>1. ~Store!Exists(name)
    BY <1>2, OpenSeen, NamesAssumption DEF OpenFails
  <2> QED BY <1>1, <1>2, <2>1, FailRefused DEF OpenFails, Store!Open, Store!Empty
<1>3. ASSUME NEW e \in DirSlots, OpenFound(e, name, mode)
      PROVE  Store!Open(name, mode)
  BY <1>1, <1>3, OpenFoundIsOpen DEF CarefulOpen, Store!Open, Store!Empty
<1>4. CASE OpenCreates(name, mode)
  <2>1. ~Store!Exists(name)
    BY <1>4, OpenSeen DEF OpenCreates
  <2>2. CASE FailCall
    BY <1>1, <2>1, <2>2, FailRefused DEF Store!Open, Store!Empty
  <2>3. ASSUME NEW inum \in Inumbers, IsFirstFree(freeinode_ts, inum),
               inode_table' = [inode_table EXCEPT ![inum] = NewFileInode], ret' = -1,
               UNCHANGED <<phase, freeinode_ts, dir_entry, blockVars, fileVars>>
        PROVE  Store!Open(name, mode)
    <3>1. \A i \in Inumbers : Live(i) => inode_table'[i] = inode_table[i]
      BY <2>3 DEF CarefulInv, TypeOK, IsFirstFree, Live
    <3>2. storeFiles' = storeFiles /\ storeHandles' = storeHandles
      BY <2>3, <3>1, NothingChanges DEF blockVars
    <3> QED BY <1>1, <2>1, <2>3, <3>2 DEF Store!Open, Store!Empty, Store!Refused
  <2>4. ASSUME NEW inum \in Inumbers, InodeCreateFile(inum), AddDirEntry(name, inum),
               AddToOpenFileTable(inum, 0), UNCHANGED <<phase, blockVars>>
        PROVE  Store!Open(name, mode)
    BY <1>1, <1>4, <2>4, CreatedIsCreate DEF OpenCreates, Store!Open, Store!Empty
  <2> QED BY <1>4, <2>2, <2>3, <2>4 DEF OpenCreates
<1> QED BY <1>2, <1>3, <1>4 DEF CarefulOpen, TfsOpen

\* tfs_close.
LEMMA CloseIsClose ==
  ASSUME CarefulInv, CarefulInv', NEW h, TfsClose(h), call' = <<"close", h>>
  PROVE  Store!Close(h)
<1>1. UNCHANGED phase /\ buf' = <<>>
  BY DEF TfsClose, CloseHandle, FailCall
<1>2. CASE CloseHandle(h)
  <2>1. h \in Handles /\ ~IsOpen(h)' /\ ret' = 0
    BY <1>2 DEF CloseHandle, IsOpen, CarefulInv, TypeOK
  <2>2. storeHandles'[h] = Closed
    BY <2>1, ViewedNext DEF View, HandlesView
  <2>3. ASSUME NEW g \in Handles \ {h} PROVE storeHandles'[g] = storeHandles[g]
    BY <1>2, <2>3, HandleStays DEF CloseHandle, CarefulInv, TypeOK
  <2>4. storeFiles' = storeFiles
    <3>1. ASSUME NEW name \in Names PROVE storeFiles'[name] = storeFiles[name]
      BY <1>2, FileStays, ContentsStay DEF CloseHandle, inodeVars, blockVars
    <3> QED BY <3>1, FilesAreSame
  <2>5. h \in Store!OpenHandles
    BY <1>2, OpenSeen DEF CloseHandle
  <2> QED BY <1>1, <2>1, <2>2, <2>3, <2>4, <2>5, HandlesAre DEF Store!Close, Store!Empty
<1>3. CASE ~IsOpen(h) /\ FailCall
  BY <1>1, <1>3, FailRefused, OpenSeen DEF Store!Close, Store!Empty
<1> QED BY <1>2, <1>3 DEF TfsClose

\* tfs_unlink of a file that nobody has open.
LEMMA UnlinkIsUnlink ==
  ASSUME CarefulInv, CarefulInv', NEW name, CarefulUnlink(name), call' = <<"unlink", name>>
  PROVE  Store!Unlink(name)
<1>1. UNCHANGED phase /\ buf' = <<>>
  BY DEF CarefulUnlink, TfsUnlink, UnlinkFound, FailCall
<1>2. CASE (name \in BadPaths \/ NotInDir(name)) /\ FailCall
  <2>1. ~Store!Exists(name)
    BY <1>2, OpenSeen, NamesAssumption
  <2> QED BY <1>1, <1>2, <2>1, FailRefused DEF Store!Unlink, Store!Empty
<1>3. ASSUME NEW e \in DirSlots, UnlinkFound(e, name)
      PROVE  Store!Unlink(name)
  <2>1. Used(e) /\ dir_entry[e].d_name = name /\ EntryMatches(e, name) /\ ~HasHandle(name)
    BY <1>3 DEF UnlinkFound, FindInDir, EntryMatches, Used, CarefulUnlink
  <2>2. name \in Names /\ dir_entry[e].d_inumber \in Inumbers
    BY <2>1, EntriesAreApart DEF EntriesApart
  <2>3. Store!Exists(name) /\ ~Store!HasOpen(name)
    BY <2>1, <2>2, OpenSeen DEF NotInDir
  <2>4. dir_entry' = [dir_entry EXCEPT ![e] = [d_name |-> NoName, d_inumber |-> -1]]
    <3>1. PICK f \in DirSlots :
            /\ dir_entry[f].d_name = name
            /\ dir_entry' = [dir_entry EXCEPT ![f] = [d_name |-> NoName, d_inumber |-> -1]]
      BY <1>3 DEF UnlinkFound, ClearDirEntry
    <3>2. Used(f)
      BY <2>2, <3>1, NamesAssumption DEF CarefulInv, TablesInv, NamesKept
    <3>3. f = e
      BY <2>1, <3>1, <3>2, EntriesAreApart DEF EntriesApart
    <3> QED BY <3>1, <3>3
  <2>5. /\ dir_entry'[e].d_inumber = -1
        /\ \A f \in DirSlots \ {e} : dir_entry'[f] = dir_entry[f]
    BY <2>4 DEF CarefulInv, TypeOK
  <2>6. storeFiles'[name] = NoFile
    <3>1. ASSUME NEW f \in DirSlots PROVE ~EntryMatches(f, name)'
      BY <2>1, <2>5, EntriesAreApart DEF EntriesApart, EntryMatches, Used
    <3> QED BY <2>2, <3>1, ViewedNext DEF View, FilesView, NotInDir
  <2>7. ASSUME NEW m \in Names \ {name} PROVE storeFiles'[m] = storeFiles[m]
    <3>1. \A f \in DirSlots, i \in Inumbers :
            EntryMatches(f, m) /\ dir_entry[f].d_inumber = i => Contents(i)' = Contents(i)
      BY <1>3, ContentsStay DEF UnlinkFound, InodeDelete
    <3>2. ~EntryMatches(e, m) /\ ~EntryMatches(e, m)'
      BY <2>1, <2>5 DEF EntryMatches
    <3> QED BY <2>5, <3>1, <3>2, FileStays
  <2>8. ASSUME NEW h \in Handles PROVE storeHandles'[h] = storeHandles[h]
    <3>1. IsOpen(h) => open_file_table[h].of_inumber # dir_entry[e].d_inumber
      BY <2>1 DEF HasHandle
    <3> QED BY <1>3, <2>5, <3>1, HandleStays DEF UnlinkFound, fileVars
  <2>9. storeFiles' = [storeFiles EXCEPT ![name] = NoFile] /\ storeHandles' = storeHandles
    BY <2>2, <2>6, <2>7, <2>8, FilesAre, HandlesAreSame
  <2> QED BY <1>1, <1>3, <2>3, <2>9 DEF UnlinkFound, Store!Unlink, Store!Empty
<1> QED BY <1>2, <1>3 DEF CarefulUnlink, TfsUnlink

\* The name, the file and the position of an open handle.
LEMMA HandleSeen ==
  ASSUME CarefulInv, NEW h, IsOpen(h)
  PROVE  \E e \in DirSlots, name \in Names, inum \in Inumbers :
           /\ dir_entry[e].d_inumber = inum /\ open_file_table[h].of_inumber = inum
           /\ EntryMatches(e, name) /\ Live(inum)
           /\ h \in Handles
           /\ storeHandles[h] = [name |-> name, pos |-> open_file_table[h].of_offset]
           /\ storeFiles[name] = Contents(inum)
           /\ Contents(inum) \in Seq(Bytes \cup {Garbage})
           /\ Len(Contents(inum)) = inode_table[inum].i_size
           /\ inode_table[inum] \in Inode
           /\ inode_table[inum].i_size \in 0 .. BLOCK_SIZE
           /\ open_file_table[h].of_offset \in 0 .. inode_table[inum].i_size
<1>1. PICK e \in DirSlots : Used(e) /\ dir_entry[e].d_inumber = open_file_table[h].of_inumber
  BY Viewed DEF View, HandlesView, IsOpen
<1> DEFINE name == dir_entry[e].d_name
           inum == dir_entry[e].d_inumber
<1>2. name \in Names /\ inum \in Inumbers /\ Live(inum) /\ EntryMatches(e, name) /\ h \in Handles
  BY <1>1, EntriesAreApart DEF EntriesApart, EntryMatches, Used, IsOpen
<1>3. storeHandles[h] = [name |-> name, pos |-> open_file_table[h].of_offset]
  BY <1>1, <1>2, Viewed DEF View, HandlesView
<1>4. storeFiles[name] = Contents(inum)
  BY <1>2, Viewed DEF View, FilesView
<1>5. Contents(inum) \in Seq(Bytes \cup {Garbage}) /\ Len(Contents(inum)) = inode_table[inum].i_size
  BY <1>2, Viewed DEF View, ContentsTyped
<1>6. inode_table[inum] \in Inode /\ inode_table[inum].i_size \in 0 .. BLOCK_SIZE
  BY <1>2 DEF CarefulInv, TypeOK, Inode
<1>7. open_file_table[h].of_offset \in 0 .. inode_table[inum].i_size
  <2>1. open_file_table[h].of_offset \in Nat
    BY <1>2 DEF CarefulInv, TypeOK, OpenFile
  <2>2. open_file_table[h].of_offset <= inode_table[inum].i_size
    BY <1>1, <1>2 DEF CarefulInv, HandlesLive
  <2> QED BY <1>6, <2>1, <2>2, SizesAssumption
<1> QED BY <1>1, <1>2, <1>3, <1>4, <1>5, <1>6, <1>7

\* What tfs_write can store is what is asked for, cut at the end of the block.
LEMMA ToWriteIsCut ==
  ASSUME NEW off \in 0 .. BLOCK_SIZE, NEW len \in Nat
  PROVE  ToWrite(off, len) = IF len <= BLOCK_SIZE - off THEN len ELSE BLOCK_SIZE - off
<1>1. CASE len + off > BLOCK_SIZE
  <2>1. SizeSub(BLOCK_SIZE, off) = BLOCK_SIZE - off
    BY SizeSubExact, SizesAssumption
  <2> QED BY <1>1, <2>1, SizesAssumption DEF ToWrite
<1>2. CASE ~(len + off > BLOCK_SIZE)
  BY <1>2, SizesAssumption DEF ToWrite
<1> QED BY <1>1, <1>2

\* Storing nothing leaves a file as it was.
LEMMA OverwriteNothing ==
  ASSUME NEW S, NEW old \in Seq(S), NEW pos \in 0 .. Len(old), NEW data
  PROVE  Store!Overwrite(old, pos, data, 0) = old
<1>1. Len(old) \in Nat
  OBVIOUS
<1>2. (IF pos + 0 > Len(old) THEN pos + 0 ELSE Len(old)) = Len(old)
  BY <1>1
<1>3. Store!Overwrite(old, pos, data, 0) = [k \in 1 .. Len(old) |-> old[k]]
  BY <1>1, <1>2 DEF Store!Overwrite
<1> QED BY <1>3

\* What tfs_write does to the block and the inode of its file.
Fills(blk, inum, off, n, data) ==
  /\ Memcpy(blk, off, data, n)
  /\ inode_table' = [inode_table EXCEPT ![inum].i_data_block = blk,
                       ![inum].i_size = GrownSize(inode_table[inum].i_size, off + n)]
  /\ inode_table[inum].i_size > 0 => blk = inode_table[inum].i_data_block
  /\ inode_table[inum].i_size = 0 => free_blocks[blk] = "FREE"

\* tfs_write fills the block of its file, or a free one if the file is empty.
LEMMA WriteFills ==
  ASSUME CarefulInv, NEW h, NEW data, WriteBytes(h, data),
         NEW inum \in Inumbers, inum = open_file_table[h].of_inumber, Live(inum),
         NEW off, off = open_file_table[h].of_offset,
         NEW n, n = ToWrite(off, Len(data))
  PROVE  \E blk \in Blocks : Fills(blk, inum, off, n, data)
<1> DEFINE i  == open_file_table[h].of_inumber
           o  == open_file_table[h].of_offset
           k  == ToWrite(o, Len(data))
<1>1. inode_table[i].i_size > 0 => inode_table[i].i_data_block \in Blocks
  BY DEF CarefulInv, TablesInv, BlocksExclusive
<1>2. PICK blk \in Blocks :
        /\ Memcpy(blk, o, data, k)
        /\ inode_table' = [inode_table EXCEPT ![i].i_data_block = blk,
                             ![i].i_size = GrownSize(inode_table[i].i_size, o + k)]
        /\ \/ inode_table[i].i_size > 0 /\ blk = inode_table[i].i_data_block
           \/ inode_table[i].i_size = 0 /\ IsFirstFree(free_blocks, blk)
  BY <1>1 DEF WriteBytes
<1> HIDE DEF i, o, k
<1>3. Fills(blk, i, o, k, data)
  BY <1>2 DEF IsFirstFree, Fills
<1>4. i = inum /\ o = off /\ k = n
  BY DEF i, o, k
<1> QED BY <1>3, <1>4

\* memcpy into the block of a file overwrites its contents and no other's.
LEMMA CopyOverwrites ==
  ASSUME CarefulInv, NEW data, NEW inum \in Inumbers, Live(inum), NEW off, NEW n,
         off \in 0 .. inode_table[inum].i_size, inode_table[inum].i_size \in 0 .. BLOCK_SIZE,
         n \in Nat, n > 0, off + n <= BLOCK_SIZE,
         NEW blk \in Blocks, Fills(blk, inum, off, n, data)
  PROVE  /\ Contents(inum)' = Store!Overwrite(Contents(inum), off, data, n)
         /\ \A i \in Inumbers \ {inum} : Live(i) => Contents(i)' = Contents(i)
<1> DEFINE size == inode_table[inum].i_size
           end  == GrownSize(size, off + n)
<1>1. /\ Memcpy(blk, off, data, n)
      /\ inode_table' = [inode_table EXCEPT ![inum].i_data_block = blk, ![inum].i_size = end]
      /\ size > 0 => blk = inode_table[inum].i_data_block
      /\ size = 0 => free_blocks[blk] = "FREE"
  BY DEF Fills
<1>2. /\ inode_table'[inum].i_data_block = blk
      /\ inode_table'[inum].i_size = end
      /\ \A i \in Inumbers \ {inum} : inode_table'[i] = inode_table[i]
  <2>1. inode_table[inum] \in Inode /\ inum \in DOMAIN inode_table
    BY DEF CarefulInv, TypeOK
  <2>2. \A i \in Inumbers \ {inum} : inode_table'[i] = inode_table[i]
    BY <1>1 DEF CarefulInv, TypeOK
  <2> HIDE DEF end
  <2> QED BY <1>1, <2>1, <2>2 DEF Inode
<1>3. /\ \A o \in Offsets : fs_data'[blk][o] =
                             IF off <= o /\ o < off + n THEN data[o - off + 1] ELSE fs_data[blk][o]
      /\ \A b \in Blocks \ {blk} : fs_data'[b] = fs_data[b]
  BY <1>1 DEF Memcpy, CarefulInv, TypeOK
<1>4. end = (IF off + n > Len(Contents(inum)) THEN off + n ELSE Len(Contents(inum)))
  <2>1. Len(Contents(inum)) = size
    BY Viewed DEF View, ContentsTyped
  <2> QED BY <2>1 DEF GrownSize
<1>5. Contents(inum)' = Store!Overwrite(Contents(inum), off, data, n)
  <2>1. Contents(inum)' = [k \in 1 .. end |-> fs_data'[blk][k - 1]]
    <3>1. inode_table'[inum].i_size = end /\ inode_table'[inum].i_data_block = blk
      BY <1>2
    <3> HIDE DEF end
    <3> QED BY <3>1 DEF Contents
  <2>2. Store!Overwrite(Contents(inum), off, data, n) =
          [k \in 1 .. end |-> IF off < k /\ k <= off + n THEN data[k - off] ELSE Contents(inum)[k]]
    BY <1>4 DEF Store!Overwrite
  <2>3. end \in 0 .. BLOCK_SIZE /\ end = (IF off + n > size THEN off + n ELSE size)
    BY SizesAssumption DEF GrownSize
  <2>4. ASSUME NEW k \in 1 .. end
        PROVE  fs_data'[blk][k - 1] =
                 IF off < k /\ k <= off + n THEN data[k - off] ELSE Contents(inum)[k]
    <3>1. k - 1 \in Offsets /\ (k - 1) - off + 1 = k - off
      BY <2>3, SizesAssumption DEF Offsets
    <3>2. fs_data'[blk][k - 1] =
            IF off <= k - 1 /\ k - 1 < off + n THEN data[k - off] ELSE fs_data[blk][k - 1]
      BY <1>3, <3>1
    <3>3. CASE off < k /\ k <= off + n
      BY <2>3, <3>2, <3>3, SizesAssumption
    <3>4. CASE ~(off < k /\ k <= off + n)
      <4>1. k \in 1 .. size /\ size > 0
        BY <2>3, <3>4, SizesAssumption
      <4>2. Contents(inum)[k] = fs_data[blk][k - 1]
        BY <1>1, <4>1 DEF Contents
      <4> QED BY <2>3, <3>2, <3>4, <4>2, SizesAssumption
    <3> QED BY <3>3, <3>4
  <2> HIDE DEF end
  <2> QED BY <2>1, <2>2, <2>4
<1>6. ASSUME NEW i \in Inumbers \ {inum}, Live(i)
      PROVE  Contents(i)' = Contents(i)
  <2>1. CASE inode_table[i].i_size = 0
    BY <1>2, <2>1, ContentsStay
  <2>2. CASE inode_table[i].i_size # 0
    <3>1. inode_table[i].i_size > 0
      BY <2>2, SizesAssumption DEF CarefulInv, TypeOK, Inode
    <3>2. inode_table[i].i_data_block \in Blocks /\ free_blocks[inode_table[i].i_data_block] = "TAKEN"
      BY <1>6, <3>1 DEF CarefulInv, TablesInv, BlocksExclusive
    <3>3. inode_table[i].i_data_block # blk
      <4>1. CASE size > 0
        BY <1>1, <1>6, <3>1, <4>1 DEF CarefulInv, TablesInv, BlocksExclusive, Owns
      <4>2. CASE size = 0
        BY <1>1, <3>2, <4>2
      <4> QED BY <4>1, <4>2, SizesAssumption
    <3> QED BY <1>2, <1>3, <3>2, <3>3, ContentsStay
  <2> QED BY <2>1, <2>2
<1> QED BY <1>5, <1>6

\* Moving an offset moves the position of the store's handle and no other.
LEMMA OffsetShows ==
  ASSUME CarefulInv, CarefulInv', NEW h \in Handles, IsOpen(h), NEW name, NEW pos, NEW q,
         storeHandles[h] = [name |-> name, pos |-> q],
         open_file_table' = [open_file_table EXCEPT ![h].of_offset = pos],
         UNCHANGED <<dir_entry, free_open_file_entries>>
  PROVE  storeHandles' = [storeHandles EXCEPT ![h] = [name |-> name, pos |-> pos]]
<1>1. ASSUME NEW g \in Handles \ {h} PROVE storeHandles'[g] = storeHandles[g]
  BY HandleStays DEF CarefulInv, TypeOK
<1>2. open_file_table'[h].of_inumber = open_file_table[h].of_inumber
        /\ open_file_table'[h].of_offset = pos
  <2>1. open_file_table[h] \in OpenFile /\ h \in DOMAIN open_file_table
    BY DEF CarefulInv, TypeOK
  <2> QED BY <2>1 DEF OpenFile
<1>3. PICK e \in DirSlots : dir_entry[e].d_inumber = open_file_table[h].of_inumber
  BY Viewed DEF View, HandlesView
<1>4. storeHandles[h] = [name |-> dir_entry[e].d_name, pos |-> open_file_table[h].of_offset]
  BY <1>3, Viewed DEF View, HandlesView
<1>5. dir_entry[e].d_name = name
  BY <1>4
<1>6. storeHandles'[h] = [name |-> dir_entry'[e].d_name, pos |-> open_file_table'[h].of_offset]
  BY <1>2, <1>3, ViewedNext DEF View, HandlesView, IsOpen
<1> QED BY <1>1, <1>2, <1>5, <1>6, HandlesAre

\* tfs_write through a handle that stays within its file.
LEMMA WriteIsWrite ==
  ASSUME CarefulInv, CarefulInv', NEW h, NEW data \in Buffers, TfsWrite(h, data),
         call' = <<"write", h, data>>
  PROVE  Store!Write(h, data)
<1>1. CASE ~IsOpen(h) /\ FailCall
  <2>1. UNCHANGED phase /\ buf' = <<>>
    BY <1>1 DEF TfsWrite, FailCall
  <2> QED BY <1>1, <2>1, FailRefused, OpenSeen DEF Store!Write, Store!Empty
<1>2. CASE IsOpen(h)
  <2> DEFINE off == open_file_table[h].of_offset
             n   == ToWrite(off, Len(data))
  <2>1. PICK e \in DirSlots, name \in Names, inum \in Inumbers :
           /\ dir_entry[e].d_inumber = inum /\ open_file_table[h].of_inumber = inum
           /\ EntryMatches(e, name) /\ Live(inum)
           /\ h \in Handles
           /\ storeHandles[h] = [name |-> name, pos |-> off]
           /\ storeFiles[name] = Contents(inum)
           /\ Contents(inum) \in Seq(Bytes \cup {Garbage})
           /\ Len(Contents(inum)) = inode_table[inum].i_size
           /\ inode_table[inum].i_size \in 0 .. BLOCK_SIZE
           /\ off \in 0 .. inode_table[inum].i_size
    BY <1>2, HandleSeen
  <2>2. off \in 0 .. BLOCK_SIZE /\ Len(data) \in Nat
    BY <2>1, SizesAssumption, ClientsAssumption
  <2>3. /\ n = IF Len(data) <= BLOCK_SIZE - off THEN Len(data) ELSE BLOCK_SIZE - off
        /\ n \in Nat /\ off + n <= BLOCK_SIZE
    BY <2>2, ToWriteIsCut, ToWriteFits
  <2>4. h \in Store!OpenHandles
    BY <1>2, OpenSeen
  <2>5. ASSUME UNCHANGED phase, buf' = <<>>,
               \/ /\ storeFiles' = [storeFiles EXCEPT ![name] =
                                      Store!Overwrite(storeFiles[name], off, data, n)]
                  /\ storeHandles' = [storeHandles EXCEPT ![h] = [name |-> name, pos |-> off + n]]
                  /\ ret' = n
               \/ n > 0 /\ storeFiles[name] = <<>> /\ Store!Refused
        PROVE  Store!Write(h, data)
    <3>1. storeHandles[h].name = name /\ storeHandles[h].pos = off
      BY <2>1
    <3>2. [storeHandles EXCEPT ![h].pos = off + n] =
            [storeHandles EXCEPT ![h] = [name |-> name, pos |-> off + n]]
      <4> HIDE DEF n, off
      <4>1. [storeHandles[h] EXCEPT !.pos = off + n] = [name |-> name, pos |-> off + n]
        BY <2>1
      <4> QED BY <4>1
    <3>3. n = IF Len(data) <= BLOCK_SIZE - storeHandles[h].pos THEN Len(data)
                                                           ELSE BLOCK_SIZE - storeHandles[h].pos
      BY <2>3, <3>1
    <3> HIDE DEF n, off
    <3> QED BY <2>4, <2>5, <3>1, <3>2, <3>3 DEF Store!Write, Store!Empty
  <2>6. CASE WriteBytes(h, data)
    <3>1. n > 0
      BY <2>6 DEF WriteBytes
    <3>2. /\ Contents(inum)' = Store!Overwrite(Contents(inum), off, data, n)
          /\ \A i \in Inumbers \ {inum} : Live(i) => Contents(i)' = Contents(i)
      <4>1. PICK blk \in Blocks : Fills(blk, inum, off, n, data)
        <5>1. /\ inum = open_file_table[h].of_inumber /\ Live(inum)
              /\ off = open_file_table[h].of_offset /\ n = ToWrite(off, Len(data))
          BY <2>1
        <5> HIDE DEF n, off
        <5> QED BY <2>6, <5>1, WriteFills
      <4>2. /\ off \in 0 .. inode_table[inum].i_size
            /\ inode_table[inum].i_size \in 0 .. BLOCK_SIZE /\ Live(inum)
        BY <2>1
      <4>3. n \in Nat /\ n > 0 /\ off + n <= BLOCK_SIZE
        BY <2>3, <3>1
      <4> HIDE DEF n, off
      <4> QED BY <4>1, <4>2, <4>3, CopyOverwrites
    <3>3. UNCHANGED dir_entry
      BY <2>6 DEF WriteBytes
    <3>4. storeFiles'[name] = Contents(inum)'
      <4>1. EntryMatches(e, name)' /\ dir_entry'[e].d_inumber = inum
        BY <2>1, <3>3 DEF EntryMatches
      <4> QED BY <2>1, <4>1, ViewedNext DEF View, FilesView
    <3>5. ASSUME NEW m \in Names \ {name} PROVE storeFiles'[m] = storeFiles[m]
      <4>1. \A f \in DirSlots, i \in Inumbers :
              EntryMatches(f, m) /\ dir_entry[f].d_inumber = i => Contents(i)' = Contents(i)
        BY <2>1, <3>2, EntriesAreApart DEF EntriesApart, EntryMatches, Used
      <4> QED BY <3>3, <4>1, FileStays
    <3>6. storeFiles' = [storeFiles EXCEPT ![name] =
                           Store!Overwrite(storeFiles[name], off, data, n)]
      BY <2>1, <3>2, <3>4, <3>5, FilesAre
    <3>7. /\ open_file_table' = [open_file_table EXCEPT ![h].of_offset = off + n]
          /\ UNCHANGED <<phase, free_open_file_entries>> /\ ret' = n
      BY <2>6 DEF WriteBytes
    <3>8. storeHandles' = [storeHandles EXCEPT ![h] = [name |-> name, pos |-> off + n]]
      <4>1. h \in Handles /\ storeHandles[h] = [name |-> name, pos |-> off]
        BY <2>1
      <4>2. UNCHANGED <<dir_entry, free_open_file_entries>>
        BY <3>3, <3>7
      <4>3. open_file_table' = [open_file_table EXCEPT ![h].of_offset = off + n]
        BY <3>7
      <4> HIDE DEF n, off
      <4> QED BY <1>2, <4>1, <4>2, <4>3, OffsetShows
    <3>9. buf' = <<>>
      BY DEF TfsWrite
    <3> QED BY <2>5, <3>6, <3>7, <3>8, <3>9
  <2>7. CASE WriteNoSpace(h, data)
    <3>1. n > 0 /\ inode_table[inum].i_size = 0 /\ FailCall
      BY <2>1, <2>7 DEF WriteNoSpace
    <3>2. storeFiles[name] = <<>>
      BY <2>1, <3>1
    <3>3. UNCHANGED phase /\ buf' = <<>>
      BY <3>1 DEF FailCall, TfsWrite
    <3> QED BY <2>5, <3>1, <3>2, <3>3, FailRefused
  <2>8. CASE WriteNothing(h, data)
    <3>1. n = 0 /\ ret' = 0 /\ UNCHANGED <<phase, inodeVars, dir_entry, blockVars, fileVars>>
      BY <2>8 DEF WriteNothing
    <3>2. storeFiles' = storeFiles /\ storeHandles' = storeHandles
      BY <3>1, NothingChanges DEF inodeVars, blockVars
    <3>3. Store!Overwrite(storeFiles[name], off, data, 0) = storeFiles[name]
      BY <2>1, OverwriteNothing
    <3>4. storeFiles = [storeFiles EXCEPT ![name] = storeFiles[name]]
      BY <2>1 DEF storeFiles
    <3>5. storeHandles = [storeHandles EXCEPT ![h] = [name |-> name, pos |-> off + 0]]
      <4>1. off + 0 = off
        BY <2>2, SizesAssumption
      <4>2. storeHandles = [storeHandles EXCEPT ![h] = storeHandles[h]]
        BY <2>1 DEF storeHandles
      <4> QED BY <2>1, <4>1, <4>2
    <3>6. buf' = <<>> /\ UNCHANGED phase
      BY <3>1 DEF TfsWrite
    <3> HIDE DEF n, off
    <3> QED BY <2>5, <3>1, <3>2, <3>3, <3>4, <3>5, <3>6
  <2>9. CASE WriteDies(h, data)
    BY <2>2, <2>9, SizesAssumption DEF WriteDies
  <2> QED BY <1>2, <2>6, <2>7, <2>8, <2>9 DEF TfsWrite
<1> QED BY <1>1, <1>2 DEF TfsWrite

\* What tfs_read can return is what is asked for, cut at the end of the file.
LEMMA ToReadIsCut ==
  ASSUME CarefulInv, NEW h, NEW len \in Nat, NEW inum \in Inumbers,
         open_file_table[h].of_inumber = inum,
         NEW off, off = open_file_table[h].of_offset,
         NEW size, size = inode_table[inum].i_size,
         size \in 0 .. BLOCK_SIZE, off \in 0 .. size
  PROVE  /\ ToRead(h, len) = IF len <= size - off THEN len ELSE size - off
         /\ ToRead(h, len) \in Nat
         /\ off + ToRead(h, len) <= size
<1>1. SizeSub(size, off) = size - off
  BY SizeSubExact
<1>2. ToRead(h, len) = AtMost(len, SizeSub(size, off))
  BY DEF ToRead
<1> QED BY <1>1, <1>2, SizesAssumption DEF AtMost

\* tfs_read through a handle that stays within its file.
LEMMA ReadIsRead ==
  ASSUME CarefulInv, CarefulInv', NEW h, NEW len \in ReadLens, TfsRead(h, len),
         call' = <<"read", h, len>>
  PROVE  Store!Read(h, len)
<1>1. CASE ~IsOpen(h) /\ FailCall /\ buf' = <<>>
  <2>1. UNCHANGED phase
    BY <1>1 DEF FailCall
  <2> QED BY <1>1, <2>1, FailRefused, OpenSeen DEF Store!Read, Store!Empty
<1>2. CASE IsOpen(h) /\ ReadBytes(h, len)
  <2> DEFINE off == open_file_table[h].of_offset
             n   == ToRead(h, len)
  <2>1. PICK e \in DirSlots, name \in Names, inum \in Inumbers :
           /\ dir_entry[e].d_inumber = inum /\ open_file_table[h].of_inumber = inum
           /\ EntryMatches(e, name) /\ Live(inum)
           /\ h \in Handles
           /\ storeHandles[h] = [name |-> name, pos |-> off]
           /\ storeFiles[name] = Contents(inum)
           /\ Contents(inum) \in Seq(Bytes \cup {Garbage})
           /\ Len(Contents(inum)) = inode_table[inum].i_size
           /\ inode_table[inum].i_size \in 0 .. BLOCK_SIZE
           /\ off \in 0 .. inode_table[inum].i_size
    BY <1>2, HandleSeen
  <2> DEFINE size == inode_table[inum].i_size
             blk  == inode_table[inum].i_data_block
  <2>2. /\ n = IF len <= size - off THEN len ELSE size - off
        /\ n \in Nat /\ off + n <= size
    <3>1. /\ open_file_table[h].of_inumber = inum
          /\ size \in 0 .. BLOCK_SIZE /\ off \in 0 .. size /\ len \in Nat
      BY <2>1, ClientsAssumption
    <3> QED BY <3>1, ToReadIsCut
  <2>3. /\ buf' = [k \in 1 .. n |-> ByteAt(blk, off + k - 1)]
        /\ open_file_table' = [open_file_table EXCEPT ![h].of_offset = off + n]
        /\ ret' = n
        /\ UNCHANGED <<phase, inodeVars, dir_entry, blockVars, free_open_file_entries>>
    BY <1>2, <2>1 DEF ReadBytes
  <2>4. buf' = SubSeq(Contents(inum), off + 1, off + n)
    <3>1. off \in Nat /\ n \in Nat /\ size \in Nat /\ off + n <= size /\ size <= BLOCK_SIZE
      BY <2>1, <2>2, SizesAssumption
    <3>2. ASSUME NEW k \in 1 .. n
          PROVE  ByteAt(blk, off + k - 1) = Contents(inum)[off + k]
      <4>1. /\ off + k - 1 \in Nat /\ off + k - 1 < BLOCK_SIZE
            /\ off + k \in 1 .. size /\ size > 0
        <5> HIDE DEF off, n, size
        <5> QED BY <3>1, SizesAssumption
      <4>2. blk \in Blocks
        BY <2>1, <4>1 DEF CarefulInv, TablesInv, BlocksExclusive
      <4>3. (off + k - 1) \div BLOCK_SIZE = 0 /\ (off + k - 1) % BLOCK_SIZE = off + k - 1
        BY <4>1, SizesAssumption
      <4>4. ByteAt(blk, off + k - 1) = fs_data[blk][off + k - 1]
        <5>1. blk + 0 = blk
          BY <4>2 DEF Blocks
        <5> HIDE DEF off, blk
        <5> QED BY <4>2, <4>3, <5>1 DEF ByteAt
      <4>5. Contents(inum)[off + k] = fs_data[blk][(off + k) - 1]
        <5>1. Contents(inum) = [j \in 1 .. size |-> fs_data[blk][j - 1]]
          BY DEF Contents
        <5>2. \A j \in 1 .. size : Contents(inum)[j] = fs_data[blk][j - 1]
          <6> HIDE DEF size, blk
          <6> QED BY <5>1
        <5> DEFINE j == off + k
        <5>3. j \in 1 .. size
          BY <4>1
        <5> HIDE DEF j, size, blk
        <5>4. Contents(inum)[j] = fs_data[blk][j - 1]
          BY <5>2, <5>3
        <5> QED BY <5>4 DEF j
      <4>6. (off + k) - 1 = off + k - 1
        <5> HIDE DEF off, n
        <5> QED BY <3>1
      <4> HIDE DEF off, blk
      <4> QED BY <4>4, <4>5, <4>6
    <3>3. SubSeq(Contents(inum), off + 1, off + n) =
            [k \in 1 .. n |-> Contents(inum)[off + k]]
      <4>1. Contents(inum) \in Seq(Bytes \cup {Garbage}) /\ Len(Contents(inum)) = size
        BY <2>1
      <4> HIDE DEF off, n, size
      <4>2. (off + n) - (off + 1) + 1 = n /\ off + 1 \in Int /\ off + n \in Int
        BY <3>1
      <4>3. SubSeq(Contents(inum), off + 1, off + n) =
              [k \in 1 .. n |-> Contents(inum)[k + (off + 1) - 1]]
        BY <4>1, <4>2, <3>1
      <4>4. \A k \in 1 .. n : k + (off + 1) - 1 = off + k
        BY <3>1
      <4> QED BY <4>3, <4>4
    <3> HIDE DEF off, n, blk
    <3> QED BY <2>3, <3>2, <3>3
  <2>5. storeFiles' = storeFiles
    <3>1. ASSUME NEW m \in Names PROVE storeFiles'[m] = storeFiles[m]
      BY <2>3, FileStays, ContentsStay DEF inodeVars, blockVars
    <3> QED BY <3>1, FilesAreSame
  <2>6. storeHandles' = [storeHandles EXCEPT ![h] = [name |-> name, pos |-> off + n]]
    <3>1. h \in Handles /\ storeHandles[h] = [name |-> name, pos |-> off]
      BY <2>1
    <3> HIDE DEF n, off
    <3> QED BY <1>2, <2>3, <3>1, OffsetShows
  <2>7. h \in Store!OpenHandles
    BY <1>2, OpenSeen
  <2>8. storeHandles[h].name = name /\ storeHandles[h].pos = off
          /\ storeFiles[name] = Contents(inum) /\ Len(Contents(inum)) = size
    BY <2>1
  <2>9. [storeHandles EXCEPT ![h].pos = off + n] =
          [storeHandles EXCEPT ![h] = [name |-> name, pos |-> off + n]]
    <3>1. storeHandles[h] = [name |-> name, pos |-> off]
      BY <2>1
    <3> HIDE DEF n, off
    <3>2. [storeHandles[h] EXCEPT !.pos = off + n] = [name |-> name, pos |-> off + n]
      BY <3>1
    <3> QED BY <3>2
  <2>10. ret' = n /\ UNCHANGED phase
    BY <2>3
  <2> HIDE DEF n, off, size
  <2> QED BY <2>2, <2>4, <2>5, <2>6, <2>7, <2>8, <2>9, <2>10 DEF Store!Read
<1>3. CASE ReadDies(h, len)
  BY <1>3 DEF ReadDies, CarefulInv, NeverPanics
<1> QED BY <1>1, <1>2, <1>3 DEF TfsRead

\* A fresh file system is an empty store.
LEMMA FreshIsEmpty ==
  ASSUME CarefulInv, dir_entry = FreshDirectory, free_open_file_entries = AllFree(Handles)
  PROVE  /\ storeFiles = [name \in Names |-> NoFile]
         /\ storeHandles = [h \in Handles |-> Closed]
<1>1. ASSUME NEW name \in Names PROVE NotInDir(name)
  BY DEF NotInDir, EntryMatches, FreshDirectory
<1>2. storeFiles = [name \in Names |-> NoFile]
  BY <1>1 DEF storeFiles
<1>3. storeHandles = [h \in Handles |-> Closed]
  BY DEF storeHandles, AllFree
<1> QED BY <1>2, <1>3

\* tfs_init mounts an empty store.
LEMMA InitIsMount ==
  ASSUME CarefulInv, CarefulInv', TfsInit, call' = <<"init">>
  PROVE  Store!Mount
<1>1. /\ storeFiles' = [name \in Names |-> NoFile]
      /\ storeHandles' = [h \in Handles |-> Closed]
  <2>1. ASSUME NEW name \in Names PROVE NotInDir(name)'
    BY DEF TfsInit, NotInDir, EntryMatches, FreshDirectory
  <2>2. storeFiles' = [name \in Names |-> NoFile]
    BY <2>1 DEF storeFiles
  <2>3. storeHandles' = [h \in Handles |-> Closed]
    BY DEF TfsInit, storeHandles, AllFree
  <2> QED BY <2>2, <2>3
<1> QED BY <1>1 DEF TfsInit, Store!Mount, Store!Empty

\* tfs_destroy unmounts it and leaves the tables in memory.
LEMMA DestroyIsUnmount ==
  ASSUME CarefulInv, CarefulInv', TfsDestroy, call' = <<"destroy">>
  PROVE  Store!Unmount
<1>1. storeFiles' = storeFiles /\ storeHandles' = storeHandles
  BY NothingChanges DEF TfsDestroy, inodeVars, blockVars
<1> QED BY <1>1 DEF TfsDestroy, Store!Unmount, Store!Empty

(***************************************************************************)
(* The refinement.                                                         *)
(***************************************************************************)

\* A recorded call is a careful call.
LEMMA RecordedIsCareful == [RecordedNext]_<<vars, call>> => [CarefulNext]_vars
  BY DEF RecordedNext, CarefulNext, CallClose, CallWrite, CallRead

\* Recording the calls changes nothing of what careful callers keep true.
LEMMA RecordedInvariant == RecordedSpec => []CarefulInv
<1>1. RecordedInit => CarefulInv
  BY InitCareful, InitTyped, InitTables DEF RecordedInit, CarefulInv
<1>2. CarefulInv /\ [RecordedNext]_<<vars, call>> => CarefulInv'
  BY RecordedIsCareful, NextCareful
<1> QED BY <1>1, <1>2, PTL DEF RecordedSpec

\* The initial state of the library is that of the store.
LEMMA InitIsStoreInit == RecordedInit => Store!Init
<1> SUFFICES ASSUME RecordedInit PROVE Store!Init
  OBVIOUS
<1>1. CarefulInv
  BY InitCareful, InitTyped, InitTables DEF RecordedInit, CarefulInv
<1> QED BY <1>1, FreshIsEmpty DEF RecordedInit, Init, Store!Init, Store!Empty

\* Every step of the library is the same step of the store, or none.
LEMMA StepIsStoreStep ==
  CarefulInv /\ CarefulInv' /\ [RecordedNext]_<<vars, call>> => [Store!Next]_Store!storeVars
<1> SUFFICES ASSUME CarefulInv, CarefulInv', [RecordedNext]_<<vars, call>>
             PROVE  [Store!Next]_Store!storeVars
  OBVIOUS
<1>1. ASSUME NEW name \in Paths, NEW mode \in Modes,
             call' = <<"open", name, mode>>, CarefulOpen(name, mode)
      PROVE  Store!Next
  BY <1>1, OpenIsOpen DEF Store!Next, Paths, CarefulOpen, TfsOpen
<1>2. ASSUME NEW h \in HandleArgs, call' = <<"close", h>>, TfsClose(h)
      PROVE  Store!Next
  BY <1>2, CloseIsClose DEF Store!Next, HandleArgs, TfsClose
<1>3. ASSUME NEW h \in HandleArgs, NEW data \in Buffers,
             call' = <<"write", h, data>>, TfsWrite(h, data)
      PROVE  Store!Next
  BY <1>3, WriteIsWrite DEF Store!Next, HandleArgs, TfsWrite
<1>4. ASSUME NEW h \in HandleArgs, NEW len \in ReadLens,
             call' = <<"read", h, len>>, ReadNear(h, len)
      PROVE  Store!Next
  BY <1>4, ReadIsRead DEF Store!Next, HandleArgs, ReadNear, TfsRead
<1>5. ASSUME NEW name \in Paths, call' = <<"unlink", name>>, CarefulUnlink(name)
      PROVE  Store!Next
  BY <1>5, UnlinkIsUnlink DEF Store!Next, Paths, CarefulUnlink, TfsUnlink
<1>6. CASE call' = <<"init">> /\ TfsInit
  BY <1>6, InitIsMount DEF Store!Next
<1>7. CASE call' = <<"destroy">> /\ TfsDestroy
  BY <1>7, DestroyIsUnmount DEF Store!Next
<1>8. CASE UNCHANGED <<vars, call>>
  <2>1. storeFiles' = storeFiles /\ storeHandles' = storeHandles
    BY <1>8, NothingChanges DEF vars, inodeVars, blockVars
  <2> QED BY <1>8, <2>1 DEF vars, Store!storeVars
<1> QED BY <1>1, <1>2, <1>3, <1>4, <1>5, <1>6, <1>7, <1>8 DEF RecordedNext

\* To careful callers the library is a FileStore: each call does to the named
\* byte sequences what the store says it does, whatever inodes, blocks,
\* directory entries and handles it moves to do so.
THEOREM LibraryIsFileStore == RecordedSpec => ImplementsFileStore
<1>1. RecordedInit => Store!Init
  BY InitIsStoreInit
<1>2. CarefulInv /\ CarefulInv' /\ [RecordedNext]_<<vars, call>> =>
        [Store!Next]_Store!storeVars
  BY StepIsStoreStep
<1> QED BY <1>1, <1>2, RecordedInvariant, PTL DEF RecordedSpec, ImplementsFileStore, Store!Spec

=============================================================================
