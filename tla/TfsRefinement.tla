--------------------------- MODULE TfsRefinement ---------------------------
(***************************************************************************)
(* The library with careful callers implements FileStore.  The contents of *)
(* a name are the first i_size bytes of the block its inode owns; a handle *)
(* stands for the name whose entry holds its inumber.  call records what   *)
(* was asked for, so that a call can only stand for the same call of the   *)
(* store: without it an open for appending could pass for a plain one.     *)
(***************************************************************************)
EXTENDS TfsClients

CONSTANTS NoFile, Closed

ASSUME MarkersAssumption ==
  /\ NoFile \notin Seq(Bytes \cup {Garbage})
  /\ Closed \notin [name : Names, pos : Nat]

VARIABLE call

RecordedInit == Init /\ call = <<"init">>

RecordedNext ==
  \/ \E name \in Paths, mode \in Modes :
       call' = <<"open", name, mode>> /\ CarefulOpen(name, mode)
  \/ \E h \in HandleArgs : call' = <<"close", h>> /\ TfsClose(h)
  \/ \E h \in HandleArgs, data \in Buffers : call' = <<"write", h, data>> /\ TfsWrite(h, data)
  \/ \E h \in HandleArgs, len \in ReadLens : call' = <<"read", h, len>> /\ ReadNear(h, len)
  \/ \E name \in Paths : call' = <<"unlink", name>> /\ CarefulUnlink(name)
  \/ call' = <<"init">> /\ TfsInit
  \/ call' = <<"destroy">> /\ TfsDestroy

\* CarefulSpec with its calls recorded.
RecordedSpec == RecordedInit /\ [][RecordedNext]_<<vars, call>>

InodeOfName(name) == dir_entry[CHOOSE e \in DirSlots : EntryMatches(e, name)].d_inumber
NameOfInode(i)    == dir_entry[CHOOSE e \in DirSlots : dir_entry[e].d_inumber = i].d_name

Contents(i) ==
  [k \in 1 .. inode_table[i].i_size |-> fs_data[inode_table[i].i_data_block][k - 1]]

storeFiles ==
  [name \in Names |-> IF NotInDir(name) THEN NoFile ELSE Contents(InodeOfName(name))]

storeHandles ==
  [h \in Handles |->
     IF free_open_file_entries[h] = "FREE" THEN Closed
     ELSE [name |-> NameOfInode(open_file_table[h].of_inumber),
           pos  |-> open_file_table[h].of_offset]]

Store == INSTANCE FileStore
           WITH BadNames <- LongNames \cup BadPaths, MaxFileSize <- BLOCK_SIZE,
                mounted <- (phase = "up"), files <- storeFiles, handles <- storeHandles

\* The library is a FileStore to careful callers: a read returns exactly the
\* bytes the last writes to that name left there, no write to one file shows
\* in another, and only a create or a first write fails for lack of space.
ImplementsFileStore == Store!Spec

=============================================================================
