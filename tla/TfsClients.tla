---------------------------- MODULE TfsClients ----------------------------
(***************************************************************************)
(* The library of exercise2/fs driven by its callers, one tfs_* call at a  *)
(* time.  Next lets them make any call the header allows.  CarefulNext     *)
(* leaves out the calls that pull a file from under an open handle:        *)
(* tfs_unlink, and tfs_open with TFS_O_TRUNC, of a file that is open.      *)
(***************************************************************************)
EXTENDS TecnicoFS

CONSTANTS
  Buffers,       \* what clients pass to tfs_write
  ReadLens,      \* buffer lengths they pass to tfs_read
  MAX_OFFSET     \* no tfs_read starts past this offset (a bound for TLC)

ASSUME ClientsAssumption ==
  /\ \A data \in Buffers : data \in Seq(Bytes)
  /\ ReadLens \subseteq Nat
  /\ MAX_OFFSET \in Nat

HandleArgs == Handles \cup {-1}

ReadNear(h, len) ==
  (IsOpen(h) => open_file_table[h].of_offset <= MAX_OFFSET) /\ TfsRead(h, len)

CallOpen  == \E name \in Paths, mode \in Modes : TfsOpen(name, mode)
CallClose == \E h \in HandleArgs : TfsClose(h)
CallWrite == \E h \in HandleArgs, data \in Buffers : TfsWrite(h, data)
CallRead  == \E h \in HandleArgs, len \in ReadLens : ReadNear(h, len)
CallUnlink == \E name \in Paths : TfsUnlink(name)

Next ==
  \/ CallOpen \/ CallClose \/ CallWrite \/ CallRead \/ CallUnlink
  \/ TfsInit \/ TfsDestroy

Spec == Init /\ [][Next]_vars

-----------------------------------------------------------------------------
(* Callers that leave open files alone.                                    *)

HasHandle(name) ==
  \E e \in DirSlots, h \in Handles :
    /\ EntryMatches(e, name)
    /\ IsOpen(h)
    /\ open_file_table[h].of_inumber = dir_entry[e].d_inumber

CarefulOpen(name, mode) == ("TRUNC" \in mode => ~HasHandle(name)) /\ TfsOpen(name, mode)
CarefulUnlink(name)     == ~HasHandle(name) /\ TfsUnlink(name)

CarefulNext ==
  \/ \E name \in Paths, mode \in Modes : CarefulOpen(name, mode)
  \/ CallClose \/ CallWrite \/ CallRead
  \/ \E name \in Paths : CarefulUnlink(name)
  \/ TfsInit \/ TfsDestroy

CarefulSpec == Init /\ [][CarefulNext]_vars

-----------------------------------------------------------------------------
(* Properties that need careful callers.                                   *)

\* An open handle refers to a live file and its offset is within the file,
\* as the assertions "inode of open file deleted" in tfs_read and tfs_write
\* take for granted.
HandlesLive ==
  \A h \in Handles : IsOpen(h) =>
    LET entry == open_file_table[h]
    IN  /\ entry.of_inumber # ROOT_DIR_INUM
        /\ Live(entry.of_inumber)
        /\ entry.of_offset <= inode_table[entry.of_inumber].i_size

\* No block is lost: each allocated block is the block of a live inode, so
\* unlinking every file gives all of them back (inode_delete, data_block_free).
NoLostBlock ==
  \A b \in Blocks : free_blocks[b] = "TAKEN" => \E i \in Inumbers : Owns(i, b)

\* tfs_read never moves a handle past the end of its file: it returns fewer
\* bytes than asked for when the end is reached.
ReadsStopAtEnd ==
  [][\A h \in Handles :
       LET old == open_file_table[h]
           new == open_file_table'[h]
       IN  IsOpen(h) /\ IsOpen(h)' /\ new.of_offset > old.of_offset =>
             new.of_offset <= inode_table'[old.of_inumber].i_size]_vars

\* The process never dies in one of the library's assertions or in memcpy.
NeverPanics == phase # "panic"

=============================================================================
