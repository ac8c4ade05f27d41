--------------------------- MODULE MCTfsThreads ---------------------------
(* Two threads of exercise1's library, each with its own two names.        *)
EXTENDS TfsThreads, TLC

CONSTANTS t1, t2, f1, f2, l1, l2

MCThreads == {t1, t2}
MCNames   == {f1, f2, l1, l2}
MCFile    == (t1 :> f1) @@ (t2 :> f2)
MCLink    == (t1 :> l1) @@ (t2 :> l2)
MCModes   == {{"CREAT"}, {"TRUNC"}}

MCExisting == <<t1>>

\* In tests/pthread2.c all threads use the same three names.
MCSharedFile == (t1 :> f1) @@ (t2 :> f1)
MCSharedLink == (t1 :> l1) @@ (t2 :> l1)
MCNone == <<>>

\* What decides the future: neither what closed handles and free inodes hold,
\* nor what was read.
ThreadsView ==
  <<freeinode_ts, locks, dir_entry, blockVars, free_open_file_entries, died, pc, loc, calls, handles,
    [i \in Inumbers |-> IF freeinode_ts[i] = "TAKEN" THEN inode_table[i] ELSE NewInode(FALSE)],
    [h \in Handles |-> IF free_open_file_entries[h] = "TAKEN" THEN open_file_table[h]
                                                              ELSE [of_inumber |-> -1]]>>

=============================================================================
