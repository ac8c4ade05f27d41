---------------------------- MODULE MCTfsLinks ----------------------------
(* Small instances of TfsLinks: names of one and two characters.           *)
EXTENDS TfsLinks, TLC

CONSTANTS f, g, x

MCNames     == {<<f>>, <<g>>}
MCLongerName == {<<f>>, <<f, g>>}
MCBadPaths  == {<<"bad">>}
MCBytes     == {f, g, x}
MCModes     == {{}, {"CREAT"}, {"TRUNC"}, {"APPEND"}}   \* the flags act separately
MCBuffers   == {<<x, x>>}
MCNoName    == <<>>
MCReadLens  == {2}
MCExternalFiles == {<<x, x, x>>}

\* What decides the future: neither the entry of a closed handle, nor the
\* fields of an inode that is free and that no handle designates, nor what
\* the last call returned; nor, outside a copy, the first byte of a block
\* that holds no link, since a link that comes to own it overwrites it.
LinksView ==
  <<phase, freeinode_ts, dir_entry, free_blocks, lock_file_entries, copy, mishaps,
    [h \in Handles |-> IF IsOpen(h) THEN open_file_table[h] ELSE [of_inumber |-> -1]],
    [i \in Inumbers |-> IF Live(i) \/ HandlesOn(i) # {}
                         THEN <<inode_table[i], cnt_hardlinks[i], is_softlink[i]>>
                         ELSE <<>>],
    [b \in Blocks |->
       IF copy # NoCopy \/ \E i \in Inumbers :
            Live(i) /\ is_softlink[i] /\ inode_table[i].i_data_block = b
         THEN fs_data[b]
         ELSE [fs_data[b] EXCEPT ![0] = Garbage]]>>

=============================================================================
