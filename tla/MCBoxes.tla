------------------------------ MODULE MCBoxes ------------------------------
(* Small instances of Boxes: the boxes, and the requests clients make. *)
EXTENDS Boxes, TLC

CONSTANTS a, b

MCOneBox  == {a}
MCTwoBoxes == {a, b}
MCNoSubscribers == {"create", "remove", "pub"}
MCAllRequests == {"create", "remove", "pub", "sub"}

\* The state without what no later step's guard or call reads: the results
\* of the last call, closed entries of the open file table, the request Main has
\* answered and what subscribers were sent.
LiveState ==
  <<phase, inodeVars, dir_entry, blockVars, free_open_file_entries, pc, fh,
    MAX_SESSIONS,
    [h \in Handles |-> IF IsOpen(h) THEN open_file_table[h] ELSE <<>>],
    [t \in Threads |-> IF pc[t] \in Waiting THEN <<>> ELSE <<box[t]>>],
    [t \in Threads |-> IF pc[t] = "idle" THEN "none" ELSE kind[t]],
    [s \in Sessions |-> IF Running(s) /\ kind[s] = "pub" THEN msg[s] ELSE <<>>],
    [s \in Sessions |-> Len(msg[s])]>>

BoxSymmetry == Permutations(MCTwoBoxes)

=============================================================================
