---------------------------- MODULE TfsProofs ----------------------------
(***************************************************************************)
(* Proofs about exercise2/fs: type correctness and the agreement of the    *)
(* tables (TablesInv) for every number of inodes, blocks, handles and      *)
(* directory slots, for callers that make any call in any order.           *)
(***************************************************************************)
EXTENDS TfsClients, TecnicoFSProofs

\* Every call keeps the tables typed.
LEMMA NextTyped == TypeOK /\ [Next]_vars => TypeOK'
<1> SUFFICES ASSUME TypeOK, [Next]_vars PROVE TypeOK'
  OBVIOUS
<1>1. CASE CallOpen
  BY <1>1, OpenTyped DEF CallOpen
<1>2. CASE CallClose
  BY <1>2, CloseTyped DEF CallClose
<1>3. CASE CallWrite
  BY <1>3, WriteTyped, ClientsAssumption DEF CallWrite
<1>4. CASE CallRead
  BY <1>4, ReadTyped, ClientsAssumption DEF CallRead, ReadNear
<1>5. CASE CallUnlink
  BY <1>5, UnlinkTyped DEF CallUnlink
<1>6. CASE TfsInit
  BY <1>6, InitAgainTyped
<1>7. CASE TfsDestroy
  BY <1>7 DEF TfsDestroy, TypeOK, inodeVars, blockVars, fileVars
<1>8. CASE UNCHANGED vars
  BY <1>8 DEF vars, inodeVars, blockVars, fileVars, TypeOK
<1> QED BY <1>1, <1>2, <1>3, <1>4, <1>5, <1>6, <1>7, <1>8 DEF Next

\* Every state of the library, under any calls, is typed: sizes stay within a
\* block, block and inode numbers within their tables, whatever handles do.
THEOREM TypeCorrect == Spec => []TypeOK
<1>1. Init => TypeOK
  BY InitTyped
<1>2. TypeOK /\ [Next]_vars => TypeOK'
  BY NextTyped
<1> QED BY <1>1, <1>2, PTL DEF Spec

\* Every call keeps the tables in agreement.
LEMMA NextTables == TypeOK /\ TablesInv /\ [Next]_vars => TablesInv'
<1> SUFFICES ASSUME TypeOK, TablesInv, [Next]_vars PROVE TablesInv'
  OBVIOUS
<1>1. CASE CallOpen
  BY <1>1, OpenTables DEF CallOpen
<1>2. CASE CallClose
  BY <1>2, CloseTables DEF CallClose
<1>3. CASE CallWrite
  BY <1>3, WriteTables, ClientsAssumption DEF CallWrite
<1>4. CASE CallRead
  BY <1>4, ReadTables DEF CallRead, ReadNear
<1>5. CASE CallUnlink
  BY <1>5, UnlinkTables DEF CallUnlink
<1>6. CASE TfsInit
  <2>1. Init'
    BY <1>6 DEF TfsInit, Init
  <2> QED BY <2>1, InitTables, PTL
<1>7. CASE UNCHANGED <<inodeVars, dir_entry, blockVars, fileVars>>
  BY <1>7, SameTables DEF inodeVars, blockVars, fileVars, IsOpen, TablesInv, RootIntact
<1> QED BY <1>1, <1>2, <1>3, <1>4, <1>5, <1>6, <1>7 DEF Next, TfsDestroy, vars

\* However callers interleave their calls and whatever stale handles they use,
\* the directory, the inode table and the block table agree (TablesInv).
THEOREM TablesAgree == Spec => []TablesInv
<1>1. Init => TypeOK /\ TablesInv
  BY InitTyped, InitTables
<1>2. TypeOK /\ TablesInv /\ [Next]_vars => TypeOK' /\ TablesInv'
  BY NextTyped, NextTables
<1> QED BY <1>1, <1>2, PTL DEF Spec

\* Every directory entry names its own live inode, and every live file has one.
THEOREM DirectoryAlwaysConsistent == Spec => []DirectoryConsistent
<1>1. TablesInv => DirectoryConsistent
  BY DEF TablesInv
<1> QED BY <1>1, TablesAgree, PTL

\* No two live files, nor a file and the root directory, ever share a block.
THEOREM BlocksAlwaysExclusive == Spec => []BlocksExclusive
<1>1. TablesInv => BlocksExclusive
  BY DEF TablesInv
<1> QED BY <1>1, TablesAgree, PTL

=============================================================================
