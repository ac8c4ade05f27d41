---------------------------- MODULE FileStore ----------------------------
(***************************************************************************)
(* What the library of exercise2/fs promises to callers that do not unlink *)
(* or truncate a file somebody has open: named byte sequences of bounded   *)
(* length and handles that walk through them.  There are no inodes, blocks *)
(* or directory entries here; running out of them shows only as a create   *)
(* or a first write that is refused.                                       *)
(***************************************************************************)
EXTENDS Integers, Sequences

CONSTANTS Names, BadNames, Modes, Handles, Buffers, ReadLens,
          MaxFileSize, NoFile, Closed

VARIABLES
  mounted,
  files,      \* name -> contents, or NoFile
  handles,    \* handle -> [name, pos], or Closed
  call,       \* the last call, with its arguments
  ret, buf    \* its results

storeVars == <<mounted, files, handles, call, ret, buf>>

Exists(name) == name \in Names /\ files[name] # NoFile
OpenHandles  == {h \in Handles : handles[h] # Closed}
HasOpen(name) == \E h \in OpenHandles : handles[h].name = name

Empty == <<>>

Init ==
  /\ mounted = TRUE
  /\ files = [n \in Names |-> NoFile]
  /\ handles = [h \in Handles |-> Closed]
  /\ call = <<"init">>
  /\ ret = 0
  /\ buf = Empty

Refused == ret' = -1 /\ UNCHANGED <<files, handles>>

-----------------------------------------------------------------------------

\* A handle is granted, or all are taken and the file is left as if it had been.
Grant(name, pos) ==
  \/ \E h \in Handles \ OpenHandles :
       handles' = [handles EXCEPT ![h] = [name |-> name, pos |-> pos]] /\ ret' = h
  \/ OpenHandles = Handles /\ ret' = -1 /\ UNCHANGED handles

OpenExisting(name, mode) ==
  /\ Exists(name)
  /\ "TRUNC" \in mode => ~HasOpen(name)
  /\ files' = IF "TRUNC" \in mode THEN [files EXCEPT ![name] = Empty] ELSE files
  /\ Grant(name, IF "APPEND" \in mode THEN Len(files'[name]) ELSE 0)

Create(name, mode) ==
  /\ name \in Names /\ ~Exists(name)
  /\ "CREAT" \in mode
  /\ files' = [files EXCEPT ![name] = Empty]
  /\ Grant(name, 0)

\* An existing file is never refused.
Open(name, mode) ==
  /\ call' = <<"open", name, mode>>
  /\ mounted' = mounted
  /\ buf' = Empty
  /\ OpenExisting(name, mode) \/ Create(name, mode) \/ (~Exists(name) /\ Refused)

Close(h) ==
  /\ call' = <<"close", h>>
  /\ mounted' = mounted
  /\ buf' = Empty
  /\ \/ h \in OpenHandles /\ handles' = [handles EXCEPT ![h] = Closed]
                          /\ ret' = 0 /\ UNCHANGED files
     \/ h \notin OpenHandles /\ Refused

Overwrite(old, pos, data, n) ==
  [k \in 1 .. (IF pos + n > Len(old) THEN pos + n ELSE Len(old)) |->
     IF pos < k /\ k <= pos + n THEN data[k - pos] ELSE old[k]]

\* Only the first write to an empty file can be refused.
Write(h, data) ==
  /\ call' = <<"write", h, data>>
  /\ mounted' = mounted
  /\ buf' = Empty
  /\ \/ h \notin OpenHandles /\ Refused
     \/ h \in OpenHandles
        /\ LET name == handles[h].name
               pos  == handles[h].pos
               room == MaxFileSize - pos
               n    == IF Len(data) <= room THEN Len(data) ELSE room
           IN  \/ /\ files' = [files EXCEPT ![name] = Overwrite(@, pos, data, n)]
                  /\ handles' = [handles EXCEPT ![h].pos = pos + n]
                  /\ ret' = n
               \/ n > 0 /\ files[name] = Empty /\ Refused

Read(h, len) ==
  /\ call' = <<"read", h, len>>
  /\ mounted' = mounted
  /\ \/ h \notin OpenHandles /\ Refused /\ buf' = Empty
     \/ h \in OpenHandles
        /\ LET file == files[handles[h].name]
               pos  == handles[h].pos
               left == Len(file) - pos
               n    == IF len <= left THEN len ELSE left
           IN  /\ buf' = SubSeq(file, pos + 1, pos + n)
               /\ handles' = [handles EXCEPT ![h].pos = pos + n]
               /\ ret' = n
               /\ UNCHANGED files

Unlink(name) ==
  /\ call' = <<"unlink", name>>
  /\ mounted' = mounted
  /\ buf' = Empty
  /\ \/ Exists(name) /\ ~HasOpen(name) /\ files' = [files EXCEPT ![name] = NoFile]
                     /\ ret' = 0 /\ UNCHANGED handles
     \/ ~Exists(name) /\ Refused

Unmount ==
  /\ call' = <<"destroy">>
  /\ mounted /\ mounted' = FALSE
  /\ ret' = 0 /\ buf' = Empty /\ UNCHANGED <<files, handles>>

Mount ==
  /\ call' = <<"init">>
  /\ ~mounted /\ mounted' = TRUE
  /\ files' = [n \in Names |-> NoFile]
  /\ handles' = [h \in Handles |-> Closed]
  /\ ret' = 0 /\ buf' = Empty

Next ==
  \/ mounted /\ \/ \E name \in Names \cup BadNames, mode \in Modes : Open(name, mode)
                \/ \E h \in Handles \cup {-1} : Close(h)
                \/ \E h \in Handles \cup {-1}, data \in Buffers : Write(h, data)
                \/ \E h \in Handles \cup {-1}, len \in ReadLens : Read(h, len)
                \/ \E name \in Names \cup BadNames : Unlink(name)
  \/ Mount \/ Unmount

Spec == Init /\ [][Next]_storeVars

=============================================================================
