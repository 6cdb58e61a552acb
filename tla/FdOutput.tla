------------------------------ MODULE FdOutput ------------------------------
(***************************************************************************)
(* write_atomic of src/terminal/main.cpp: terminal processes that write a  *)
(* save or a replay to one path, through path.tmp and a rename, at the     *)
(* same time, while any of them can be killed and the disk can refuse a    *)
(* write, a rename or the removal after it.                                *)
(*                                                                         *)
(* The file system is external and POSIX: a name is bound to an inode, an  *)
(* open file keeps its inode whatever happens to the name, opening with    *)
(* std::ios::trunc empties the inode a name is bound to, rename rebinds    *)
(* the new name and unbinds the old one.  A killed process has written     *)
(* what it has written; loss of power is not modelled (the code never      *)
(* calls fsync).                                                           *)
(***************************************************************************)
EXTENDS Integers

CONSTANTS
  Processes,   \* terminal processes; each writes its own output
  Chunks,      \* an output reaches the disk in this many writes
  Inodes,      \* inodes of the file system; one is free again once no name
               \* is bound to it and no stream writes it
  NoInode

ASSUME OutputAssumption ==
  /\ Chunks \in Nat \ {0}
  /\ NoInode \notin Inodes

VARIABLES
  path,      \* the inode the output path is bound to
  tmp,       \* the inode path.tmp is bound to
  data,      \* data[i] : whose chunk stands at each place of inode i
  pc,        \* pc[p] : where process p is in write_atomic
  open,      \* open[p] : the inode p's stream writes or has written
  offset,    \* offset[p] : chunks p's stream has written
  installer, \* history: the process last told OK, "none" before any
  late,      \* history: the processes that have tested path.tmp, but not
             \* created it before another did
  shared,    \* history: one of them has emptied the temporary of another,
             \* and not all who wrote then have ended
  torn,      \* history: what path holds was installed while shared
  abandoned  \* history: a killed process or a failed removal left path.tmp

files == <<path, tmp, data>>
locals == <<pc, open, offset>>
history == <<installer, late, shared, torn, abandoned>>
outputVars == <<files, locals, history>>

Names == Inodes \cup {NoInode}
PCs == {"out", "create", "write", "discard", "rename", "undo"}

OutputTypeOK ==
  /\ path \in Names /\ tmp \in Names
  /\ data \in [Inodes -> [1 .. Chunks -> Processes \cup {"hole"}]]
  /\ pc \in [Processes -> PCs]
  /\ open \in [Processes -> Names]
  /\ offset \in [Processes -> 0 .. Chunks]
  /\ installer \in Processes \cup {"none"}
  /\ late \subseteq Processes
  /\ shared \in BOOLEAN /\ torn \in BOOLEAN /\ abandoned \in BOOLEAN

Empty == [k \in 1 .. Chunks |-> "hole"]

OutputInit ==
  /\ path = NoInode /\ tmp = NoInode
  /\ data = [i \in Inodes |-> Empty]
  /\ pc = [p \in Processes |-> "out"]
  /\ open = [p \in Processes |-> NoInode]
  /\ offset = [p \in Processes |-> 0]
  /\ installer = "none"
  /\ late = {} /\ shared = FALSE /\ torn = FALSE /\ abandoned = FALSE

(* p has created path.tmp and not ended since. *)
Inside(p) == pc[p] \in {"write", "discard", "rename", "undo"}

Free(i) == i \notin {path, tmp} /\ \A p \in Processes : open[p] # i

Goto(p, next) == pc' = [pc EXCEPT ![p] = next]
Returns(p, result) ==
  /\ Goto(p, "out")
  /\ installer' = IF result = "OK" THEN p ELSE installer
  /\ open' = [open EXCEPT ![p] = NoInode]
  /\ offset' = [offset EXCEPT ![p] = 0]
  /\ late' = late \ {p}
  /\ shared' = (shared /\ \E q \in Processes \ {p} : Inside(q))

(* Variant (TemporaryHasOwner): the temporary kept when a write fails.     *)
DiscardNothing(p) ==
  /\ pc[p] = "discard"
  /\ Returns(p, "FORMAT")
  /\ UNCHANGED <<files, torn, abandoned>>

(* Variant (InstalledIsWhole): an existing path.tmp is written over.       *)
CheckNothing(p) ==
  /\ pc[p] = "out"
  /\ Goto(p, "create")
  /\ UNCHANGED <<files, open, offset, history>>

-----------------------------------------------------------------------------
(* write_atomic refuses if path.tmp exists; nothing holds the name between *)
(* this and the creation.                                                  *)
CheckTemporary(p) ==
  /\ pc[p] = "out"
  /\ \/ tmp # NoInode /\ Returns(p, "BUSY")
     \/ /\ tmp = NoInode /\ Goto(p, "create")
        /\ UNCHANGED <<open, offset, installer, late, shared>>
  /\ UNCHANGED <<files, torn, abandoned>>

(* std::filesystem::exists cannot tell. *)
CheckFails(p) ==
  /\ pc[p] = "out"
  /\ Returns(p, "FORMAT")
  /\ UNCHANGED <<files, torn, abandoned>>

(* std::ofstream with trunc: path.tmp is created, or emptied if another    *)
(* process has created it since.                                           *)
CreateTemporary(p) ==
  /\ pc[p] = "create"
  /\ \/ tmp = NoInode /\ tmp' \in {i \in Inodes : Free(i)}
     \/ tmp # NoInode /\ UNCHANGED tmp
  /\ data' = [data EXCEPT ![tmp'] = Empty]
  /\ open' = [open EXCEPT ![p] = tmp']
  /\ Goto(p, "write")
  /\ late' = {q \in Processes \ {p} : pc[q] = "create"}
  /\ shared' = (shared \/ /\ p \in late
                          /\ \E q \in Processes : Inside(q) /\ open[q] = tmp)
  /\ UNCHANGED <<path, offset, installer, torn, abandoned>>

CreateFails(p) ==
  /\ pc[p] = "create"
  /\ Returns(p, "FORMAT")
  /\ UNCHANGED <<files, torn, abandoned>>

WriteChunk(p) ==
  /\ pc[p] = "write" /\ offset[p] < Chunks
  /\ data' = [data EXCEPT ![open[p]][offset[p] + 1] = p]
  /\ offset' = [offset EXCEPT ![p] = @ + 1]
  /\ Goto(p, IF offset[p] + 1 = Chunks THEN "rename" ELSE "write")
  /\ UNCHANGED <<path, tmp, open, history>>

(* The disk refuses; the stream is bad after the flush.                    *)
WriteFails(p) ==
  /\ pc[p] = "write"
  /\ Goto(p, "discard")
  /\ UNCHANGED <<files, open, offset, history>>

(* Whatever path.tmp is bound to by now is removed.                        *)
Discard(p) ==
  /\ pc[p] = "discard"
  /\ tmp' = NoInode /\ abandoned' = FALSE
  /\ Returns(p, "FORMAT")
  /\ UNCHANGED <<path, data, torn>>

(* rename installs whatever path.tmp is bound to, and fails without one.   *)
Rename(p) ==
  /\ pc[p] = "rename" /\ tmp # NoInode
  /\ path' = tmp /\ torn' = shared
  /\ tmp' = NoInode /\ abandoned' = FALSE
  /\ Returns(p, "OK")
  /\ UNCHANGED data

RenameFails(p) ==
  /\ pc[p] = "rename"
  /\ Goto(p, "undo")
  /\ UNCHANGED <<files, open, offset, history>>

Undo(p) ==
  /\ pc[p] = "undo"
  /\ tmp' = NoInode /\ abandoned' = FALSE
  /\ Returns(p, "FORMAT")
  /\ UNCHANGED <<path, data, torn>>

(* std::filesystem::remove fails and its error is ignored, after a write   *)
(* as after a rename.                                                      *)
RemoveFails(p) ==
  /\ pc[p] \in {"discard", "undo"}
  /\ abandoned' = (tmp # NoInode)
  /\ Returns(p, "FORMAT")
  /\ UNCHANGED <<files, torn>>

(* The process is killed inside write_atomic; another run takes its place. *)
Kill(p) ==
  /\ pc[p] # "out"
  /\ abandoned' = (abandoned \/ (Inside(p) /\ tmp # NoInode))
  /\ Returns(p, "killed")
  /\ UNCHANGED <<files, torn>>

OutputNext == \E p \in Processes :
  \/ CheckTemporary(p) \/ CheckFails(p)
  \/ CreateTemporary(p) \/ CreateFails(p)
  \/ WriteChunk(p) \/ WriteFails(p) \/ Discard(p)
  \/ Rename(p) \/ RenameFails(p) \/ Undo(p)
  \/ RemoveFails(p) \/ Kill(p)

OutputSpec == OutputInit /\ [][OutputNext]_outputVars

-----------------------------------------------------------------------------
(* Properties. *)

(* README.md: "Output installation is atomic".  What a reader finds at the *)
(* path is the whole output of the process last told OK, never a part or a *)
(* mixture, whoever is killed or fails; but for one race, that a process   *)
(* has found no path.tmp, another has created it, and the first empties it *)
(* while it is written.  The race does harm until all who wrote then have  *)
(* ended: the next output installed is whole again.                        *)
InstalledIsWhole ==
  path # NoInode /\ ~torn => data[path] = [k \in 1 .. Chunks |-> installer]

(* A temporary is that of a process inside, or was left by a kill or by a  *)
(* removal that failed: a call that fails takes it away.  But for the race *)
(* one process at a time is inside, and none installs or removes the       *)
(* temporary of another.                                                   *)
TemporaryHasOwner ==
  /\ tmp # NoInode => abandoned \/ \E p \in Processes : Inside(p)
  /\ ~shared => \A p, q \in Processes :
       Inside(p) /\ Inside(q) => p = q /\ open[p] = tmp
=============================================================================
