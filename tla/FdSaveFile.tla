------------------------------ MODULE FdSaveFile ----------------------------
(***************************************************************************)
(* fd_world_load on the bytes of a canonical save (src/core/               *)
(* fd_serialize.c): the frames of the container as they are parsed, the    *)
(* table of sections they fill, the checks of their payloads, and the      *)
(* world that is allocated half way through.  The file is whatever another *)
(* version of the program, a disk or a transfer may have left: each frame  *)
(* is chosen when it is read.  What a payload means is FdWorld.            *)
(***************************************************************************)
EXTENDS Integers, Sequences

CONSTANTS
  Mandatory,     \* FD_SAVE_SECTION_COUNT, 11 in the code
  MaxSections,   \* sections a file may have, 64 in the code
  Tags           \* tags a frame may carry

ASSUME SaveFileAssumption ==
  /\ Mandatory \in Nat \ {0} /\ MaxSections \in Nat /\ Tags \subseteq Nat

(* What fd_world_load checks before the frames, in the order of the checks. *)
Headers ==
  [fits |-> "OK", oversize |-> "CAPACITY", truncated |-> "FORMAT",
   major |-> "VERSION", magic |-> "FORMAT", footer |-> "CHECKSUM"]

(* The frame of a section: whether its header is whole and canonical, its  *)
(* length inside the file and its digest that of its payload.              *)
Frames ==
  [tag : Tags, critical : BOOLEAN,
   is : {"sound", "truncated", "noncanonical", "overlong", "corrupt"}]

(* The checks of fd_decode_world in their order, and what each returns.    *)
(* Those at the end are made on an allocated world.                        *)
Before ==
  <<"FORMAT", "VERSION", "VERSION", "FORMAT", "FORMAT", "CHECKSUM", "FORMAT",
    "CAPACITY", "FORMAT", "FORMAT", "VERSION", "FORMAT", "FORMAT", "CAPACITY">>
OnWorld ==
  <<"FORMAT", "FORMAT", "FORMAT", "FORMAT", "STATE", "CHECKSUM">>
ManifestCount == 2     \* the check of the manifest, its section count with it
Defects == 0 .. Len(Before) + Len(OnWorld)

VARIABLES
  pc,            \* what the call does next
  file,          \* the frames read so far
  sections,      \* of each known tag, the frame that holds it, or 0
  previous_tag,
  section_count, \* the counter of the frames, then of the mandatory tags
  parsed,        \* *out_section_count
  said,          \* the count in the manifest
  defect,        \* the first check the payloads fail, 0 for none
  blocks,        \* what the load has allocated
  handles,       \* worlds it has added to live_handles
  result

vars == <<pc, file, sections, previous_tag, section_count, parsed, said,
          defect, blocks, handles, result>>
payload == <<said, defect, blocks, handles>>
table == <<file, sections, previous_tag, section_count, parsed>>

Codes == {"none", "OK", "FORMAT", "VERSION", "CHECKSUM", "CAPACITY", "STATE",
          "OUT_OF_MEMORY"}

Init ==
  /\ pc = "open" /\ file = <<>> /\ sections = [t \in 1 .. Mandatory |-> 0]
  /\ previous_tag = 0 /\ section_count = 0 /\ parsed = 0 /\ said = 0
  /\ defect = 0 /\ blocks = {} /\ handles = 0 /\ result = "none"

Return(code) == pc' = "done" /\ result' = code

Open ==
  /\ pc = "open"
  /\ said' \in 0 .. MaxSections + 1 /\ defect' \in Defects
  /\ \E header \in DOMAIN Headers :
       IF Headers[header] = "OK" THEN pc' = "frame" /\ UNCHANGED result
       ELSE Return(Headers[header])
  /\ UNCHANGED <<table, blocks, handles>>

-----------------------------------------------------------------------------
(* fd_parse_save_sections. *)

(* Variant (TableIsOfTheFile): a tag may come twice. *)
HeaderOfEqualTags(frame) == frame.is = "noncanonical" \/ frame.tag < previous_tag

NoncanonicalHeader(frame) ==
  frame.is = "noncanonical" \/ frame.tag <= previous_tag

(* The first check a frame fails, or the tag it must be refused for. *)
FrameResult(frame) ==
  IF frame.is \in {"truncated", "overlong"} \/ NoncanonicalHeader(frame)
  THEN "FORMAT"
  ELSE IF frame.is = "corrupt" THEN "CHECKSUM"
  ELSE IF frame.tag > Mandatory /\ frame.critical THEN "VERSION"
  ELSE "OK"

(* One turn of the loop: a section with a known tag goes into the table,   *)
(* any other is skipped once it is known to be sound.                      *)
ReadFrame ==
  /\ pc = "frame"
  /\ \E frame \in Frames :
       IF FrameResult(frame) # "OK"
       THEN Return(FrameResult(frame)) /\ UNCHANGED table
       ELSE /\ file' = Append(file, frame)
            /\ sections' = IF frame.tag <= Mandatory
                           THEN [sections EXCEPT ![frame.tag] = Len(file) + 1]
                           ELSE sections
            /\ previous_tag' = frame.tag
            /\ section_count' = section_count + 1
            /\ IF section_count + 1 > MaxSections THEN Return("CAPACITY")
               ELSE UNCHANGED <<pc, result>>
            /\ UNCHANGED parsed
  /\ UNCHANGED payload

(* The footer is reached, after one frame at least as fd_world_load has    *)
(* checked; the counter is used again for the mandatory tags.              *)
EndOfFrames ==
  /\ pc = "frame" /\ file # <<>>
  /\ pc' = "mandatory" /\ section_count' = 1
  /\ UNCHANGED <<file, sections, previous_tag, parsed, payload, result>>

(* Variant (OwnSavesLoad): the last tag is not looked up. *)
PresentButLast(tag) ==
  tag < Mandatory /\ sections[tag] # 0 /\ file[sections[tag]].critical

Present(tag) == sections[tag] # 0 /\ file[sections[tag]].critical

CheckMandatory ==
  /\ pc = "mandatory" /\ section_count <= Mandatory
  /\ IF Present(section_count)
     THEN section_count' = section_count + 1 /\ UNCHANGED <<pc, result>>
     ELSE Return("FORMAT") /\ UNCHANGED section_count
  /\ UNCHANGED <<file, sections, previous_tag, parsed, payload>>

(* Variant (ManifestCountsAll): the counter is taken as the loops leave it. *)
RecountOfLoop ==
  /\ pc = "mandatory" /\ section_count > Mandatory
  /\ pc' = "decode" /\ parsed' = section_count - 1
  /\ UNCHANGED <<file, sections, previous_tag, section_count, payload, result>>

(* The frames are counted again. *)
Recount ==
  /\ pc = "mandatory" /\ section_count > Mandatory
  /\ pc' = "decode" /\ parsed' = Len(file)
  /\ UNCHANGED <<file, sections, previous_tag, section_count, payload, result>>

-----------------------------------------------------------------------------
(* fd_decode_world.  A manifest with another count than the frames' fails  *)
(* the second check unless the first one already failed.                   *)
FirstDefect ==
  IF said # parsed /\ defect # 1 THEN ManifestCount ELSE defect

CheckPrefix ==
  /\ pc = "decode"
  /\ IF FirstDefect \in 1 .. Len(Before) THEN Return(Before[FirstDefect])
     ELSE pc' = "world" /\ UNCHANGED result
  /\ UNCHANGED <<table, payload>>

AllocateWorld ==
  /\ pc = "world"
  /\ \/ pc' = "tiles" /\ blocks' = {"world"} /\ UNCHANGED result
     \/ Return("OUT_OF_MEMORY") /\ UNCHANGED blocks
  /\ UNCHANGED <<table, said, defect, handles>>

(* Variant (LoadIsAtomic): the world is kept when its tiles are refused. *)
AllocateTilesKeeping ==
  /\ pc = "tiles"
  /\ \/ pc' = "state" /\ blocks' = blocks \cup {"tiles"} /\ UNCHANGED result
     \/ Return("OUT_OF_MEMORY") /\ UNCHANGED blocks
  /\ UNCHANGED <<table, said, defect, handles>>

AllocateTiles ==
  /\ pc = "tiles"
  /\ \/ pc' = "state" /\ blocks' = blocks \cup {"tiles"} /\ UNCHANGED result
     \/ Return("OUT_OF_MEMORY") /\ blocks' = blocks \ {"world"}
  /\ UNCHANGED <<table, said, defect, handles>>

(* The checks made on the world, and load_fail; or the handle is given.    *)
CheckWorld ==
  /\ pc = "state"
  /\ IF FirstDefect # 0
     THEN /\ Return(OnWorld[FirstDefect - Len(Before)])
          /\ blocks' = blocks \ {"world", "tiles"} /\ UNCHANGED handles
     ELSE Return("OK") /\ handles' = handles + 1 /\ UNCHANGED blocks
  /\ UNCHANGED <<table, said, defect>>

Next ==
  \/ Open \/ ReadFrame \/ EndOfFrames \/ CheckMandatory \/ Recount
  \/ CheckPrefix \/ AllocateWorld \/ AllocateTiles \/ CheckWorld
Spec == Init /\ [][Next]_vars

-----------------------------------------------------------------------------
TypeOK ==
  /\ pc \in {"open", "frame", "mandatory", "decode", "world",
             "tiles", "state", "done"}
  /\ file \in Seq(Frames) /\ Len(file) <= MaxSections + 1
  /\ sections \in [1 .. Mandatory -> 0 .. MaxSections + 1]
  /\ previous_tag \in Tags \cup {0}
  /\ section_count \in Nat /\ parsed \in 0 .. MaxSections
  /\ said \in 0 .. MaxSections + 1 /\ defect \in Defects
  /\ blocks \subseteq {"world", "tiles"} /\ handles \in 0 .. 1
  /\ result \in Codes

(* The table fd_decode_world reads its payloads from is that of the file:  *)
(* no tag has two frames, a section is found under its own tag, and once   *)
(* all mandatory ones are there they are the first frames of the file, so  *)
(* that no optional section of a later minor version stands before or      *)
(* between them (SAVE_AND_REPLAY.md: duplicate singleton sections and      *)
(* noncanonical order are hard errors).                                    *)
TableIsOfTheFile ==
  /\ \A i, j \in DOMAIN file : i < j => file[i].tag < file[j].tag
  /\ \A t \in 1 .. Mandatory : \A i \in DOMAIN file :
       file[i].tag = t <=> sections[t] = i
  /\ result = "OK" => \A t \in 1 .. Mandatory :
       t <= Len(file) /\ file[t].tag = t /\ file[t].critical

(* A world is handed out whole or not at all: a load that fails, in memory *)
(* or in a check, has freed what it allocated and adds no handle           *)
(* (SAVE_AND_REPLAY.md: failure publishes no handle).                      *)
LoadIsAtomic ==
  pc = "done" =>
    IF result = "OK" THEN blocks = {"world", "tiles"} /\ handles = 1
    ELSE blocks = {} /\ handles = 0

(* The manifest of an accepted file counts every frame, skipped ones too,  *)
(* though the counter of the loop was used again in between.               *)
ManifestCountsAll == result = "OK" => said = Len(file)

(* What fd_world_save writes is accepted: once the mandatory sections are  *)
(* read in their order, critical, with their number in the manifest and no *)
(* defect, nothing but memory can refuse them.                             *)
IsOwnSave ==
  /\ Len(file) = Mandatory /\ said = Mandatory /\ defect = 0
  /\ \A i \in DOMAIN file : file[i].tag = i /\ file[i].critical
OwnSavesLoad ==
  [][pc \notin {"open", "frame"} /\ pc' = "done" /\ IsOwnSave
       => result' \in {"OK", "OUT_OF_MEMORY"}]_vars

=============================================================================
