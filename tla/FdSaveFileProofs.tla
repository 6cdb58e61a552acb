-------------------------- MODULE FdSaveFileProofs --------------------------
(***************************************************************************)
(* FdSaveFile for every number of mandatory sections, every bound on the   *)
(* sections of a file and every set of tags: the state is typed, the table *)
(* is that of the file, a load is atomic and its manifest counts all.      *)
(* Then the validator that a loaded world and a candidate must pass, for   *)
(* every size of map and every world a save can hold (FdCandidate): each   *)
(* reference of the region names its tile, LAND_COAST passes for one       *)
(* landmass and no faulty tile, HYDROLOGY for exactly the rivers that are  *)
(* one line of tiles falling to the sea, and ROAD_CORRIDOR for exactly the *)
(* roads that are one line between the settlements.  And the phases of a   *)
(* candidate, for every choice of draws: what they make passes all of this *)
(* but the coverage of the terrains and the second crossing of a road.     *)
(***************************************************************************)
EXTENDS FdSaveFile, FdCandidate, FiniteSetTheorems, WellFoundedInduction, TLAPS

Allocating == {"world", "tiles", "state"}
Parsed == {"decode"} \cup Allocating

(* The counters of the loop over the frames. *)
Counters ==
  /\ pc = "done" <=> result # "none"
  /\ pc # "done" => Len(file) <= MaxSections
  /\ pc \in {"open", "frame"} => section_count = Len(file)
  /\ pc = "open" => Len(file) = 0
  /\ Len(file) = 0 => previous_tag = 0
  /\ Len(file) # 0 => previous_tag = file[Len(file)].tag
  /\ pc = "mandatory" => section_count \in 1 .. Mandatory + 1

(* The frames read and where the table finds them.  A tag is at least the  *)
(* position of its frame, so that it is exactly that when every smaller    *)
(* tag has a frame.                                                        *)
Table ==
  /\ \A i \in 1 .. Len(file) : file[i].tag >= i
  /\ \A i, j \in 1 .. Len(file) : i < j => file[i].tag < file[j].tag
  /\ \A t \in 1 .. Mandatory : \A i \in 1 .. Len(file) :
       file[i].tag = t <=> sections[t] = i
  /\ \A t \in 1 .. Mandatory : sections[t] \in 0 .. Len(file)

InPlace(t) == sections[t] = t /\ t <= Len(file) /\ file[t].critical
Found ==
  \A t \in 1 .. Mandatory :
    \/ pc = "mandatory" /\ t < section_count
    \/ pc \in Parsed
    \/ result = "OK"
    => InPlace(t)

Decoding ==
  /\ pc \in Parsed \/ result = "OK" => parsed = Len(file)
  /\ pc \in Allocating => FirstDefect = 0 \/ FirstDefect > Len(Before)
  /\ result = "OK" => said = parsed

Memory ==
  /\ blocks = IF pc = "tiles" THEN {"world"}
              ELSE IF pc = "state" \/ result = "OK" THEN {"world", "tiles"}
              ELSE {}
  /\ handles = IF result = "OK" THEN 1 ELSE 0

IInv == TypeOK /\ Counters /\ Table /\ Found /\ Decoding /\ Memory

-----------------------------------------------------------------------------
LEMMA CodesOfChecks ==
  /\ Len(Before) = 14 /\ Len(OnWorld) = 6
  /\ \A i \in 1 .. 14 : Before[i] \in Codes \ {"none", "OK"}
  /\ \A i \in 1 .. 6 : OnWorld[i] \in Codes \ {"none", "OK"}
BY DEF Before, OnWorld, Codes

LEMMA FirstDefectTyped ==
  ASSUME defect \in Defects
  PROVE  FirstDefect \in 0 .. 20
BY CodesOfChecks DEF FirstDefect, Defects, ManifestCount

LEMMA HeadersTyped ==
  \A header \in DOMAIN Headers : Headers[header] \in Codes \ {"none"}
BY DEF Headers, Codes

(* A frame that passes goes on with a greater tag. *)
LEMMA FrameResultIs ==
  ASSUME NEW frame \in Frames, previous_tag \in Nat
  PROVE  /\ FrameResult(frame) \in Codes \ {"none"}
         /\ FrameResult(frame) = "OK" => frame.tag \in Nat /\ frame.tag > previous_tag
<1>1. frame.tag \in Nat
  BY SaveFileAssumption DEF Frames
<1>2. FrameResult(frame) \in {"FORMAT", "CHECKSUM", "VERSION", "OK"}
  BY DEF FrameResult
<1>3. FrameResult(frame) = "OK" => ~(frame.tag <= previous_tag)
  BY DEF FrameResult, NoncanonicalHeader
<1> QED
  BY <1>1, <1>2, <1>3 DEF Codes

LEMMA InitInv == Init => IInv
<1> SUFFICES ASSUME Init PROVE IInv
  OBVIOUS
<1>1. TypeOK
  BY SaveFileAssumption, CodesOfChecks DEF Init, TypeOK, Codes, Defects, Frames
<1>2. Counters /\ Table
  BY SaveFileAssumption DEF Init, Counters, Table
<1>3. Found /\ Decoding /\ Memory
  BY DEF Init, Found, Decoding, Memory, Parsed, Allocating
<1> QED
  BY <1>1, <1>2, <1>3 DEF IInv

-----------------------------------------------------------------------------
LEMMA OpenInv == IInv /\ Open => IInv'
<1> SUFFICES ASSUME IInv, Open PROVE IInv'
  OBVIOUS
<1> USE DEF IInv
<1>1. \/ pc' = "frame" /\ result' = result
      \/ pc' = "done" /\ result' \in Codes \ {"none", "OK"}
  <2>1. PICK header \in DOMAIN Headers :
          IF Headers[header] = "OK" THEN pc' = "frame" /\ UNCHANGED result
          ELSE Return(Headers[header])
    BY DEF Open
  <2> QED
    <3>1. CASE Headers[header] = "OK"
      BY <2>1, <3>1
    <3>2. CASE Headers[header] # "OK"
      <4>1. pc' = "done" /\ result' = Headers[header]
        BY <2>1, <3>2 DEF Return
      <4>2. Headers[header] \in Codes \ {"none"}
        BY HeadersTyped
      <4> QED
        BY <3>2, <4>1, <4>2
    <3> QED
      BY <3>1, <3>2
<1>2. UNCHANGED <<table, blocks, handles>> /\ pc = "open" /\ result = "none"
  BY DEF Open, Counters
<1>3. TypeOK'
  BY <1>1, <1>2 DEF TypeOK, Open, table
<1>4. Counters' /\ Table'
  BY <1>1, <1>2 DEF Counters, Table, table
<1>5. Found' /\ Decoding' /\ Memory'
  BY <1>1, <1>2 DEF Found, Decoding, Memory, Parsed, Allocating, table
<1> QED
  BY <1>3, <1>4, <1>5

(* A frame of a greater tag keeps the order and has its own entry. *)
LEMMA ReadFrameInv == IInv /\ ReadFrame => IInv'
<1> SUFFICES ASSUME IInv, ReadFrame PROVE IInv'
  OBVIOUS
<1> USE DEF IInv
<1>0. pc = "frame" /\ result = "none" /\ UNCHANGED payload
  BY DEF ReadFrame, Counters
<1>1. PICK frame \in Frames :
        IF FrameResult(frame) # "OK"
        THEN Return(FrameResult(frame)) /\ UNCHANGED table
        ELSE /\ file' = Append(file, frame)
             /\ sections' = IF frame.tag <= Mandatory
                            THEN [sections EXCEPT ![frame.tag] = Len(file) + 1]
                            ELSE sections
             /\ previous_tag' = frame.tag
             /\ section_count' = section_count + 1
             /\ IF section_count + 1 > MaxSections THEN Return("CAPACITY")
                ELSE UNCHANGED <<pc, result>>
             /\ UNCHANGED parsed
  BY DEF ReadFrame
<1>2. previous_tag \in Nat
  BY SaveFileAssumption DEF TypeOK
<1>3. CASE FrameResult(frame) # "OK"
  <2>1. pc' = "done" /\ result' \in Codes \ {"none", "OK"} /\ UNCHANGED <<table, payload>>
    BY <1>0, <1>1, <1>2, <1>3, FrameResultIs DEF Return
  <2>2. TypeOK' /\ Counters' /\ Table'
    BY <1>0, <2>1 DEF TypeOK, Counters, Table, table, payload
  <2>3. Found' /\ Decoding' /\ Memory'
    BY <1>0, <2>1 DEF Found, Decoding, Memory, Parsed, Allocating, table, payload
  <2> QED
    BY <2>2, <2>3
<1>4. CASE FrameResult(frame) = "OK"
  <2>1. frame.tag \in Nat /\ frame.tag > previous_tag /\ frame.tag \in Tags
    BY <1>2, <1>4, FrameResultIs DEF Frames
  <2>2. /\ file' = Append(file, frame) /\ previous_tag' = frame.tag
        /\ section_count' = section_count + 1 /\ parsed' = parsed
        /\ sections' = IF frame.tag <= Mandatory
                       THEN [sections EXCEPT ![frame.tag] = Len(file) + 1]
                       ELSE sections
        /\ \/ Len(file') <= MaxSections /\ pc' = "frame" /\ result' = "none"
           \/ pc' = "done" /\ result' = "CAPACITY"
    BY <1>0, <1>1, <1>4, SaveFileAssumption DEF Return, Counters, TypeOK
  <2>3. /\ file \in Seq(Frames) /\ Len(file) \in Nat /\ Len(file) <= MaxSections
        /\ file' \in Seq(Frames) /\ Len(file') = Len(file) + 1
        /\ file'[Len(file) + 1] = frame
        /\ \A i \in 1 .. Len(file) : file'[i] = file[i] /\ file[i] \in Frames
        /\ MaxSections \in Nat /\ Mandatory \in Nat
    BY <1>0, <2>2, SaveFileAssumption DEF TypeOK, Counters
  <2>4. TypeOK'
    <3>1. sections' \in [1 .. Mandatory -> 0 .. MaxSections + 1]
      <4>1. /\ sections \in [1 .. Mandatory -> 0 .. MaxSections + 1]
            /\ Len(file) + 1 \in 0 .. MaxSections + 1
        BY <2>3 DEF TypeOK
      <4>2. CASE frame.tag <= Mandatory
        BY <2>2, <4>1, <4>2
      <4>3. CASE ~(frame.tag <= Mandatory)
        BY <2>2, <4>1, <4>3
      <4> QED
        BY <4>2, <4>3
    <3>2. previous_tag' \in Tags \cup {0} /\ section_count' \in Nat
      BY <2>1, <2>2 DEF TypeOK
    <3>3. pc' \in {"frame", "done"} /\ result' \in Codes
      BY <2>2 DEF Codes
    <3> QED
      BY <1>0, <2>2, <2>3, <3>1, <3>2, <3>3 DEF TypeOK, payload
  <2>5. Counters'
    BY <1>0, <2>1, <2>2, <2>3 DEF Counters
  <2>6. \A i \in 1 .. Len(file) : file[i].tag < frame.tag
    <3> SUFFICES ASSUME NEW i \in 1 .. Len(file) PROVE file[i].tag < frame.tag
      OBVIOUS
    <3>1. previous_tag = file[Len(file)].tag /\ Len(file) \in 1 .. Len(file)
      BY <2>3 DEF Counters
    <3>2. CASE i = Len(file)
      BY <2>1, <3>1, <3>2
    <3>3. CASE i < Len(file)
      <4>1. file[i].tag < file[Len(file)].tag
        BY <3>1, <3>3 DEF Table
      <4>2. file[i].tag \in Nat
        BY <2>3, SaveFileAssumption DEF Frames
      <4> QED
        BY <1>2, <2>1, <3>1, <4>1, <4>2
    <3> QED
      BY <2>3, <3>2, <3>3
  <2>7. Table'
    <3>1. \A i \in 1 .. Len(file') : file'[i].tag >= i
      <4> SUFFICES ASSUME NEW i \in 1 .. Len(file') PROVE file'[i].tag >= i
        OBVIOUS
      <4>1. CASE i \in 1 .. Len(file)
        BY <2>3, <4>1 DEF Table
      <4>2. CASE i = Len(file) + 1
        <5>1. CASE Len(file) = 0
          BY <2>1, <2>3, <4>2, <5>1, <1>2
        <5>2. CASE Len(file) # 0
          <6>1. file[Len(file)].tag >= Len(file) /\ file[Len(file)].tag = previous_tag
            BY <2>3, <5>2 DEF Table, Counters
          <6> QED
            BY <1>2, <2>1, <2>3, <4>2, <6>1
        <5> QED
          BY <5>1, <5>2
      <4> QED
        BY <2>3, <4>1, <4>2
    <3>2. \A i, j \in 1 .. Len(file') : i < j => file'[i].tag < file'[j].tag
      <4> SUFFICES ASSUME NEW i \in 1 .. Len(file'), NEW j \in 1 .. Len(file'), i < j
                   PROVE  file'[i].tag < file'[j].tag
        OBVIOUS
      <4>1. i \in 1 .. Len(file)
        BY <2>3
      <4>2. CASE j \in 1 .. Len(file)
        BY <2>3, <4>1, <4>2 DEF Table
      <4>3. CASE j = Len(file) + 1
        BY <2>3, <2>6, <4>1, <4>3
      <4> QED
        BY <2>3, <4>2, <4>3
    <3>3. ASSUME NEW t \in 1 .. Mandatory, NEW i \in 1 .. Len(file')
          PROVE  file'[i].tag = t <=> sections'[t] = i
      <4>1. sections \in [1 .. Mandatory -> 0 .. MaxSections + 1]
        BY DEF TypeOK
      <4>2. sections'[t] = IF frame.tag = t THEN Len(file) + 1 ELSE sections[t]
        BY <2>1, <2>2, <2>3, <4>1
      <4>3. sections[t] \in 0 .. Len(file)
        BY DEF Table
      <4>4. CASE i \in 1 .. Len(file)
        <5>1. file[i].tag = t <=> sections[t] = i
          BY <4>4 DEF Table
        <5>2. file[i].tag # frame.tag
          BY <2>1, <2>3, <2>6, <4>4, SaveFileAssumption DEF Frames
        <5> QED
          BY <2>3, <4>2, <4>4, <5>1, <5>2
      <4>5. CASE i = Len(file) + 1
        BY <2>3, <4>2, <4>3, <4>5
      <4> QED
        BY <2>3, <4>4, <4>5
    <3>4. ASSUME NEW t \in 1 .. Mandatory PROVE sections'[t] \in 0 .. Len(file')
      <4>1. sections \in [1 .. Mandatory -> 0 .. MaxSections + 1]
        BY DEF TypeOK
      <4>2. sections'[t] = IF frame.tag = t THEN Len(file) + 1 ELSE sections[t]
        BY <2>1, <2>2, <2>3, <4>1
      <4> QED
        BY <2>3, <4>2 DEF Table
    <3> QED
      BY <3>1, <3>2, <3>3, <3>4 DEF Table
  <2>8. Found' /\ Decoding' /\ Memory'
    BY <1>0, <2>2 DEF Found, Decoding, Memory, Parsed, Allocating, payload
  <2> QED
    BY <2>4, <2>5, <2>7, <2>8
<1> QED
  BY <1>3, <1>4

LEMMA EndOfFramesInv == IInv /\ EndOfFrames => IInv'
<1> SUFFICES ASSUME IInv, EndOfFrames PROVE IInv'
  OBVIOUS
<1> USE DEF IInv
<1>1. /\ pc = "frame" /\ pc' = "mandatory" /\ section_count' = 1 /\ result = "none"
      /\ UNCHANGED <<file, sections, previous_tag, parsed, payload, result>>
  BY DEF EndOfFrames, Counters
<1>2. TypeOK' /\ Counters'
  BY <1>1, SaveFileAssumption DEF TypeOK, Counters, payload
<1>3. Table'
  BY <1>1 DEF Table
<1>4. Found' /\ Decoding' /\ Memory'
  BY <1>1 DEF Found, Decoding, Memory, Parsed, Allocating, payload
<1> QED
  BY <1>2, <1>3, <1>4

(* The next mandatory tag is in place: its frame comes after that of the   *)
(* tag before it, and no frame stands beyond its tag.                      *)
LEMMA PresentInPlace ==
  ASSUME TypeOK, Table, NEW t \in 1 .. Mandatory, Present(t),
         \A u \in 1 .. Mandatory : u < t => InPlace(u)
  PROVE  InPlace(t)
<1>1. Mandatory \in Nat /\ t \in Nat /\ file \in Seq(Frames) /\ Len(file) \in Nat
  BY SaveFileAssumption DEF TypeOK
<1>2. sections[t] \in 1 .. Len(file) /\ file[sections[t]].critical
  BY <1>1 DEF Present, Table
<1>3. file[sections[t]].tag = t
  BY <1>2 DEF Table
<1>4. sections[t] <= t
  BY <1>1, <1>2, <1>3 DEF Table
<1>5. sections[t] >= t
  <2>1. CASE t = 1
    BY <1>2, <2>1
  <2>2. CASE t > 1
    <3>1. t - 1 \in 1 .. Mandatory /\ t - 1 < t
      BY <1>1, <2>2
    <3>2. sections[t - 1] = t - 1 /\ t - 1 \in 1 .. Len(file)
      BY <1>1, <3>1 DEF InPlace
    <3>3. file[t - 1].tag = t - 1
      BY <3>1, <3>2 DEF Table
    <3>4. CASE sections[t] < t - 1
      <4>1. file[sections[t]].tag < file[t - 1].tag
        BY <1>2, <3>2, <3>4 DEF Table
      <4> QED
        BY <1>1, <1>3, <3>3, <4>1
    <3>5. CASE sections[t] = t - 1
      BY <1>1, <1>3, <3>3, <3>5
    <3> QED
      BY <1>1, <1>2, <3>4, <3>5
  <2> QED
    BY <1>1, <2>1, <2>2
<1>6. sections[t] = t
  BY <1>1, <1>2, <1>4, <1>5
<1> QED
  BY <1>1, <1>2, <1>6 DEF InPlace

LEMMA CheckMandatoryInv == IInv /\ CheckMandatory => IInv'
<1> SUFFICES ASSUME IInv, CheckMandatory PROVE IInv'
  OBVIOUS
<1> USE DEF IInv
<1>1. /\ pc = "mandatory" /\ result = "none" /\ section_count \in 1 .. Mandatory
      /\ UNCHANGED <<file, sections, previous_tag, parsed, payload>>
      /\ Mandatory \in Nat
  BY SaveFileAssumption DEF CheckMandatory, Counters
<1>2. CASE Present(section_count)
  <2>1. section_count' = section_count + 1 /\ UNCHANGED <<pc, result>>
    BY <1>2 DEF CheckMandatory
  <2>2. TypeOK' /\ Counters' /\ Table'
    BY <1>1, <2>1 DEF TypeOK, Counters, Table, payload
  <2>3. InPlace(section_count)
    BY <1>1, <1>2, PresentInPlace DEF Found
  <2>4. Found'
    <3> SUFFICES ASSUME NEW t \in 1 .. Mandatory, t < section_count'
                 PROVE  InPlace(t)
      BY <1>1, <2>1 DEF Found, Parsed, Allocating, InPlace
    <3>1. CASE t < section_count
      BY <1>1, <3>1 DEF Found
    <3>2. CASE t = section_count
      BY <2>3, <3>2
    <3> QED
      BY <1>1, <2>1, <3>1, <3>2
  <2>5. Decoding' /\ Memory'
    BY <1>1, <2>1 DEF Decoding, Memory, Parsed, Allocating, payload
  <2> QED
    BY <2>2, <2>4, <2>5
<1>3. CASE ~Present(section_count)
  <2>1. pc' = "done" /\ result' = "FORMAT" /\ UNCHANGED section_count
    BY <1>3 DEF CheckMandatory, Return
  <2>2. TypeOK' /\ Counters' /\ Table'
    BY <1>1, <2>1 DEF TypeOK, Counters, Table, payload, Codes
  <2>3. Found' /\ Decoding' /\ Memory'
    BY <1>1, <2>1 DEF Found, Decoding, Memory, Parsed, Allocating, payload
  <2> QED
    BY <2>2, <2>3
<1> QED
  BY <1>2, <1>3

LEMMA RecountInv == IInv /\ Recount => IInv'
<1> SUFFICES ASSUME IInv, Recount PROVE IInv'
  OBVIOUS
<1> USE DEF IInv
<1>1. /\ pc = "mandatory" /\ result = "none" /\ section_count > Mandatory
      /\ pc' = "decode" /\ parsed' = Len(file)
      /\ UNCHANGED <<file, sections, previous_tag, section_count, payload, result>>
  BY DEF Recount, Counters
<1>2. TypeOK' /\ Counters' /\ Table'
  <2>1. parsed' \in 0 .. MaxSections
    BY <1>1, SaveFileAssumption DEF TypeOK, Counters
  <2>2. TypeOK'
    BY <1>1, <2>1 DEF TypeOK, payload
  <2>3. Counters' /\ Table'
    BY <1>1 DEF Counters, Table, payload
  <2> QED
    BY <2>2, <2>3
<1>3. \A t \in 1 .. Mandatory : InPlace(t) /\ InPlace(t)'
  <2> SUFFICES ASSUME NEW t \in 1 .. Mandatory PROVE InPlace(t)
    BY <1>1 DEF InPlace
  <2>1. t < section_count
    BY <1>1, SaveFileAssumption DEF TypeOK
  <2> QED
    BY <1>1, <2>1 DEF Found
<1>4. Found' /\ Decoding' /\ Memory'
  BY <1>1, <1>3 DEF Found, Decoding, Memory, Parsed, Allocating, payload
<1> QED
  BY <1>2, <1>4

LEMMA CheckPrefixInv == IInv /\ CheckPrefix => IInv'
<1> SUFFICES ASSUME IInv, CheckPrefix PROVE IInv'
  OBVIOUS
<1> USE DEF IInv
<1>1. pc = "decode" /\ result = "none" /\ UNCHANGED <<table, payload>>
  BY DEF CheckPrefix, Counters
<1>2. FirstDefect \in 0 .. 20 /\ FirstDefect' = FirstDefect /\ Len(Before) = 14
  BY <1>1, FirstDefectTyped, CodesOfChecks DEF TypeOK, FirstDefect, table, payload
<1>3. \/ pc' = "done" /\ result' \in Codes \ {"none", "OK"}
      \/ pc' = "world" /\ result' = "none" /\ FirstDefect \notin 1 .. 14
  BY <1>1, <1>2, CodesOfChecks DEF CheckPrefix, Return
<1>4. TypeOK' /\ Counters' /\ Table'
  BY <1>1, <1>3 DEF TypeOK, Counters, Table, table, payload
<1>5. Found' /\ Decoding' /\ Memory'
  BY <1>1, <1>2, <1>3 DEF Found, InPlace, Decoding, Memory, Parsed, Allocating,
     table, payload
<1> QED
  BY <1>4, <1>5

LEMMA AllocateWorldInv == IInv /\ AllocateWorld => IInv'
<1> SUFFICES ASSUME IInv, AllocateWorld PROVE IInv'
  OBVIOUS
<1> USE DEF IInv
<1>1. /\ pc = "world" /\ result = "none" /\ UNCHANGED <<table, said, defect, handles>>
      /\ \/ pc' = "tiles" /\ blocks' = {"world"} /\ result' = "none"
         \/ pc' = "done" /\ result' = "OUT_OF_MEMORY" /\ blocks' = blocks
  BY DEF AllocateWorld, Counters, Return
<1>2. TypeOK' /\ Counters' /\ Table'
  BY <1>1 DEF TypeOK, Counters, Table, table, Codes
<1>3. Found' /\ Decoding' /\ Memory'
  BY <1>1 DEF Found, InPlace, Decoding, FirstDefect, Memory, Parsed, Allocating, table
<1> QED
  BY <1>2, <1>3

LEMMA AllocateTilesInv == IInv /\ AllocateTiles => IInv'
<1> SUFFICES ASSUME IInv, AllocateTiles PROVE IInv'
  OBVIOUS
<1> USE DEF IInv
<1>1. /\ pc = "tiles" /\ result = "none" /\ UNCHANGED <<table, said, defect, handles>>
      /\ blocks = {"world"}
      /\ \/ pc' = "state" /\ blocks' = {"world", "tiles"} /\ result' = "none"
         \/ pc' = "done" /\ result' = "OUT_OF_MEMORY" /\ blocks' = {}
  BY DEF AllocateTiles, Counters, Memory, Return
<1>2. TypeOK' /\ Counters' /\ Table'
  BY <1>1 DEF TypeOK, Counters, Table, table, Codes
<1>3. Found' /\ Decoding' /\ Memory'
  BY <1>1 DEF Found, InPlace, Decoding, FirstDefect, Memory, Parsed, Allocating, table
<1> QED
  BY <1>2, <1>3

LEMMA CheckWorldInv == IInv /\ CheckWorld => IInv'
<1> SUFFICES ASSUME IInv, CheckWorld PROVE IInv'
  OBVIOUS
<1> USE DEF IInv
<1>1. /\ pc = "state" /\ result = "none" /\ UNCHANGED <<table, said, defect>>
      /\ blocks = {"world", "tiles"} /\ handles = 0
  BY DEF CheckWorld, Counters, Memory
<1>2. FirstDefect \in 0 .. 20 /\ Len(Before) = 14 /\ FirstDefect \notin 1 .. 14
  BY <1>1, FirstDefectTyped, CodesOfChecks DEF TypeOK, Decoding, Allocating
<1>3. FirstDefect = 0 => said = parsed
  BY DEF FirstDefect, ManifestCount
<1>4. /\ pc' = "done"
      /\ \/ result' \in Codes \ {"none", "OK"} /\ blocks' = {} /\ handles' = 0
         \/ result' = "OK" /\ blocks' = blocks /\ handles' = 1 /\ said = parsed
  BY <1>1, <1>2, <1>3, CodesOfChecks DEF CheckWorld, Return
<1>5. TypeOK' /\ Counters' /\ Table'
  BY <1>1, <1>4 DEF TypeOK, Counters, Table, table, Codes
<1>6. Found' /\ Decoding' /\ Memory'
  BY <1>1, <1>4 DEF Found, InPlace, Decoding, Memory, Parsed, Allocating, table
<1> QED
  BY <1>5, <1>6

LEMMA StutterInv == IInv /\ UNCHANGED vars => IInv'
<1> SUFFICES ASSUME IInv, UNCHANGED vars PROVE IInv'
  OBVIOUS
<1>1. TypeOK' /\ Counters' /\ Table'
  BY DEF IInv, TypeOK, Counters, Table, vars
<1>2. Found' /\ Decoding' /\ Memory'
  BY DEF IInv, Found, InPlace, Decoding, FirstDefect, Memory, Parsed, Allocating, vars
<1> QED
  BY <1>1, <1>2 DEF IInv

-----------------------------------------------------------------------------
(* The inductive invariant of fd_world_load: the counters of the loops,    *)
(* the table of sections, the count of the manifest and the blocks held.   *)
THEOREM Invariance == Spec => []IInv
<1>1. Init => IInv
  BY InitInv
<1>2. IInv /\ [Next]_vars => IInv'
  BY OpenInv, ReadFrameInv, EndOfFramesInv, CheckMandatoryInv, RecountInv,
     CheckPrefixInv, AllocateWorldInv, AllocateTilesInv, CheckWorldInv,
     StutterInv DEF Next
<1> QED
  BY <1>1, <1>2, PTL DEF Spec

(* Every variable of fd_world_load keeps its range: the parser never has   *)
(* more than MaxSections + 1 frames behind it, whatever the file holds.    *)
THEOREM TypeCorrect == Spec => []TypeOK
<1>1. IInv => TypeOK
  BY DEF IInv
<1> QED
  BY <1>1, Invariance, PTL

(* fd_parse_save_sections fills its table with the frames of the file, each *)
(* under its own tag, and what is accepted begins with all mandatory       *)
(* sections in order.                                                      *)
THEOREM TableCorrect == Spec => []TableIsOfTheFile
<1>1. IInv => TableIsOfTheFile
  <2> SUFFICES ASSUME IInv PROVE TableIsOfTheFile
    OBVIOUS
  <2>1. DOMAIN file = 1 .. Len(file)
    BY DEF IInv, TypeOK
  <2>2. ASSUME result = "OK", NEW t \in 1 .. Mandatory
        PROVE  t <= Len(file) /\ file[t].tag = t /\ file[t].critical
    <3>1. sections[t] = t /\ t <= Len(file) /\ file[t].critical
      BY <2>2 DEF IInv, Found, InPlace
    <3>2. t \in 1 .. Len(file)
      BY <3>1, SaveFileAssumption DEF IInv, TypeOK
    <3> QED
      BY <3>1, <3>2 DEF IInv, Table
  <2> QED
    BY <2>1, <2>2 DEF IInv, Table, TableIsOfTheFile
<1> QED
  BY <1>1, Invariance, PTL

(* fd_world_load publishes a whole world or holds nothing.                 *)
THEOREM Atomic == Spec => []LoadIsAtomic
<1>1. IInv => LoadIsAtomic
  BY DEF IInv, Memory, LoadIsAtomic
<1> QED
  BY <1>1, Invariance, PTL

(* The manifest of an accepted file counts its frames, the skipped ones    *)
(* with them.                                                              *)
THEOREM CountsAll == Spec => []ManifestCountsAll
<1>1. IInv => ManifestCountsAll
  BY DEF IInv, Decoding, ManifestCountsAll
<1> QED
  BY <1>1, Invariance, PTL

(* A step that ends the load of a save fd_world_save wrote.                *)
LEMMA OwnSaveEnds ==
  ASSUME IInv, Next, pc \notin {"open", "frame"}, pc' = "done", IsOwnSave
  PROVE  result' \in {"OK", "OUT_OF_MEMORY"}
<1>1. /\ Len(file) = Mandatory /\ said = Mandatory /\ defect = 0
      /\ \A i \in 1 .. Mandatory : file[i].tag = i /\ file[i].critical
      /\ Mandatory \in Nat \ {0}
  <2>1. DOMAIN file = 1 .. Len(file)
    BY DEF IInv, TypeOK
  <2> QED
    BY <2>1, SaveFileAssumption DEF IsOwnSave
<1>2. ~CheckMandatory
  <2> SUFFICES ASSUME CheckMandatory PROVE FALSE
    OBVIOUS
  <2>1. section_count \in 1 .. Mandatory
    <3>1. section_count \in 1 .. Mandatory + 1 /\ section_count <= Mandatory
      BY DEF CheckMandatory, IInv, Counters
    <3> QED
      BY <1>1, <3>1
  <2>2. file[section_count].tag = section_count /\ file[section_count].critical
    BY <1>1, <2>1
  <2>3. sections[section_count] = section_count
    BY <1>1, <2>1, <2>2 DEF IInv, Table
  <2>4. Present(section_count)
    BY <2>1, <2>2, <2>3 DEF Present
  <2> QED
    BY <2>4 DEF CheckMandatory
<1>3. CASE CheckPrefix \/ CheckWorld
  <2>1. parsed = Len(file)
    BY <1>3 DEF CheckPrefix, CheckWorld, IInv, Decoding, Parsed, Allocating
  <2>2. FirstDefect = 0
    BY <1>1, <2>1 DEF FirstDefect
  <2>3. ~CheckPrefix
    BY <2>2, CodesOfChecks DEF CheckPrefix
  <2> QED
    BY <1>3, <2>2, <2>3 DEF CheckWorld, Return
<1>4. CASE AllocateWorld \/ AllocateTiles
  BY <1>4 DEF AllocateWorld, AllocateTiles, Return
<1>5. ~Open /\ ~ReadFrame /\ ~EndOfFrames /\ ~Recount
  BY DEF Open, ReadFrame, EndOfFrames, Recount
<1> QED
  BY <1>2, <1>3, <1>4, <1>5 DEF Next

(* What fd_world_save writes loads, once its frames are read: no check of  *)
(* the mandatory tags, the manifest or the payloads refuses it, and only   *)
(* memory can.                                                             *)
THEOREM SavesLoad == Spec => OwnSavesLoad
<1>1. IInv /\ [Next]_vars =>
        [pc \notin {"open", "frame"} /\ pc' = "done" /\ IsOwnSave
           => result' \in {"OK", "OUT_OF_MEMORY"}]_vars
  BY OwnSaveEnds
<1> QED
  BY <1>1, Invariance, PTL DEF Spec, OwnSavesLoad

-----------------------------------------------------------------------------
(* Of any natural numbers one is the least: induction, as a fact on sets.  *)
LEMMA LeastExists ==
  ASSUME NEW S, S \subseteq Nat, S # {}
  PROVE  \E i \in S : \A j \in S : i <= j
<1>1. PICK i \in S : \A j \in S : ~(<<j, i>> \in OpToRel(<, Nat))
  BY NatLessThanWellFounded, WFMin
<1>2. ASSUME NEW j \in S, j < i
      PROVE  FALSE
  <2>1. <<j, i>> \in Nat \X Nat /\ <<j, i>>[1] < <<j, i>>[2]
    BY <1>2
  <2>2. <<j, i>> \in OpToRel(<, Nat)
    BY <2>1, Zenon DEF OpToRel
  <2> QED
    BY <1>1, <2>2
<1> QED
  BY <1>2

(* The map is the numbers below its area, by rows and columns.             *)
LEMMA MapIs ==
  /\ Width \in Nat \ {0} /\ Height \in Nat \ {0}
  /\ Width * Height \in Nat \ {0}
  /\ Tiles = 0 .. Width * Height - 1 /\ Tiles \subseteq Nat
  /\ IsFiniteSet(Tiles)
<1>1. Width \in Nat \ {0} /\ Height \in Nat \ {0}
  BY SizeAssumption
<1>2. Width * Height \in Nat \ {0}
  BY <1>1
<1>3. Tiles = 0 .. Width * Height - 1
  BY DEF Tiles
<1> HIDE DEF Tiles
<1>4. IsFiniteSet(0 .. Width * Height - 1)
  BY <1>2, FS_Interval
<1> QED
  BY <1>1, <1>2, <1>3, <1>4

LEMMA RowAndColumn ==
  ASSUME NEW t \in Tiles
  PROVE  /\ X(t) \in 0 .. Width - 1 /\ Y(t) \in 0 .. Height - 1
         /\ t = TileAt(X(t), Y(t))
<1> DEFINE x == X(t)
           y == Y(t)
<1>1. Width \in Nat \ {0} /\ Height \in Nat \ {0} /\ t \in Nat
      /\ t < Width * Height
  BY MapIs
<1>2. x \in 0 .. Width - 1 /\ y \in Nat /\ t = y * Width + x
  BY <1>1 DEF X, Y
<1> HIDE DEF x, y
<1>3. y < Height
  <2>1. CASE y >= Height
    <3>1. y * Width >= Height * Width
      BY <1>1, <1>2, <2>1
    <3> QED
      BY <1>1, <1>2, <3>1
  <2> QED
    BY <1>1, <1>2, <2>1
<1> QED
  BY <1>1, <1>2, <1>3 DEF TileAt, x, y

LEMMA TileIs ==
  ASSUME NEW x \in 0 .. Width - 1, NEW y \in 0 .. Height - 1
  PROVE  /\ TileAt(x, y) \in Tiles
         /\ X(TileAt(x, y)) = x /\ Y(TileAt(x, y)) = y
<1> DEFINE t == TileAt(x, y)
           p == X(t)
           q == Y(t)
<1>1. Width \in Nat \ {0} /\ Height \in Nat \ {0} /\ x \in Nat /\ y \in Nat
      /\ x < Width /\ y < Height
  BY MapIs
<1>2. t = y * Width + x
  BY DEF TileAt
<1>3. y * Width \in Nat /\ (y + 1) * Width <= Height * Width
      /\ (y + 1) * Width = y * Width + Width
  BY <1>1
<1>4. t \in Nat /\ t < Width * Height
  BY <1>1, <1>2, <1>3
<1> HIDE DEF t
<1>5. p \in 0 .. Width - 1 /\ q \in Nat /\ t = q * Width + p
  BY <1>1, <1>4 DEF X, Y
<1> HIDE DEF p, q
<1>6. q = y
  <2>1. CASE q > y
    <3>1. q * Width >= (y + 1) * Width
      BY <1>1, <1>5, <2>1
    <3> QED
      BY <1>1, <1>2, <1>3, <1>5, <3>1
  <2>2. CASE q < y
    <3>1. y * Width >= (q + 1) * Width /\ (q + 1) * Width = q * Width + Width
          /\ q * Width \in Nat
      BY <1>1, <1>5, <2>2
    <3> QED
      BY <1>1, <1>2, <1>3, <1>5, <3>1
  <2> QED
    BY <1>1, <1>5, <2>1, <2>2
<1>7. p = x
  BY <1>1, <1>2, <1>3, <1>5, <1>6
<1> QED
  BY <1>4, <1>6, <1>7, MapIs DEF t, p, q

(* The tiles beside a tile of a row or a column.                           *)
LEMMA BesideIs ==
  ASSUME NEW x \in 0 .. Width - 1, NEW y \in 0 .. Height - 1
  PROVE  /\ x + 1 < Width =>
              /\ TileAt(x + 1, y) \in Neighbors(TileAt(x, y))
              /\ TileAt(x, y) \in Neighbors(TileAt(x + 1, y))
         /\ y + 1 < Height =>
              /\ TileAt(x, y + 1) \in Neighbors(TileAt(x, y))
              /\ TileAt(x, y) \in Neighbors(TileAt(x, y + 1))
<1> DEFINE t == TileAt(x, y)
<1>1. Width \in Nat \ {0} /\ Height \in Nat \ {0} /\ x \in Nat /\ y \in Nat
  BY MapIs
<1>2. X(t) = x /\ Y(t) = y
  BY TileIs
<1>3. \A u : \A s \in {"north", "west", "east", "south"} :
        HasSide(u, s) => OnSide(u, s) \in Neighbors(u)
  BY DEF Neighbors
<1>4. ASSUME x + 1 < Width
      PROVE  /\ TileAt(x + 1, y) \in Neighbors(t)
             /\ t \in Neighbors(TileAt(x + 1, y))
  <2> DEFINE u == TileAt(x + 1, y)
  <2>1. x + 1 \in 0 .. Width - 1
    BY <1>1, <1>4
  <2>2. X(u) = x + 1 /\ Y(u) = y
    BY <2>1, TileIs
  <2>3. u = t + 1 /\ t = u - 1
    BY <1>1 DEF TileAt
  <2> HIDE DEF u, t
  <2>4. HasSide(t, "east") /\ OnSide(t, "east") = u
    BY <1>2, <1>4, <2>3 DEF HasSide, OnSide
  <2>5. HasSide(u, "west") /\ OnSide(u, "west") = t
    BY <1>1, <2>2, <2>3 DEF HasSide, OnSide
  <2> QED
    BY <1>3, <2>4, <2>5 DEF u
<1>5. ASSUME y + 1 < Height
      PROVE  /\ TileAt(x, y + 1) \in Neighbors(t)
             /\ t \in Neighbors(TileAt(x, y + 1))
  <2> DEFINE u == TileAt(x, y + 1)
  <2>1. y + 1 \in 0 .. Height - 1
    BY <1>1, <1>5
  <2>2. X(u) = x /\ Y(u) = y + 1
    BY <2>1, TileIs
  <2>3. u = t + Width /\ t = u - Width
    BY <1>1 DEF TileAt
  <2> HIDE DEF u, t
  <2>4. HasSide(t, "south") /\ OnSide(t, "south") = u
    BY <1>2, <1>5, <2>3 DEF HasSide, OnSide
  <2>5. HasSide(u, "north") /\ OnSide(u, "north") = t
    BY <1>1, <2>2, <2>3 DEF HasSide, OnSide
  <2> QED
    BY <1>3, <2>4, <2>5 DEF u
<1> QED
  BY <1>4, <1>5

(* A set closed under the steps from i to i + 1 and back holds a whole     *)
(* stretch of numbers when it holds one of them.                           *)
LEMMA StretchIsWhole ==
  ASSUME NEW a \in Int, NEW b \in Int, NEW P, NEW x \in a .. b, x \in P,
         \A i \in a .. b : i + 1 \in a .. b => (i \in P <=> i + 1 \in P)
  PROVE  a .. b \subseteq P
<1> DEFINE Off(i) == IF i >= x THEN i - x ELSE x - i
           S == {Off(i) : i \in (a .. b) \ P}
<1>1. S \subseteq Nat
  OBVIOUS
<1>2. SUFFICES ASSUME S # {} PROVE FALSE
  OBVIOUS
<1>3. PICK k \in S : \A j \in S : k <= j
  BY <1>1, <1>2, LeastExists
<1>4. PICK i \in (a .. b) \ P : k = Off(i)
  BY <1>3
<1>5. \A j \in a .. b : Off(j) < Off(i) => j \in P
  <2>1. ASSUME NEW j \in a .. b, Off(j) < Off(i), j \notin P
        PROVE  FALSE
    <3>1. Off(j) \in S
      BY <2>1
    <3>2. k <= Off(j)
      BY <1>3, <3>1
    <3> QED
      BY <1>4, <2>1, <3>2
  <2> QED
    BY <2>1
<1>6. i # x
  BY <1>4
<1>7. CASE i > x
  <2>1. i - 1 \in a .. b /\ Off(i - 1) < Off(i) /\ (i - 1) + 1 = i
    BY <1>7
  <2>2. i - 1 \in P
    BY <1>5, <2>1
  <2> QED
    BY <1>4, <2>1, <2>2
<1>8. CASE i < x
  <2>1. i + 1 \in a .. b /\ Off(i + 1) < Off(i)
    BY <1>8
  <2>2. i + 1 \in P
    BY <1>5, <2>1
  <2> QED
    BY <1>4, <2>1, <2>2
<1> QED
  BY <1>6, <1>7, <1>8

(* One step of Reach, and what is closed under it.                         *)
Widened(near, within) ==
  near \cup (within \cap UNION {Neighbors(t) : t \in near})

(* Reach ends with a set that is closed: the function it recurs over is    *)
(* the one that sends a set to the least closed set around it.             *)
LEMMA ReachIsClosed ==
  ASSUME NEW within \in SUBSET Tiles, NEW from \in within
  PROVE  /\ from \in Reach(from, within)
         /\ Reach(from, within) \subseteq within
         /\ Widened(Reach(from, within), within) = Reach(from, within)
         /\ \A C \in SUBSET Tiles : from \in C /\ Widened(C, within) = C =>
              Reach(from, within) \subseteq C
<1> DEFINE W(near) == Widened(near, within)
           Sets == SUBSET Tiles
           Step(g) == [near \in Sets |->
                         IF W(near) = near THEN near ELSE g[W(near)]]
           G == CHOOSE g : g = Step(g)
           Around(near) == {t \in Tiles : \A C \in Sets :
                              near \subseteq C /\ W(C) = C => t \in C}
           H == [near \in Sets |-> Around(near)]
<1>1. \A near \in Sets : W(near) \in Sets /\ near \subseteq W(near)
  BY DEF Widened
<1>2. \A near, C \in Sets : near \subseteq C => W(near) \subseteq W(C)
  BY DEF Widened
<1>3. H = Step(H)
  <2>1. ASSUME NEW near \in Sets
        PROVE  Around(near) = IF W(near) = near THEN near ELSE H[W(near)]
    <3>1. CASE W(near) = near
      BY <3>1
    <3>2. CASE W(near) # near
      <4>1. \A C \in Sets : W(C) = C =>
              (near \subseteq C <=> W(near) \subseteq C)
        <5>1. ASSUME NEW C \in Sets, W(C) = C, near \subseteq C
              PROVE  W(near) \subseteq C
          <6> HIDE DEF W
          <6>1. W(near) \subseteq W(C)
            BY <1>2, <5>1
          <6> QED
            BY <5>1, <6>1
        <5>2. ASSUME NEW C \in Sets, W(near) \subseteq C
              PROVE  near \subseteq C
          <6> HIDE DEF W
          <6> QED
            BY <1>1, <5>2
        <5> QED
          BY <5>1, <5>2
      <4>2. H[W(near)] = Around(W(near))
        BY <1>1
      <4>3. Around(near) = Around(W(near))
        <5> HIDE DEF W
        <5> QED
          BY <4>1
      <4> QED
        BY <3>2, <4>2, <4>3
    <3> QED
      BY <3>1, <3>2
  <2> HIDE DEF Around, W
  <2> QED
    BY <2>1
<1>4. G = Step(G)
  <2> HIDE DEF Step, H
  <2> QED
    BY <1>3
<1>5. Reach(from, within) = G[{from} \cap within]
  BY Zenon DEF Reach, Widened
<1> HIDE DEF G
<1>6. \A near \in Sets :
        G[near] = IF W(near) = near THEN near ELSE G[W(near)]
  <2> HIDE DEF W
  <2> QED
    BY <1>4
<1> HIDE DEF Step
<1> DEFINE Good(near) == /\ near \subseteq G[near] /\ G[near] \subseteq within
                         /\ W(G[near]) = G[near]
                         /\ \A C \in Sets : near \subseteq C /\ W(C) = C =>
                              G[near] \subseteq C
           Left(near) == Cardinality(Tiles \ near)
           Bad == {near \in SUBSET within : ~Good(near)}
<1>7. Bad = {}
  <2> SUFFICES ASSUME Bad # {} PROVE FALSE
    OBVIOUS
  <2> DEFINE S == {Left(near) : near \in Bad}
  <2>1. \A near \in Sets : IsFiniteSet(Tiles \ near) /\ Left(near) \in Nat
    BY MapIs, FS_Difference, FS_CardinalityType
  <2>2. S \subseteq Nat /\ S # {}
    <3> HIDE DEF Good, Left
    <3> QED
      BY <2>1
  <2>3. PICK n \in S : \A m \in S : n <= m
    BY <2>2, LeastExists
  <2>4. PICK near \in Bad : n = Left(near)
    BY <2>3
  <2>5. near \in Sets /\ near \subseteq within /\ ~Good(near)
    BY <2>4
  <2>6. CASE W(near) = near
    <3>1. G[near] = near
      BY <1>6, <2>5, <2>6
    <3> HIDE DEF W
    <3> QED
      BY <2>5, <2>6, <3>1
  <2>7. CASE W(near) # near
    <3>1. /\ W(near) \in SUBSET within /\ W(near) \in Sets
          /\ near \subseteq W(near)
      BY <2>5 DEF Widened
    <3>2. PICK t \in W(near) : t \notin near
      BY <2>7, <3>1
    <3> DEFINE more == Left(W(near))
               all == Left(near)
    <3>0. more \in Nat /\ all \in Nat
      BY <2>1, <2>5, <3>1
    <3>3. Left(W(near)) < Left(near)
      <4>1. Tiles \ W(near) \subseteq (Tiles \ near) \ {t} /\ t \in Tiles \ near
        BY <3>1, <3>2
      <4>2. IsFiniteSet(Tiles \ near)
        BY <2>1, <2>5
      <4> DEFINE V == Tiles \ near
      <4>3. IsFiniteSet(V \ {t}) /\ Cardinality(V \ {t}) = Left(near) - 1
        <5>1. t \in V /\ IsFiniteSet(V) /\ Left(near) = Cardinality(V)
          BY <4>1, <4>2
        <5> HIDE DEF V, Left
        <5> QED
          BY <5>1, FS_RemoveElement
      <4>4. Left(W(near)) <= Left(near) - 1
        BY <4>1, <4>3, FS_Subset
      <4> HIDE DEF more, all
      <4>5. more <= all - 1
        BY <4>4 DEF more, all
      <4>6. more < all
        BY <3>0, <4>5
      <4> QED
        BY <4>6 DEF more, all
    <3>4. W(near) \notin Bad
      <4>1. ASSUME W(near) \in Bad
            PROVE  FALSE
        <5>1. Left(W(near)) \in S
          BY <4>1
        <5>2. n <= Left(W(near))
          BY <2>3, <5>1
        <5> HIDE DEF more, all
        <5>3. all <= more /\ more < all
          BY <2>4, <3>3, <5>2 DEF more, all
        <5> QED
          BY <3>0, <5>3
      <4> QED
        BY <4>1
    <3>5. Good(W(near)) /\ G[near] = G[W(near)]
      BY <1>6, <2>5, <2>7, <3>1, <3>4
    <3>6. \A C \in Sets : near \subseteq C /\ W(C) = C => W(near) \subseteq C
      <4>1. ASSUME NEW C \in Sets, near \subseteq C, W(C) = C
            PROVE  W(near) \subseteq C
        <5> HIDE DEF W
        <5>1. W(near) \subseteq W(C)
          BY <1>2, <2>5, <4>1
        <5> QED
          BY <4>1, <5>1
      <4> HIDE DEF W
      <4> QED
        BY <4>1
    <3> HIDE DEF W
    <3> QED
      BY <2>5, <3>1, <3>5, <3>6
  <2> QED
    BY <2>6, <2>7
<1>8. {from} \cap within = {from} /\ {from} \in SUBSET within
  OBVIOUS
<1>9. Good({from})
  BY <1>7, <1>8
<1> QED
  BY <1>5, <1>8, <1>9

-----------------------------------------------------------------------------
LEMMA EndsOfRow ==
  ASSUME NEW row \in SUBSET (0 .. Width - 1), row # {}
  PROVE  Westmost(row) \in row /\ Eastmost(row) \in row
<1>1. Width \in Nat \ {0}
  BY MapIs
<1>2. PICK i \in row : \A j \in row : i <= j
  <2>1. row \subseteq Nat
    BY <1>1
  <2> QED
    BY <2>1, LeastExists
<1>3. Westmost(row) \in row
  BY <1>2 DEF Westmost
<1>4. \E j \in row : \A i2 \in row : j >= i2
  <2> DEFINE S == {Width - i2 : i2 \in row}
  <2>1. S \subseteq Nat /\ S # {}
    BY <1>1
  <2>2. PICK m \in S : \A n \in S : m <= n
    BY <2>1, LeastExists
  <2>3. PICK j \in row : m = Width - j
    BY <2>2
  <2>4. ASSUME NEW i2 \in row
        PROVE  j >= i2
    <3>1. Width - j <= Width - i2
      BY <2>2, <2>3
    <3>2. j \in Int /\ i2 \in Int
      OBVIOUS
    <3> QED
      BY <1>1, <3>1, <3>2
  <2> QED
    BY <2>4
<1>5. Eastmost(row) \in row
  BY <1>4 DEF Eastmost
<1> QED
  BY <1>3, <1>5

(* A row of the coast is one stretch that meets the row before: a closed   *)
(* set with one tile of land has its row, the rows beside it, and so all.  *)
LEMMA CoastIsOnePiece ==
  ASSUME NEW w, CoastLand(w)
  PROVE  Reach(CHOOSE t \in Land(w) : TRUE, Land(w)) = Land(w)
<1> DEFINE first == CHOOSE t \in Land(w) : TRUE
           R == Reach(first, Land(w))
           Rows == {y \in 0 .. Height - 1 :
                      \A x \in Row(w, y) : TileAt(x, y) \in R}
<1>1. /\ \A y \in 0 .. Height - 1 :
           Row(w, y) # {} /\ Row(w, y) = Westmost(Row(w, y)) .. Eastmost(Row(w, y))
      /\ \A y \in 1 .. Height - 1 : Meets(w, y)
  BY DEF CoastLand
<1>2. Width \in Nat \ {0} /\ Height \in Nat \ {0}
  BY MapIs
<1>3. \A y \in 0 .. Height - 1 : Row(w, y) \subseteq 0 .. Width - 1
  BY DEF Row
<1>4. \A y \in 0 .. Height - 1, x \in 0 .. Width - 1 :
        x \in Row(w, y) <=> TileAt(x, y) \in Land(w)
  BY TileIs DEF Row, Land
<1>5. Land(w) \in SUBSET Tiles
  BY DEF Land
<1>6. first \in Land(w)
  <2>1. 0 \in 0 .. Height - 1
    BY <1>2
  <2>2. PICK x \in Row(w, 0) : TRUE
    BY <1>1, <2>1
  <2>3. TileAt(x, 0) \in Land(w)
    BY <1>3, <1>4, <2>1, <2>2
  <2> QED
    BY <2>3
<1> HIDE DEF first
<1>7. first \in R /\ R \subseteq Land(w) /\ Widened(R, Land(w)) = R
  BY <1>5, <1>6, ReachIsClosed
<1> HIDE DEF R
<1>8. \A t \in R, u \in Land(w) : u \in Neighbors(t) => u \in R
  BY <1>7 DEF Widened
\* one tile of a row brings the row
<1>9. ASSUME NEW y \in 0 .. Height - 1, NEW x \in Row(w, y), TileAt(x, y) \in R
      PROVE  y \in Rows
  <2> DEFINE a == Westmost(Row(w, y))
             b == Eastmost(Row(w, y))
             P == {i \in a .. b : TileAt(i, y) \in R}
  <2>1. Row(w, y) = a .. b /\ a .. b \subseteq 0 .. Width - 1
    BY <1>1, <1>3
  <2> HIDE DEF a, b
  <2>2. a \in Int /\ b \in Int
    <3>1. a \in Row(w, y) /\ b \in Row(w, y)
      BY <1>1, <1>3, EndsOfRow DEF a, b
    <3> QED
      BY <1>3, <3>1
  <2>3. x \in a .. b /\ x \in P
    BY <1>9, <2>1
  <2>4. ASSUME NEW i \in a .. b, i + 1 \in a .. b
        PROVE  i \in P <=> i + 1 \in P
    <3>1. /\ i \in 0 .. Width - 1 /\ i + 1 \in 0 .. Width - 1 /\ i + 1 < Width
          /\ i \in Row(w, y) /\ i + 1 \in Row(w, y)
      BY <1>2, <2>1, <2>4
    <3>2. TileAt(i, y) \in Land(w) /\ TileAt(i + 1, y) \in Land(w)
      BY <1>4, <3>1
    <3>3. /\ TileAt(i + 1, y) \in Neighbors(TileAt(i, y))
          /\ TileAt(i, y) \in Neighbors(TileAt(i + 1, y))
      BY <3>1, BesideIs
    <3> QED
      BY <1>8, <2>4, <3>2, <3>3
  <2> HIDE DEF P
  <2>5. a .. b \subseteq P
    BY <2>2, <2>3, <2>4, StretchIsWhole
  <2> QED
    BY <2>1, <2>5 DEF P
\* a row brings the next, and the next it
<1>10. ASSUME NEW y \in 0 .. Height - 1, y + 1 \in 0 .. Height - 1
       PROVE  y \in Rows <=> y + 1 \in Rows
  <2> DEFINE a == Westmost(Row(w, y))
             b == Eastmost(Row(w, y))
             c == Westmost(Row(w, y + 1))
             d == Eastmost(Row(w, y + 1))
  <2>1. /\ Row(w, y) = a .. b /\ a .. b # {} /\ a .. b \subseteq 0 .. Width - 1
        /\ Row(w, y + 1) = c .. d /\ c .. d # {} /\ c .. d \subseteq 0 .. Width - 1
    BY <1>1, <1>3, <1>10
  <2>2. d >= a /\ c <= b
    <3>1. y + 1 \in 1 .. Height - 1 /\ (y + 1) - 1 = y
      BY <1>2, <1>10
    <3>2. Meets(w, y + 1)
      BY <1>1, <3>1
    <3> QED
      BY <3>1, <3>2 DEF Meets
  <2> HIDE DEF a, b, c, d
  <2>3. PICK x \in 0 .. Width - 1 : x \in a .. b /\ x \in c .. d
    <3>0. /\ a \in Row(w, y) /\ b \in Row(w, y)
          /\ c \in Row(w, y + 1) /\ d \in Row(w, y + 1)
      BY <1>1, <1>3, <1>10, EndsOfRow DEF a, b, c, d
    <3>1. a \in Int /\ b \in Int /\ c \in Int /\ d \in Int
      BY <1>3, <1>10, <3>0
    <3> QED
      BY <2>1, <2>2, <3>1
  <2>4. TileAt(x, y) \in Land(w) /\ TileAt(x, y + 1) \in Land(w)
    BY <1>4, <1>10, <2>1, <2>3
  <2>5. /\ TileAt(x, y + 1) \in Neighbors(TileAt(x, y))
        /\ TileAt(x, y) \in Neighbors(TileAt(x, y + 1))
    <3>1. y + 1 < Height
      BY <1>2, <1>10
    <3> QED
      BY <3>1, BesideIs
  <2>6. y \in Rows => y + 1 \in Rows
    <3>1. SUFFICES ASSUME y \in Rows PROVE y + 1 \in Rows
      OBVIOUS
    <3>2. TileAt(x, y) \in R
      BY <2>1, <2>3, <3>1
    <3>3. TileAt(x, y + 1) \in R
      BY <1>8, <2>4, <2>5, <3>2
    <3> QED
      BY <1>9, <1>10, <2>1, <2>3, <3>3
  <2>7. y + 1 \in Rows => y \in Rows
    <3>1. SUFFICES ASSUME y + 1 \in Rows PROVE y \in Rows
      OBVIOUS
    <3>2. TileAt(x, y + 1) \in R
      BY <2>1, <2>3, <3>1
    <3>3. TileAt(x, y) \in R
      BY <1>8, <2>4, <2>5, <3>2
    <3> QED
      BY <1>9, <2>1, <2>3, <3>3
  <2> QED
    BY <2>6, <2>7
<1>11. Y(first) \in Rows /\ Y(first) \in 0 .. Height - 1
  <2>1. first \in Tiles
    BY <1>5, <1>6
  <2>2. /\ X(first) \in 0 .. Width - 1 /\ Y(first) \in 0 .. Height - 1
        /\ first = TileAt(X(first), Y(first))
    BY <2>1, RowAndColumn
  <2>3. X(first) \in Row(w, Y(first))
    BY <1>4, <1>6, <2>2
  <2> QED
    BY <1>7, <1>9, <2>2, <2>3
<1>12. 0 .. Height - 1 \subseteq Rows
  <2> HIDE DEF Rows
  <2>1. 0 \in Int /\ Height - 1 \in Int
    BY <1>2
  <2> QED
    BY <1>10, <1>11, <2>1, StretchIsWhole
<1>13. ASSUME NEW t \in Land(w)
       PROVE  t \in R
  <2>1. t \in Tiles
    BY <1>5
  <2>2. /\ X(t) \in 0 .. Width - 1 /\ Y(t) \in 0 .. Height - 1
        /\ t = TileAt(X(t), Y(t))
    BY <2>1, RowAndColumn
  <2>3. X(t) \in Row(w, Y(t))
    BY <1>4, <2>2
  <2> QED
    BY <1>12, <2>2, <2>3
<1> QED
  BY <1>7, <1>13 DEF R, first

(* The note of fd_world_validate is a tile at fault, or Nowhere.           *)
LEMMA FirstFailedIs ==
  ASSUME NEW w
  PROVE  IF FaultyTiles(w) = {} THEN FirstFailed(w) = Nowhere
         ELSE FirstFailed(w) \in FaultyTiles(w) /\ FirstFailed(w) # Nowhere
<1>1. /\ Overwriting(w) \subseteq Tiles /\ NotATerrain(w) \subseteq Tiles
      /\ FaultyTiles(w) = Overwriting(w) \cup NotATerrain(w)
  BY DEF Overwriting, NotATerrain, FaultyTiles
<1>2. CASE Overwriting(w) # {}
  <2> DEFINE area == Width * Height
             S == {area - t : t \in Overwriting(w)}
  <2>1. S \subseteq Nat /\ S # {} /\ area \in Nat
    BY <1>1, <1>2, MapIs
  <2>2. PICK m \in S : \A n \in S : m <= n
    BY <2>1, LeastExists
  <2>3. PICK t \in Overwriting(w) : m = area - t
    BY <2>2
  <2>4. ASSUME NEW s \in Overwriting(w)
        PROVE  t >= s
    <3>1. area - t <= area - s
      BY <2>2, <2>3
    <3>2. t \in Nat /\ s \in Nat
      BY <1>1, <2>3, MapIs
    <3> HIDE DEF area
    <3> QED
      BY <2>1, <3>1, <3>2
  <2>5. FirstFailed(w) \in Overwriting(w)
    BY <1>2, <2>4 DEF FirstFailed
  <2> QED
    BY <1>1, <2>5, NowhereAssumption
<1>3. CASE Overwriting(w) = {} /\ NotATerrain(w) # {}
  <2>1. PICK t \in NotATerrain(w) : \A s \in NotATerrain(w) : t <= s
    BY <1>1, <1>3, MapIs, LeastExists
  <2>2. FirstFailed(w) \in NotATerrain(w)
    BY <1>3, <2>1 DEF FirstFailed
  <2> QED
    BY <1>1, <2>2, NowhereAssumption
<1>4. CASE Overwriting(w) = {} /\ NotATerrain(w) = {}
  BY <1>1, <1>4 DEF FirstFailed
<1> QED
  BY <1>2, <1>3, <1>4

-----------------------------------------------------------------------------
(* What each invariant of fd_world_validate stands for when it passes.     *)
LEMMA PassedIs ==
  ASSUME NEW w
  PROVE  /\ "LAND_COAST" \in Passed(w) => FirstFailed(w) = Nowhere /\ CoastLand(w)
         /\ "TERRAIN_COVERAGE" \in Passed(w) => Coverage(w)
         /\ "SETTLEMENTS" \in Passed(w) =>
              Outlet(w) # Nowhere /\ Settlements(w, Outlet(w))
         /\ "ROAD_CORRIDOR" \in Passed(w) => Road(w)
         /\ "OWNERSHIP" \in Passed(w) =>
              OwnershipGraph(w, IF Outlet(w) = Nowhere THEN 0
                                ELSE Cardinality(w.river),
                             IF Road(w) THEN Cardinality(w.road) ELSE 0,
                             Outlet(w))
<1> DEFINE outlet == Outlet(w)
           river_count == IF outlet = Nowhere THEN 0 ELSE Cardinality(w.river)
           road_holds == Road(w)
           road_count == IF road_holds THEN Cardinality(w.road) ELSE 0
           graph == /\ outlet # Nowhere
                    /\ OwnershipGraph(w, river_count, road_count, outlet)
           reachable == road_holds /\ w.road_tile_count = road_count
           verdict(i) ==
             CASE i = "BOUNDS" -> TRUE
               [] i = "LAND_COAST" ->
                    /\ FirstFailed(w) = Nowhere /\ CoastLand(w)
                    /\ w.land_tile_count = Cardinality(Land(w))
               [] i = "TERRAIN_COVERAGE" -> Coverage(w)
               [] i = "HYDROLOGY" ->
                    outlet # Nowhere /\ w.river_tile_count = river_count
               [] i = "SETTLEMENTS" -> outlet # Nowhere /\ Settlements(w, outlet)
               [] i \in {"ROAD_CORRIDOR", "OBJECTIVE_REACHABLE"} -> reachable
               [] i \in {"OWNERSHIP", "GRAPH_TILE_AGREEMENT"} -> graph
<1>1. Passed(w) = {i \in Invariants : [j \in Invariants |-> verdict(j)][i]}
  BY Zenon DEF Passed
<1>2. \A i \in Invariants : i \in Passed(w) => verdict(i)
  <2> HIDE DEF verdict
  <2> QED
    BY <1>1
<1> HIDE DEF outlet, river_count, road_holds, road_count
<1>3. "LAND_COAST" \in Passed(w) => FirstFailed(w) = Nowhere /\ CoastLand(w)
  BY <1>2 DEF Invariants
<1>4. "TERRAIN_COVERAGE" \in Passed(w) => Coverage(w)
  BY <1>2 DEF Invariants
<1>5. "SETTLEMENTS" \in Passed(w) => outlet # Nowhere /\ Settlements(w, outlet)
  BY <1>2 DEF Invariants
<1>6. "ROAD_CORRIDOR" \in Passed(w) => road_holds
  BY <1>2 DEF Invariants
<1>7. "OWNERSHIP" \in Passed(w)
        => OwnershipGraph(w, river_count, road_count, outlet)
  BY <1>2 DEF Invariants
<1> QED
  BY <1>3, <1>4, <1>5, <1>6, <1>7
  DEF outlet, river_count, road_holds, road_count

(* A tile one step away by rows and columns is a neighbor.                 *)
LEMMA OneStepAway ==
  ASSUME NEW s \in Tiles, NEW t \in Tiles, Manhattan(s, t) = 1
  PROVE  t \in Neighbors(s)
<1> DEFINE x == X(s)
           y == Y(s)
           u == X(t)
           v == Y(t)
<1>1. /\ x \in 0 .. Width - 1 /\ y \in 0 .. Height - 1 /\ s = TileAt(x, y)
      /\ u \in 0 .. Width - 1 /\ v \in 0 .. Height - 1 /\ t = TileAt(u, v)
  BY RowAndColumn
<1>2. Apart(x, u) + Apart(y, v) = 1
  BY DEF Manhattan
<1>3. Width \in Nat \ {0} /\ Height \in Nat \ {0}
  BY MapIs
<1> HIDE DEF x, y, u, v
<1>4. \/ u = x + 1 /\ v = y
      \/ x = u + 1 /\ v = y
      \/ u = x /\ v = y + 1
      \/ u = x /\ y = v + 1
  BY <1>1, <1>2, <1>3 DEF Apart
<1>5. CASE u = x + 1 /\ v = y
  <2>1. x + 1 < Width
    BY <1>1, <1>3, <1>5
  <2> QED
    BY <1>1, <1>5, <2>1, BesideIs
<1>6. CASE x = u + 1 /\ v = y
  <2>1. u + 1 < Width
    BY <1>1, <1>3, <1>6
  <2> QED
    BY <1>1, <1>6, <2>1, BesideIs
<1>7. CASE u = x /\ v = y + 1
  <2>1. y + 1 < Height
    BY <1>1, <1>3, <1>7
  <2> QED
    BY <1>1, <1>7, <2>1, BesideIs
<1>8. CASE u = x /\ y = v + 1
  <2>1. v + 1 < Height
    BY <1>1, <1>3, <1>8
  <2> QED
    BY <1>1, <1>8, <2>1, BesideIs
<1> QED
  BY <1>4, <1>5, <1>6, <1>7, <1>8

LEMMA OnlyOne ==
  ASSUME NEW S, IsFiniteSet(S), Cardinality(S) = 1
  PROVE  \E e : S = {e}
<1>1. S # {}
  BY FS_EmptySet
<1>2. PICK e \in S : TRUE
  BY <1>1
<1>3. IsFiniteSet(S \ {e}) /\ Cardinality(S \ {e}) = 0
  BY <1>2, FS_RemoveElement
<1>4. S \ {e} = {}
  BY <1>3, FS_EmptySet
<1> QED
  BY <1>2, <1>4

LEMMA OnlyTwo ==
  ASSUME NEW S, IsFiniteSet(S), Cardinality(S) = 2,
         NEW a \in S, NEW b \in S, a # b
  PROVE  S = {a, b}
<1>1. IsFiniteSet(S \ {a}) /\ Cardinality(S \ {a}) = 1
  BY FS_RemoveElement
<1>2. PICK e : S \ {a} = {e}
  BY <1>1, OnlyOne
<1> QED
  BY <1>2

(* What a world holds in the places of its region, of any save and any     *)
(* generation.                                                             *)
Placed(w) ==
  /\ w.outlets \subseteq Tiles
  /\ Coastal(w).at \in Tiles \cup {Nowhere}
  /\ Inland(w).at \in Tiles \cup {Nowhere}

NamesItsTiles(w) ==
  LET r == w.region
  IN  /\ {t \in Tiles : w.settlement_id[t] # 0} =
            {r.road_start_tile_id, r.road_end_tile_id}
      /\ w.settlement_id[r.road_start_tile_id] = r.settlement_ids[1]
      /\ w.settlement_id[r.road_end_tile_id] = r.settlement_ids[2]
      /\ w.terrain[r.road_start_tile_id] = "SETTLEMENT"
      /\ w.terrain[r.road_end_tile_id] = "SETTLEMENT"
      /\ w.outlets = {r.river_outlet_tile_id}
      /\ r.river_outlet_tile_id \in Neighbors(r.road_start_tile_id)
      /\ r.river_tile_count = Cardinality(w.river)
      /\ r.road_tile_count = Cardinality(w.road)

LEMMA PassingNamesTiles ==
  ASSUME NEW w, Placed(w), Passed(w) = Invariants
  PROVE  NamesItsTiles(w)
<1> DEFINE outlet == Outlet(w)
           a == Coastal(w).at
           b == Inland(w).at
           r == w.region
<1>1. /\ outlet # Nowhere /\ Settlements(w, outlet) /\ Road(w)
      /\ OwnershipGraph(w, Cardinality(w.river), Cardinality(w.road), outlet)
  BY PassedIs DEF Invariants
<1>2. River(w) /\ outlet = CHOOSE t \in w.outlets : TRUE
  BY <1>1 DEF Outlet
<1>3. w.outlets = {outlet} /\ outlet \in Tiles
  <2>1. IsFiniteSet(w.outlets)
    BY MapIs, FS_Subset DEF Placed
  <2>2. Cardinality(w.outlets) = 1
    BY <1>2 DEF River
  <2>3. PICK e : w.outlets = {e}
    BY <2>1, <2>2, OnlyOne
  <2> QED
    BY <1>2, <2>3 DEF Placed
<1>4. /\ r.river_outlet_tile_id = outlet
      /\ r.road_start_tile_id = a /\ r.road_end_tile_id = b
      /\ r.settlement_ids = <<2, 3>>
      /\ r.river_tile_count = Cardinality(w.river)
      /\ r.road_tile_count = Cardinality(w.road)
      /\ Coastal(w).id = 2 /\ Inland(w).id = 3
  BY <1>1 DEF OwnershipGraph, Coastal, Inland
<1>5. a \in Tiles /\ b \in Tiles
  BY <1>1 DEF Settlements, Placed
<1>6. /\ w.terrain[a] = "SETTLEMENT" /\ w.settlement_id[a] = 2
      /\ w.terrain[b] = "SETTLEMENT" /\ w.settlement_id[b] = 3
      /\ Manhattan(a, outlet) = 1
      /\ \A t \in Tiles : w.terrain[t] # "SETTLEMENT" => w.settlement_id[t] = 0
      /\ Cardinality({t \in Tiles : w.terrain[t] = "SETTLEMENT"}) = 2
  BY <1>1, <1>4 DEF Settlements
<1>7. outlet \in Neighbors(a)
  BY <1>3, <1>5, <1>6, OneStepAway
<1>8. {t \in Tiles : w.terrain[t] = "SETTLEMENT"} = {a, b}
  <2> DEFINE S == {t \in Tiles : w.terrain[t] = "SETTLEMENT"}
  <2>1. IsFiniteSet(S) /\ Cardinality(S) = 2 /\ a \in S /\ b \in S /\ a # b
    BY <1>5, <1>6, MapIs, FS_Subset
  <2> HIDE DEF S, a, b
  <2>2. S = {a, b}
    BY <2>1, OnlyTwo
  <2> QED
    BY <2>2 DEF S
<1>9. {t \in Tiles : w.settlement_id[t] # 0} = {a, b}
  BY <1>5, <1>6, <1>8
<1> HIDE DEF outlet, a, b
<1> QED
  BY <1>3, <1>4, <1>6, <1>7, <1>9 DEF NamesItsTiles

-----------------------------------------------------------------------------
(* The report is of the world as it stands: no phase follows validation.   *)
ReportKept ==
  report # ZeroReport =>
    report = Report(world) /\ phase \in {"OK", "INVARIANT", "loaded"}
PlacesKept ==
  /\ phase # "loaded" => choice \in Choices
  /\ {"outlets", "entities"} \subseteq DOMAIN world
  /\ Placed(world)
CandidateIInv == ReportKept /\ PlacesKept

(* Rows and columns drawn lie on the map.                                  *)
LEMMA DrawnIsOnMap ==
  ASSUME choice \in Choices
  PROVE  /\ TileAt(CoastalX, OutletY) \in Tiles
         /\ CoastalTile \in Tiles /\ InlandTile \in Tiles
<1>1. /\ Width \in Nat /\ Height \in Nat /\ Width >= 32 /\ Height >= 16
      /\ choice \in ChoiceType
  BY CandidateAssumption, MapIs
<1>2. choice.outlet \in Nat /\ choice.west \in BOOLEAN
  <2>1. OutletRange \in Int
    BY <1>1 DEF OutletRange
  <2> QED
    BY <1>1, <2>1 DEF ChoiceType
<1>3. BaseWater \in 0 .. Width - 1
  BY <1>1 DEF BaseWater
<1>4. CoastalX \in 0 .. Width - 1
  BY <1>1, <1>3 DEF CoastalX, CoastX
<1>5. OutletY \in 0 .. Height - 2
  BY <1>1, <1>2 DEF OutletY
<1>6. OutletY \in 0 .. Height - 1 /\ CoastalY \in 0 .. Height - 1
  BY <1>1, <1>5 DEF CoastalY
<1>7. InlandX \in 0 .. Width - 1 /\ InlandY \in 0 .. Height - 1
  BY <1>1 DEF InlandX, InlandY
<1> QED
  BY <1>4, <1>6, <1>7, TileIs DEF CoastalTile, InlandTile

LEMMA CandidateStarts == CandidateInit => CandidateIInv
<1> SUFFICES ASSUME CandidateInit PROVE CandidateIInv
  OBVIOUS
<1>1. report = ZeroReport
  BY DEF CandidateInit
<1>2. CASE GeneratedInit
  <2>1. choice \in Choices /\ world = Blank
    BY <1>2 DEF GeneratedInit
  <2>2. /\ {"outlets", "entities"} \subseteq DOMAIN Blank
        /\ Blank.outlets = {} /\ Blank.entities = [i \in 1 .. 6 |-> NoEntity]
    BY DEF Blank
  <2>3. Coastal(Blank).at = Nowhere /\ Inland(Blank).at = Nowhere
    BY <2>2 DEF Coastal, Inland, NoEntity
  <2> QED
    BY <1>1, <2>1, <2>2, <2>3 DEF CandidateIInv, ReportKept, PlacesKept, Placed
<1>3. CASE LoadedInit
  <2>1. world \in Worlds /\ phase = "loaded"
    BY <1>3, MapsAssumption DEF LoadedInit
  <2>2. /\ {"outlets", "entities"} \subseteq DOMAIN world
        /\ world.outlets \subseteq Tiles
        /\ world.entities \in [1 .. 6 -> Entities]
    BY <2>1 DEF Worlds
  <2>3. Coastal(world) \in Entities /\ Inland(world) \in Entities
    BY <2>2 DEF Coastal, Inland
  <2> QED
    BY <1>1, <2>1, <2>2, <2>3
    DEF CandidateIInv, ReportKept, PlacesKept, Placed, Entities
<1> QED
  BY <1>2, <1>3 DEF CandidateInit

(* A phase that writes neither outlets nor entities.                       *)
LEMMA OtherPartsKeep ==
  ASSUME CandidateIInv, phase # "loaded", phase' # "loaded",
         phase \notin {"OK", "INVARIANT"},
         UNCHANGED <<report, choice>>,
         DOMAIN world' = DOMAIN world,
         world'.outlets = world.outlets, world'.entities = world.entities
  PROVE  CandidateIInv'
BY DEF CandidateIInv, ReportKept, PlacesKept, Placed, Coastal, Inland

LEMMA TowardsIs ==
  ASSUME NEW a \in Int, NEW b \in Int
  PROVE  Towards(a, b) \in Seq(Int)
<1>1. Apart(a, b) \in Nat
  BY DEF Apart
<1>2. \A i \in 1 .. Apart(a, b) : a + i \in Int /\ a - i \in Int
  BY <1>1
<1> DEFINE n == Apart(a, b)
<1> HIDE DEF n
<1>3. Towards(a, b) = [i \in 1 .. n |-> IF a <= b THEN a + i ELSE a - i]
  BY DEF Towards, n
<1>4. n \in Nat /\ \A i \in 1 .. n : a + i \in Int /\ a - i \in Int
  BY <1>1, <1>2 DEF n
<1>5. Towards(a, b) \in [1 .. n -> Int]
  BY <1>3, <1>4
<1> QED
  BY <1>4, <1>5

LEMMA StartKept ==
  ASSUME NEW a \in Int, NEW s \in Seq(Int), NEW t \in Seq(Int),
         NEW u \in Seq(Int)
  PROVE  (<<a>> \o s \o t \o u)[1] = a
<1>1. <<a>> \o s \in Seq(Int) /\ Len(<<a>> \o s) >= 1 /\ (<<a>> \o s)[1] = a
  OBVIOUS
<1> DEFINE v == <<a>> \o s
<1> HIDE DEF v
<1>2. v \in Seq(Int) /\ Len(v) >= 1 /\ v[1] = a
  BY <1>1 DEF v
<1>3. v \o t \in Seq(Int) /\ Len(v \o t) >= 1 /\ (v \o t)[1] = a
  BY <1>2
<1> DEFINE w == v \o t
<1> HIDE DEF w
<1>4. w \in Seq(Int) /\ Len(w) >= 1 /\ w[1] = a
  BY <1>3 DEF w
<1>5. (w \o u)[1] = a
  BY <1>4
<1> QED
  BY <1>5 DEF w, v

LEMMA CourseStarts ==
  ASSUME choice \in Choices
  PROVE  Course[1] = TileAt(CoastalX, OutletY)
<1>1. /\ Width \in Nat /\ Height \in Nat /\ Width >= 32 /\ Height >= 16
      /\ choice \in ChoiceType
  BY CandidateAssumption, MapIs
<1>2. /\ choice.outlet \in Int /\ choice.source \in Int
      /\ choice.river_tie \in Int
  <2>1. OutletRange \in Int
    BY <1>1 DEF OutletRange
  <2> QED
    BY <1>1, <2>1 DEF ChoiceType
<1>3. CoastalX \in Int
  BY <1>1 DEF CoastalX, CoastX, BaseWater
<1>4. OutletY \in Int
  BY <1>1, <1>2 DEF OutletY
<1>5. SourceX \in Int /\ SourceY \in Int
  BY <1>1, <1>2, <1>4 DEF SourceX, SourceY, CoastalY
<1>6. BendX \in Int
  BY <1>2, <1>3, <1>5 DEF BendX
<1> DEFINE
  first == Towards(CoastalX, BendX)
  bend == Towards(OutletY, SourceY)
  last == Towards(BendX, SourceX)
  s == [i \in 1 .. Len(first) |-> TileAt(first[i], OutletY)]
  t == [i \in 1 .. Len(bend) |-> TileAt(BendX, bend[i])]
  u == [i \in 1 .. Len(last) |-> TileAt(last[i], SourceY)]
<1>7. /\ \A i \in Int : TileAt(i, OutletY) \in Int
      /\ \A i \in Int : TileAt(BendX, i) \in Int
      /\ \A i \in Int : TileAt(i, SourceY) \in Int
      /\ TileAt(CoastalX, OutletY) \in Int
  BY <1>1, <1>3, <1>4, <1>5, <1>6 DEF TileAt
<1>8. first \in Seq(Int) /\ bend \in Seq(Int) /\ last \in Seq(Int)
  BY <1>3, <1>4, <1>5, <1>6, TowardsIs
<1> HIDE DEF first, bend, last
<1>9. /\ \A i \in 1 .. Len(first) : TileAt(first[i], OutletY) \in Int
      /\ \A i \in 1 .. Len(bend) : TileAt(BendX, bend[i]) \in Int
      /\ \A i \in 1 .. Len(last) : TileAt(last[i], SourceY) \in Int
  <2>1. ASSUME NEW q \in Seq(Int), NEW i \in 1 .. Len(q) PROVE q[i] \in Int
    OBVIOUS
  <2>2. /\ \A i \in 1 .. Len(first) : first[i] \in Int
        /\ \A i \in 1 .. Len(bend) : bend[i] \in Int
        /\ \A i \in 1 .. Len(last) : last[i] \in Int
    BY <1>8, <2>1, Zenon
  <2> HIDE DEF s, t, u
  <2> QED
    BY <1>7, <2>2, Zenon
<1>10. s \in Seq(Int) /\ t \in Seq(Int) /\ u \in Seq(Int)
  BY <1>8, <1>9
<1> HIDE DEF s, t, u
<1>11. (<<TileAt(CoastalX, OutletY)>> \o s \o t \o u)[1] = TileAt(CoastalX, OutletY)
  BY <1>7, <1>10, StartKept
<1> QED
  BY <1>11, Zenon DEF Course, first, bend, last, s, t, u

LEMMA RiverKeeps == CandidateIInv /\ ConstructRiver => CandidateIInv'
<1> SUFFICES ASSUME CandidateIInv, ConstructRiver PROVE CandidateIInv'
  OBVIOUS
<1>1. /\ phase = "river" /\ phase' \in {"biome", "HYDROLOGY"}
      /\ UNCHANGED <<report, choice>>
  BY DEF ConstructRiver
<1>2. choice \in Choices /\ {"outlets", "entities"} \subseteq DOMAIN world
  BY <1>1 DEF CandidateIInv, PlacesKept
<1>3. \/ UNCHANGED world
      \/ /\ DOMAIN world' = DOMAIN world
         /\ world'.outlets = {Course[1]} /\ world'.entities = world.entities
  BY <1>2 DEF ConstructRiver
<1>4. CASE UNCHANGED world
  BY <1>1, <1>4, OtherPartsKeep
<1>5. CASE /\ DOMAIN world' = DOMAIN world
           /\ world'.outlets = {Course[1]} /\ world'.entities = world.entities
  <2>1. Course[1] = TileAt(CoastalX, OutletY)
    BY <1>2, CourseStarts
  <2>2. world'.outlets \subseteq Tiles
    BY <1>2, <1>5, <2>1, DrawnIsOnMap
  <2> QED
    BY <1>1, <1>2, <1>5, <2>2
    DEF CandidateIInv, ReportKept, PlacesKept, Placed, Coastal, Inland
<1> QED
  BY <1>3, <1>4, <1>5

LEMMA EntitiesKeep == CandidateIInv /\ InitializeEntities => CandidateIInv'
<1> SUFFICES ASSUME CandidateIInv, InitializeEntities PROVE CandidateIInv'
  OBVIOUS
<1>1. /\ phase = "entities" /\ phase' = "road" /\ UNCHANGED <<report, choice>>
  BY DEF InitializeEntities
<1>2. choice \in Choices /\ {"outlets", "entities"} \subseteq DOMAIN world
  BY <1>1 DEF CandidateIInv, PlacesKept
<1>3. /\ DOMAIN world' = DOMAIN world /\ world'.outlets = world.outlets
      /\ world'.entities = [i \in 1 .. 6 |->
          [id |-> i, kind |-> Kinds[i], region_id |-> 1, named |-> TRUE,
           owner_id |-> IF i \in {5, 6} THEN i ELSE 4,
           at |-> CASE i = 2 -> CoastalTile [] i = 3 -> InlandTile
                    [] OTHER -> Nowhere]]
  BY <1>2 DEF InitializeEntities
<1>4. world'.entities[2].at = CoastalTile /\ world'.entities[3].at = InlandTile
  BY <1>3
<1>5. CoastalTile \in Tiles /\ InlandTile \in Tiles
  BY <1>2, DrawnIsOnMap
<1> QED
  BY <1>1, <1>2, <1>3, <1>4, <1>5
  DEF CandidateIInv, ReportKept, PlacesKept, Placed, Coastal, Inland

LEMMA PhasesKeep ==
  CandidateIInv /\ (Coast \/ AssignBiomes \/ ConstructMissing \/ ConstructRoad)
    => CandidateIInv'
<1> SUFFICES ASSUME CandidateIInv,
                    Coast \/ AssignBiomes \/ ConstructMissing \/ ConstructRoad
             PROVE  CandidateIInv'
  OBVIOUS
<1>1. {"outlets", "entities"} \subseteq DOMAIN world
  BY DEF CandidateIInv, PlacesKept
<1>2. CASE Coast
  BY <1>1, <1>2, OtherPartsKeep DEF Coast
<1>3. CASE AssignBiomes
  BY <1>1, <1>3, OtherPartsKeep DEF AssignBiomes
<1>4. CASE ConstructMissing
  BY <1>1, <1>4, OtherPartsKeep DEF ConstructMissing
<1>5. CASE ConstructRoad
  <2>1. /\ phase = "road" /\ phase' \in {"ROAD_CORRIDOR", "validate"}
        /\ UNCHANGED <<report, choice>>
    BY <1>5 DEF ConstructRoad
  <2>2. /\ DOMAIN world' = DOMAIN world /\ world'.outlets = world.outlets
        /\ world'.entities = world.entities
    BY <1>1, <1>5 DEF ConstructRoad
  <2> QED
    BY <2>1, <2>2, OtherPartsKeep
<1> QED
  BY <1>2, <1>3, <1>4, <1>5

LEMMA ValidationKeeps ==
  CandidateIInv /\ (ValidateCandidate \/ ValidateLoaded) => CandidateIInv'
<1> SUFFICES ASSUME CandidateIInv, ValidateCandidate \/ ValidateLoaded
             PROVE  CandidateIInv'
  OBVIOUS
<1>1. /\ report' = Report(world) /\ UNCHANGED <<world, choice>>
      /\ phase' \in {"OK", "INVARIANT", "loaded"}
      /\ phase' # "loaded" => phase # "loaded"
  BY DEF ValidateCandidate, ValidateLoaded, Validate
<1> QED
  BY <1>1 DEF CandidateIInv, ReportKept, PlacesKept, Placed

LEMMA CandidateStepKeeps ==
  CandidateIInv /\ [CandidateNext]_candidateVars => CandidateIInv'
<1>1. CandidateIInv /\ UNCHANGED candidateVars => CandidateIInv'
  BY DEF candidateVars, CandidateIInv, ReportKept, PlacesKept, Placed
<1> QED
  BY <1>1, RiverKeeps, EntitiesKeep, PhasesKeep, ValidationKeeps
  DEF CandidateNext

LEMMA ReferencesFollow == CandidateIInv => ReferencesNameTheirTiles
<1> SUFFICES ASSUME CandidateIInv, report.passed = Invariants
             PROVE  NamesItsTiles(world)
  BY DEF ReferencesNameTheirTiles, NamesItsTiles
<1>1. report # ZeroReport
  BY DEF ZeroReport, Invariants
<1>2. Passed(world) = Invariants
  BY <1>1 DEF CandidateIInv, ReportKept, Report
<1> QED
  BY <1>2, PassingNamesTiles DEF CandidateIInv, PlacesKept

LEMMA CoastFollows == CandidateIInv => LandCoastIsTold
<1> SUFFICES ASSUME CandidateIInv, Reported PROVE LandCoastIsTold
  BY DEF LandCoastIsTold, LandIsOnePiece, Holds, FaultyTileIsReported
<1>1. /\ report.passed = Passed(world)
      /\ report.failed = Invariants \ Passed(world)
      /\ report.first_failed_tile_index = FirstFailed(world)
  BY DEF CandidateIInv, ReportKept, Reported, Report
<1>2. LandIsOnePiece
  BY <1>1, PassedIs, CoastIsOnePiece DEF LandIsOnePiece, Holds
<1>3. FaultyTileIsReported
  <2>1. CASE FaultyTiles(world) = {}
    BY <1>1, <2>1, FirstFailedIs DEF FaultyTileIsReported
  <2>2. CASE FaultyTiles(world) # {}
    <3>1. FirstFailed(world) \in FaultyTiles(world)
          /\ FirstFailed(world) # Nowhere
      BY <2>2, FirstFailedIs
    <3>2. "LAND_COAST" \notin Passed(world)
      BY <3>1, PassedIs
    <3> QED
      BY <1>1, <2>2, <3>1, <3>2 DEF FaultyTileIsReported, Invariants
  <2> QED
    BY <2>1, <2>2
<1> QED
  BY <1>2, <1>3 DEF LandCoastIsTold

(* In every world that passes fd_world_validate, of any size, generated or *)
(* loaded, each reference of the region node names the tile that says the  *)
(* same of itself: what fd_validate_settlements and                        *)
(* fd_validate_ownership_graph compare two by two agrees as a whole.       *)
THEOREM ReferencesAgree == CandidateSpec => []ReferencesNameTheirTiles
<1>1. CandidateInit => CandidateIInv
  BY CandidateStarts
<1>2. CandidateIInv /\ [CandidateNext]_candidateVars => CandidateIInv'
  BY CandidateStepKeeps
<1>3. CandidateIInv => ReferencesNameTheirTiles
  BY ReferencesFollow
<1> QED
  BY <1>1, <1>2, <1>3, PTL DEF CandidateSpec

(* For every size of map: rows that fd_validate_coast_land compares two by *)
(* two make one landmass, and a tile at fault is never lost however often  *)
(* later faults overwrite the index fd_world_validate notes.               *)
THEOREM CoastIsTold == CandidateSpec => []LandCoastIsTold
<1>1. CandidateInit => CandidateIInv
  BY CandidateStarts
<1>2. CandidateIInv /\ [CandidateNext]_candidateVars => CandidateIInv'
  BY CandidateStepKeeps
<1>3. CandidateIInv => LandCoastIsTold
  BY CoastFollows
<1> QED
  BY <1>1, <1>2, <1>3, PTL DEF CandidateSpec

-----------------------------------------------------------------------------
(* A neighbor is another tile of the map, and sees this one beside it.     *)
LEMMA NeighborsAre ==
  ASSUME NEW t \in Tiles, NEW s \in Neighbors(t)
  PROVE  s \in Tiles /\ s # t /\ t \in Neighbors(s)
<1> DEFINE x == X(t)
           y == Y(t)
<1>1. /\ Width \in Nat \ {0} /\ Height \in Nat \ {0}
      /\ x \in 0 .. Width - 1 /\ y \in 0 .. Height - 1 /\ t = TileAt(x, y)
  BY MapIs, RowAndColumn
<1>2. PICK side \in {"north", "west", "east", "south"} :
        HasSide(t, side) /\ s = OnSide(t, side)
  BY DEF Neighbors
<1>3. t = y * Width + x
  BY <1>1 DEF TileAt
<1> HIDE DEF x, y
<1>4. CASE side = "north"
  <2>1. y > 0 /\ s = t - Width
    BY <1>2, <1>4 DEF HasSide, OnSide, y
  <2>2. y - 1 \in 0 .. Height - 1 /\ (y - 1) + 1 = y /\ y < Height
    BY <1>1, <2>1
  <2>3. s = TileAt(x, y - 1) /\ s # t
    BY <1>1, <1>3, <2>1 DEF TileAt
  <2> QED
    BY <1>1, <2>2, <2>3, TileIs, BesideIs
<1>5. CASE side = "west"
  <2>1. x > 0 /\ s = t - 1
    BY <1>2, <1>5 DEF HasSide, OnSide, x
  <2>2. x - 1 \in 0 .. Width - 1 /\ (x - 1) + 1 = x /\ x < Width
    BY <1>1, <2>1
  <2>3. s = TileAt(x - 1, y) /\ s # t
    BY <1>1, <1>3, <2>1 DEF TileAt
  <2> QED
    BY <1>1, <2>2, <2>3, TileIs, BesideIs
<1>6. CASE side = "east"
  <2>1. x + 1 < Width /\ s = t + 1
    BY <1>2, <1>6 DEF HasSide, OnSide, x
  <2>2. x + 1 \in 0 .. Width - 1
    BY <1>1, <2>1
  <2>3. s = TileAt(x + 1, y) /\ s # t
    BY <1>1, <1>3, <2>1 DEF TileAt
  <2> QED
    BY <1>1, <2>1, <2>2, <2>3, TileIs, BesideIs
<1>7. CASE side = "south"
  <2>1. y + 1 < Height /\ s = t + Width
    BY <1>2, <1>7 DEF HasSide, OnSide, y
  <2>2. y + 1 \in 0 .. Height - 1
    BY <1>1, <2>1
  <2>3. s = TileAt(x, y + 1) /\ s # t
    BY <1>1, <1>3, <2>1 DEF TileAt
  <2> QED
    BY <1>1, <2>1, <2>2, <2>3, TileIs, BesideIs
<1> QED
  BY <1>2, <1>4, <1>5, <1>6, <1>7

-----------------------------------------------------------------------------
(* The walk of fd_validate_river and fd_validate_road. *)

(* One turn of the loop. *)
WalkStep(overlay, w) ==
  LET before == IF Len(w) = 1 THEN Nowhere ELSE w[Len(w) - 1]
      next == Onward(overlay, before, w[Len(w)])
  IN  IF Cardinality(next) = 1 THEN Append(w, CHOOSE t \in next : TRUE) ELSE w

(* g tells the first n walks. *)
Begins(overlay, from, g, n) ==
  /\ g[1] = <<from>>
  /\ \A k \in 2 .. n : g[k] = WalkStep(overlay, g[k - 1])

LEMMA BeginningsAgree ==
  ASSUME NEW overlay, NEW from, NEW g, NEW n \in Nat, NEW h, NEW m \in Nat,
         Begins(overlay, from, g, n), Begins(overlay, from, h, m),
         NEW k \in 1 .. n, k <= m
  PROVE  g[k] = h[k]
<1> DEFINE S == {i \in 1 .. k : g[i] # h[i]}
<1> SUFFICES ASSUME S # {} PROVE FALSE
  OBVIOUS
<1>1. S \subseteq Nat
  OBVIOUS
<1>2. PICK i \in S : \A j \in S : i <= j
  BY <1>1, LeastExists
<1>3. i # 1
  BY <1>2 DEF Begins
<1>4. i \in 2 .. n /\ i \in 2 .. m /\ i - 1 \in 1 .. k /\ i - 1 \notin S
  BY <1>2, <1>3
<1>5. g[i - 1] = h[i - 1]
  BY <1>4
<1>6. g[i] = WalkStep(overlay, g[i - 1]) /\ h[i] = WalkStep(overlay, h[i - 1])
  BY <1>4 DEF Begins
<1> QED
  BY <1>2, <1>5, <1>6

LEMMA BeginningExists ==
  ASSUME NEW overlay, NEW from, NEW n \in Nat \ {0}
  PROVE  \E g : Begins(overlay, from, g, n)
<1> DEFINE S == {m \in Nat \ {0} : ~\E g : Begins(overlay, from, g, m)}
<1> SUFFICES ASSUME S # {} PROVE FALSE
  OBVIOUS
<1>1. S \subseteq Nat
  OBVIOUS
<1>2. PICK m \in S : \A j \in S : m <= j
  BY <1>1, LeastExists
<1>3. Begins(overlay, from, [k \in {1} |-> <<from>>], 1)
  BY DEF Begins
<1>4. m \in Nat /\ m > 1
  BY <1>2, <1>3
<1>5. m - 1 \in Nat \ {0} /\ m - 1 \notin S
  BY <1>2, <1>4
<1>6. PICK g : Begins(overlay, from, g, m - 1)
  BY <1>5
<1> DEFINE h == [k \in 1 .. m |-> IF k = m THEN WalkStep(overlay, g[m - 1])
                                  ELSE g[k]]
<1>7. h[1] = <<from>>
  BY <1>4, <1>6 DEF Begins
<1>8. ASSUME NEW k \in 2 .. m PROVE h[k] = WalkStep(overlay, h[k - 1])
  <2>1. k - 1 \in 1 .. m /\ k - 1 # m /\ k \in 1 .. m
    BY <1>4
  <2>2. h[k - 1] = g[k - 1]
    BY <2>1
  <2>3. CASE k = m
    BY <2>1, <2>2, <2>3
  <2>4. CASE k # m
    <3>1. k \in 2 .. m - 1
      BY <1>4, <2>4
    <3>2. g[k] = WalkStep(overlay, g[k - 1])
      BY <1>6, <3>1 DEF Begins
    <3> QED
      BY <2>1, <2>2, <2>4, <3>2
  <2> QED
    BY <2>3, <2>4
<1>9. Begins(overlay, from, h, m)
  BY <1>7, <1>8 DEF Begins
<1> QED
  BY <1>2, <1>9

(* The recursive function Walk is defined by exists.                       *)
IsWalk(overlay, from, f) ==
  f = [n \in Nat \ {0} |->
        IF n = 1 THEN <<from>> ELSE WalkStep(overlay, f[n - 1])]

LEMMA WalkExists ==
  ASSUME NEW overlay, NEW from
  PROVE  \E f : IsWalk(overlay, from, f)
<1> DEFINE g(n) == CHOOSE h : Begins(overlay, from, h, n)
           f == [n \in Nat \ {0} |-> g(n)[n]]
<1>1. \A n \in Nat \ {0} : Begins(overlay, from, g(n), n)
  BY BeginningExists
<1> HIDE DEF g
<1>2. f[1] = <<from>>
  BY <1>1 DEF Begins
<1>3. ASSUME NEW n \in Nat \ {0}, n # 1 PROVE f[n] = WalkStep(overlay, f[n - 1])
  <2>1. n - 1 \in Nat \ {0} /\ n \in 2 .. n /\ n - 1 \in 1 .. n - 1 /\ n - 1 <= n
    BY <1>3
  <2>2. g(n)[n] = WalkStep(overlay, g(n)[n - 1])
    BY <1>1, <2>1 DEF Begins
  <2>3. g(n - 1)[n - 1] = g(n)[n - 1]
    <3>1. Begins(overlay, from, g(n - 1), n - 1) /\ Begins(overlay, from, g(n), n)
      BY <1>1, <2>1
    <3> QED
      BY <2>1, <3>1, BeginningsAgree
  <2> QED
    BY <2>1, <2>2, <2>3
<1>4. \A n \in Nat \ {0} :
        f[n] = IF n = 1 THEN <<from>> ELSE WalkStep(overlay, f[n - 1])
  BY <1>2, <1>3
<1>5. f = [n \in Nat \ {0} |->
            IF n = 1 THEN <<from>> ELSE WalkStep(overlay, f[n - 1])]
  <2> DEFINE v(n) == IF n = 1 THEN <<from>> ELSE WalkStep(overlay, f[n - 1])
  <2>1. \A n \in Nat \ {0} : f[n] = v(n)
    BY <1>4
  <2> HIDE DEF v
  <2>2. f = [n \in Nat \ {0} |-> v(n)]
    BY <2>1
  <2> QED
    BY <2>2, Zenon DEF v
<1> QED
  BY <1>5 DEF IsWalk

(* What the walk is: steps from the start, one more than there are tiles.  *)
LEMMA WalkIs ==
  ASSUME NEW overlay, NEW from
  PROVE  \E f : /\ f[1] = <<from>>
                /\ \A n \in Nat \ {0, 1} : f[n] = WalkStep(overlay, f[n - 1])
                /\ Walk(overlay, from) = f[Cardinality(overlay) + 1]
<1> DEFINE f == CHOOSE g : IsWalk(overlay, from, g)
<1>1. IsWalk(overlay, from, f)
  BY WalkExists
<1>2. Walk(overlay, from) = f[Cardinality(overlay) + 1]
  BY Zenon DEF Walk, IsWalk, WalkStep
<1> HIDE DEF f
<1>3. f[1] = <<from>>
  BY <1>1 DEF IsWalk
<1>4. \A n \in Nat \ {0, 1} : f[n] = WalkStep(overlay, f[n - 1])
  BY <1>1 DEF IsWalk
<1> QED
  BY <1>2, <1>3, <1>4

(* A trail goes on from each of its tiles to the only tile there is to go  *)
(* to; a line is the whole of an overlay in one trail.                     *)
BeforeOn(w, i) == IF i = 1 THEN Nowhere ELSE w[i - 1]
BesideOn(w, i) == {w[j] : j \in {i - 1, i + 1} \cap 1 .. Len(w)}
Trail(overlay, w) ==
  /\ w \in Seq(overlay) /\ Len(w) >= 1
  /\ \A i \in 1 .. Len(w) - 1 : Onward(overlay, BeforeOn(w, i), w[i]) = {w[i + 1]}
Line(overlay, w) ==
  /\ w \in Seq(overlay) /\ Len(w) = Cardinality(overlay)
  /\ \A t \in overlay : \E i \in 1 .. Len(w) : w[i] = t
  /\ \A i, j \in 1 .. Len(w) : w[i] = w[j] => i = j
  /\ \A i, j \in 1 .. Len(w) :
       w[j] \in Neighbors(w[i]) <=> j = i + 1 \/ i = j + 1

LEMMA OnwardIs ==
  ASSUME NEW overlay, overlay \subseteq Tiles, NEW t, NEW previous
  PROVE  /\ Onward(overlay, previous, t) \subseteq overlay
         /\ IsFiniteSet(Onward(overlay, previous, t))
<1>1. Onward(overlay, previous, t) \subseteq overlay
  BY DEF Onward
<1>2. IsFiniteSet(Tiles) /\ Onward(overlay, previous, t) \subseteq Tiles
  BY <1>1, MapIs
<1> QED
  BY <1>1, <1>2, FS_Subset

LEMMA StepKeepsTrail ==
  ASSUME NEW overlay, overlay \subseteq Tiles, NEW w, Trail(overlay, w)
  PROVE  /\ Trail(overlay, WalkStep(overlay, w))
         /\ WalkStep(overlay, w)[1] = w[1]
<1> DEFINE n == Len(w)
           next == Onward(overlay, BeforeOn(w, n), w[n])
           t == CHOOSE s \in next : TRUE
<1>1. w \in Seq(overlay) /\ n \in Nat /\ n >= 1
  BY DEF Trail
<1>2. WalkStep(overlay, w) = IF Cardinality(next) = 1 THEN Append(w, t) ELSE w
  BY DEF WalkStep, BeforeOn
<1>3. next \subseteq overlay /\ IsFiniteSet(next)
  BY OnwardIs
<1>4. CASE Cardinality(next) = 1
  <2>1. PICK e : next = {e}
    BY <1>3, <1>4, OnlyOne
  <2>2. t = e /\ next = {t} /\ t \in overlay
    BY <1>3, <2>1
  <2> DEFINE v == Append(w, t)
  <2> HIDE DEF t
  <2>3. /\ v \in Seq(overlay) /\ Len(v) = n + 1
        /\ \A i \in 1 .. n : v[i] = w[i]
        /\ v[n + 1] = t
    BY <1>1, <2>2
  <2> HIDE DEF v
  <2>4. ASSUME NEW i \in 1 .. n
        PROVE  Onward(overlay, BeforeOn(v, i), v[i]) = {v[i + 1]}
    <3>1. v[i] = w[i] /\ BeforeOn(v, i) = BeforeOn(w, i)
      <4>1. i # 1 => i - 1 \in 1 .. n
        BY <1>1
      <4> QED
        BY <2>3, <4>1 DEF BeforeOn
    <3>2. CASE i = n
      BY <2>2, <2>3, <3>1, <3>2
    <3>3. CASE i # n
      <4>1. i \in 1 .. n - 1 /\ i + 1 \in 1 .. n
        BY <1>1, <3>3
      <4>2. v[i + 1] = w[i + 1]
        BY <2>3, <4>1
      <4>3. Onward(overlay, BeforeOn(w, i), w[i]) = {w[i + 1]}
        BY <4>1 DEF Trail
      <4> QED
        BY <3>1, <4>2, <4>3
    <3> QED
      BY <3>2, <3>3
  <2>5. Trail(overlay, v)
    <3>1. Len(v) >= 1 /\ 1 .. Len(v) - 1 = 1 .. n
      BY <1>1, <2>3
    <3> HIDE DEF n
    <3> QED
      BY <2>3, <2>4, <3>1 DEF Trail
  <2>6. v[1] = w[1]
    BY <1>1, <2>3
  <2> QED
    BY <1>2, <1>4, <2>5, <2>6 DEF v
<1>5. CASE Cardinality(next) # 1
  BY <1>2, <1>5
<1> QED
  BY <1>4, <1>5

(* The walk is a trail from its start. *)
LEMMA WalkIsTrail ==
  ASSUME NEW overlay, overlay \subseteq Tiles, NEW from \in overlay
  PROVE  Trail(overlay, Walk(overlay, from)) /\ Walk(overlay, from)[1] = from
<1>1. PICK f :
        /\ f[1] = <<from>>
        /\ \A n \in Nat \ {0, 1} : f[n] = WalkStep(overlay, f[n - 1])
        /\ Walk(overlay, from) = f[Cardinality(overlay) + 1]
  BY WalkIs
<1> DEFINE S == {n \in Nat \ {0} : ~(Trail(overlay, f[n]) /\ f[n][1] = from)}
<1>2. S = {}
  <2> SUFFICES ASSUME S # {} PROVE FALSE
    OBVIOUS
  <2>1. S \subseteq Nat
    OBVIOUS
  <2>2. PICK n \in S : \A m \in S : n <= m
    BY <2>1, LeastExists
  <2>3. Trail(overlay, <<from>>) /\ <<from>>[1] = from
    BY DEF Trail
  <2>4. n # 1
    BY <1>1, <2>2, <2>3
  <2>5. n \in Nat \ {0, 1} /\ n - 1 \in Nat \ {0} /\ n - 1 \notin S
    BY <2>2, <2>4
  <2>6. Trail(overlay, f[n - 1]) /\ f[n - 1][1] = from
    BY <2>5
  <2>7. Trail(overlay, f[n]) /\ f[n][1] = from
    BY <1>1, <2>5, <2>6, StepKeepsTrail
  <2> QED
    BY <2>2, <2>7
<1>3. Cardinality(overlay) + 1 \in Nat \ {0}
  <2>1. IsFiniteSet(overlay)
    BY MapIs, FS_Subset
  <2> QED
    BY <2>1, FS_CardinalityType
<1> QED
  BY <1>1, <1>2, <1>3

(* A trail that visits as many tiles as the overlay has, none twice, and   *)
(* has nowhere to go on to is the overlay in one line.                     *)
LEMMA WholeTrailIsLine ==
  ASSUME NEW overlay, overlay \subseteq Tiles, NEW w, Trail(overlay, w),
         WalksAll(overlay, w),
         \A i, j \in 1 .. Len(w) : w[i] = w[j] => i = j
  PROVE  Line(overlay, w)
<1> DEFINE n == Len(w)
<1>1. /\ w \in Seq(overlay) /\ n \in Nat /\ n >= 1 /\ n = Cardinality(overlay)
      /\ \A i \in 1 .. n : w[i] \in overlay
  BY DEF Trail, WalksAll
<1>2. IsFiniteSet(overlay)
  BY MapIs, FS_Subset
<1>3. w \in Injection(1 .. n, overlay)
  <2>1. w \in [1 .. n -> overlay]
    BY <1>1
  <2> QED
    BY <2>1 DEF Injection, IsInjective
<1>4. IsFiniteSet(1 .. n) /\ Cardinality(1 .. n) = n
  BY <1>1, FS_Interval
<1>5. w \in Surjection(1 .. n, overlay)
  BY <1>1, <1>2, <1>3, <1>4, FS_Injection
<1>6. \A t \in overlay : \E i \in 1 .. n : w[i] = t
  BY <1>5 DEF Surjection
<1>7. \A i \in 1 .. n : Onward(overlay, BeforeOn(w, i), w[i])
                          = IF i = n THEN {} ELSE {w[i + 1]}
  <2>1. SUFFICES ASSUME NEW i \in 1 .. n
                 PROVE  Onward(overlay, BeforeOn(w, i), w[i])
                          = IF i = n THEN {} ELSE {w[i + 1]}
    OBVIOUS
  <2>2. CASE i = n
    BY <2>2 DEF WalksAll, BeforeOn
  <2>3. CASE i # n
    <3>1. i \in 1 .. n - 1
      BY <1>1, <2>3
    <3> QED
      BY <2>3, <3>1 DEF Trail
  <2> QED
    BY <2>2, <2>3
<1> HIDE DEF n
<1>8. ASSUME NEW i \in 1 .. n, NEW j \in 1 .. n, i < j
      PROVE  w[j] \in Neighbors(w[i]) <=> j = i + 1
  <2>1. /\ i # n /\ i + 1 \in 1 .. n /\ i - 1 # j
        /\ w[i] \in Tiles /\ w[j] \in Tiles /\ w[j] \in overlay
    BY <1>1, <1>8
  <2>2. Onward(overlay, BeforeOn(w, i), w[i]) = {w[i + 1]}
    BY <1>7, <2>1
  <2>3. w[j] # BeforeOn(w, i)
    <3>1. CASE i = 1
      BY <2>1, <3>1, NowhereAssumption DEF BeforeOn
    <3>2. CASE i # 1
      <4>1. i - 1 \in 1 .. n
        BY <1>1, <3>2
      <4>2. w[j] # w[i - 1]
        BY <2>1, <4>1 DEF n
      <4> QED
        BY <3>2, <4>2 DEF BeforeOn
    <3> QED
      BY <3>1, <3>2
  <2>4. w[j] \in Neighbors(w[i]) <=> w[j] = w[i + 1]
    BY <2>1, <2>2, <2>3 DEF Onward
  <2> QED
    BY <2>1, <2>4 DEF n
<1>9. ASSUME NEW i \in 1 .. n, NEW j \in 1 .. n
      PROVE  w[j] \in Neighbors(w[i]) <=> j = i + 1 \/ i = j + 1
  <2>1. w[i] \in Tiles /\ w[j] \in Tiles
    BY <1>1
  <2>2. CASE i < j
    BY <1>1, <1>8, <2>2
  <2>3. CASE j < i
    <3>1. w[i] \in Neighbors(w[j]) <=> i = j + 1
      BY <1>8, <2>3
    <3>2. w[i] \in Neighbors(w[j]) <=> w[j] \in Neighbors(w[i])
      BY <2>1, NeighborsAre
    <3> QED
      BY <1>1, <2>3, <3>1, <3>2
  <2>4. CASE i = j
    BY <1>1, <2>1, <2>4, NeighborsAre
  <2> QED
    BY <1>1, <2>2, <2>3, <2>4
<1> QED
  BY <1>1, <1>6, <1>9 DEF Line, n

(* On a line there is one tile to go on to, until its end.                 *)
LEMMA LineOnward ==
  ASSUME NEW overlay, overlay \subseteq Tiles, NEW w, Line(overlay, w),
         NEW i \in 1 .. Len(w)
  PROVE  /\ Neighbors(w[i]) \cap overlay = BesideOn(w, i)
         /\ Onward(overlay, BeforeOn(w, i), w[i]) =
              IF i = Len(w) THEN {} ELSE {w[i + 1]}
<1> DEFINE n == Len(w)
           near == {w[j] : j \in {i - 1, i + 1} \cap 1 .. n}
<1>1. /\ n \in Nat /\ \A j \in 1 .. n : w[j] \in overlay
      /\ \A t \in overlay : \E j \in 1 .. n : w[j] = t
      /\ \A j, k \in 1 .. n : w[j] = w[k] => j = k
      /\ \A j, k \in 1 .. n : w[k] \in Neighbors(w[j]) <=> k = j + 1 \/ j = k + 1
  BY DEF Line
<1> HIDE DEF n
<1>2. i \in 1 .. n
  BY DEF n
<1>3. Neighbors(w[i]) \cap overlay \subseteq near
  <2> SUFFICES ASSUME NEW t \in Neighbors(w[i]) \cap overlay PROVE t \in near
    OBVIOUS
  <2>1. PICK j \in 1 .. n : w[j] = t
    BY <1>1
  <2>2. j = i + 1 \/ i = j + 1
    BY <1>1, <1>2, <2>1
  <2>3. j \in {i - 1, i + 1} \cap 1 .. n
    BY <1>1, <1>2, <2>2
  <2> QED
    BY <2>1, <2>3
<1>4. near \subseteq Neighbors(w[i]) \cap overlay
  <2> SUFFICES ASSUME NEW j \in {i - 1, i + 1} \cap 1 .. n
               PROVE  w[j] \in Neighbors(w[i]) \cap overlay
    OBVIOUS
  <2>1. j = i + 1 \/ i = j + 1
    BY <1>1, <1>2
  <2> QED
    BY <1>1, <1>2, <2>1
<1>5. Neighbors(w[i]) \cap overlay = near
  BY <1>3, <1>4
<1>6. Onward(overlay, BeforeOn(w, i), w[i]) = near \ {BeforeOn(w, i)}
  BY <1>5 DEF Onward
<1>7. near \ {BeforeOn(w, i)} = {w[j] : j \in {i + 1} \cap 1 .. n}
  <2>1. CASE i = 1
    <3>1. {i - 1, i + 1} \cap 1 .. n = {i + 1} \cap 1 .. n
      BY <1>1, <2>1
    <3>2. \A j \in 1 .. n : w[j] # Nowhere
      BY <1>1, NowhereAssumption
    <3> QED
      BY <2>1, <3>1, <3>2 DEF BeforeOn
  <2>2. CASE i # 1
    <3>1. i - 1 \in 1 .. n /\ BeforeOn(w, i) = w[i - 1] /\ i + 1 # i - 1
      BY <1>1, <1>2, <2>2 DEF BeforeOn
    <3>2. i + 1 \in 1 .. n => w[i + 1] # w[i - 1]
      BY <1>1, <3>1
    <3> QED
      BY <3>1, <3>2
  <2> QED
    BY <2>1, <2>2
<1>8. {i + 1} \cap 1 .. n = IF i = n THEN {} ELSE {i + 1}
  BY <1>1, <1>2
<1> QED
  BY <1>5, <1>6, <1>7, <1>8 DEF n, BesideOn

LEMMA PairIs ==
  ASSUME NEW a, NEW b, a # b
  PROVE  Cardinality({a, b}) = 2
<1>1. IsFiniteSet({a}) /\ Cardinality({a}) = 1
  BY FS_Singleton
<1>2. Cardinality({a} \cup {b}) = 2
  BY <1>1, FS_AddElement
<1>3. {a} \cup {b} = {a, b}
  OBVIOUS
<1> QED
  BY <1>2, <1>3

(* A line of two tiles or more has one neighbor at its ends, two between.  *)
LEMMA LineDegrees ==
  ASSUME NEW overlay, overlay \subseteq Tiles, NEW w, Line(overlay, w),
         Len(w) >= 2
  PROVE  /\ \A i \in 1 .. Len(w) :
              Degree(overlay, w[i]) = IF i \in {1, Len(w)} THEN 1 ELSE 2
         /\ Ends(overlay) = {w[1], w[Len(w)]} /\ w[1] # w[Len(w)]
         /\ Cardinality(Ends(overlay)) = 2
<1> DEFINE n == Len(w)
<1>1. /\ n \in Nat /\ n >= 2 /\ \A j \in 1 .. n : w[j] \in overlay
      /\ \A t \in overlay : \E j \in 1 .. n : w[j] = t
      /\ \A j, k \in 1 .. n : w[j] = w[k] => j = k
  BY DEF Line
<1>2. ASSUME NEW i \in 1 .. n
      PROVE  Degree(overlay, w[i]) = IF i \in {1, n} THEN 1 ELSE 2
  <2> DEFINE on == {i - 1, i + 1} \cap 1 .. n
             near == BesideOn(w, i)
  <2>1. Neighbors(w[i]) \cap overlay = near
    BY LineOnward
  <2>2. Nowhere \notin near /\ near = {w[j] : j \in on}
    BY <1>1, NowhereAssumption DEF BesideOn
  <2>3. Degree(overlay, w[i]) = Cardinality(near)
    BY <2>1, <2>2 DEF Degree, Onward
  <2> HIDE DEF n, near
  <2>4. CASE i = 1
    <3>1. on = {i + 1} /\ near = {w[i + 1]}
      BY <1>1, <2>2, <2>4
    <3> QED
      BY <2>3, <2>4, <3>1, FS_Singleton
  <2>5. CASE i = n
    <3>1. on = {i - 1} /\ near = {w[i - 1]}
      BY <1>1, <2>2, <2>5
    <3> QED
      BY <2>3, <2>5, <3>1, FS_Singleton
  <2>6. CASE i \notin {1, n}
    <3>1. on = {i - 1, i + 1} /\ i - 1 \in 1 .. n /\ i + 1 \in 1 .. n
          /\ i - 1 # i + 1
      BY <1>1, <2>6
    <3>2. w[i - 1] # w[i + 1]
      BY <1>1, <3>1
    <3>3. near = {w[i - 1], w[i + 1]}
      BY <2>2, <3>1
    <3>4. Cardinality(near) = 2
      BY <3>2, <3>3, PairIs
    <3> QED
      BY <2>3, <2>6, <3>4
  <2> QED
    BY <2>4, <2>5, <2>6
<1> HIDE DEF n
<1>3. Ends(overlay) = {w[1], w[n]}
  <2>1. 1 \in 1 .. n /\ n \in 1 .. n
    BY <1>1
  <2>2. w[1] \in Ends(overlay) /\ w[n] \in Ends(overlay)
    BY <1>1, <1>2, <2>1 DEF Ends
  <2>3. ASSUME NEW t \in Ends(overlay) PROVE t \in {w[1], w[n]}
    <3>1. t \in overlay /\ Degree(overlay, t) = 1
      BY DEF Ends
    <3>2. PICK i \in 1 .. n : w[i] = t
      BY <1>1, <3>1
    <3>3. i \in {1, n}
      BY <1>2, <3>1, <3>2
    <3> QED
      BY <3>2, <3>3
  <2> QED
    BY <2>2, <2>3
<1>4. w[1] # w[n]
  BY <1>1
<1>5. Cardinality({w[1], w[n]}) = 2
  BY <1>4, PairIs
<1> QED
  BY <1>2, <1>3, <1>4, <1>5 DEF n

(* The walk from the end of a line visits the whole line.                  *)
Front(w, k) == [i \in 1 .. k |-> w[i]]

LEMMA LineIsWalked ==
  ASSUME NEW overlay, overlay \subseteq Tiles, NEW w, Line(overlay, w),
         Len(w) >= 1
  PROVE  Walk(overlay, w[1]) = w /\ WalksAll(overlay, w)
<1> DEFINE n == Len(w)
<1>1. /\ n \in Nat /\ n >= 1 /\ n = Cardinality(overlay)
      /\ w \in Seq(overlay) /\ \A i \in 1 .. n : w[i] \in overlay
      /\ w = Front(w, n)
  BY DEF Line, Front
<1>2. PICK f :
        /\ f[1] = <<w[1]>>
        /\ \A k \in Nat \ {0, 1} : f[k] = WalkStep(overlay, f[k - 1])
        /\ Walk(overlay, w[1]) = f[Cardinality(overlay) + 1]
  BY WalkIs
<1>3. \A i \in 1 .. n : Onward(overlay, BeforeOn(w, i), w[i])
                          = IF i = n THEN {} ELSE {w[i + 1]}
  BY LineOnward
<1> HIDE DEF n
<1>4. ASSUME NEW k \in 1 .. n - 1
      PROVE  WalkStep(overlay, Front(w, k)) = Front(w, k + 1)
  <2> DEFINE v == Front(w, k)
             next == Onward(overlay, IF Len(v) = 1 THEN Nowhere ELSE v[Len(v) - 1],
                            v[Len(v)])
  <2>1. /\ k \in 1 .. n /\ k \in Nat /\ k # n /\ k + 1 \in 1 .. n
        /\ k # 1 => k - 1 \in 1 .. k
    BY <1>1
  <2>2. v \in Seq(overlay) /\ Len(v) = k /\ v[k] = w[k]
    <3>1. \A i \in 1 .. k : i \in 1 .. n
      BY <1>1, <2>1
    <3>2. v \in [1 .. k -> overlay]
      BY <1>1, <3>1 DEF Front
    <3>3. k \in 1 .. k
      BY <2>1
    <3> QED
      BY <2>1, <3>2, <3>3 DEF Front
  <2>3. k # 1 => v[k - 1] = w[k - 1]
    BY <2>1 DEF Front
  <2> HIDE DEF v
  <2>4. next = {w[k + 1]}
    <3>1. (IF Len(v) = 1 THEN Nowhere ELSE v[Len(v) - 1]) = BeforeOn(w, k)
      BY <2>2, <2>3 DEF BeforeOn
    <3> QED
      BY <1>3, <2>1, <2>2, <3>1
  <2> HIDE DEF next
  <2>5. Cardinality(next) = 1 /\ (CHOOSE t \in next : TRUE) = w[k + 1]
    BY <2>4, FS_Singleton
  <2>6. WalkStep(overlay, v) = Append(v, w[k + 1])
    BY <2>5 DEF WalkStep, next
  <2>7. Append(v, w[k + 1]) = Front(w, k + 1)
    <3>1. w[k + 1] \in overlay
      BY <1>1, <2>1
    <3>2. Append(v, w[k + 1]) = [i \in 1 .. k + 1 |->
                                   IF i = k + 1 THEN w[k + 1] ELSE v[i]]
      BY <2>1, <2>2, <3>1
    <3>3. \A i \in 1 .. k + 1 : i = k + 1 \/ i \in 1 .. k
      BY <2>1
    <3>4. \A i \in 1 .. k : v[i] = w[i]
      BY DEF v, Front
    <3> QED
      BY <3>2, <3>3, <3>4 DEF Front
  <2> QED
    BY <2>6, <2>7 DEF v
<1>5. ASSUME NEW k \in 1 .. n PROVE f[k] = Front(w, k)
  <2> DEFINE S == {i \in 1 .. n : f[i] # Front(w, i)}
  <2> SUFFICES ASSUME S # {} PROVE FALSE
    OBVIOUS
  <2>1. S \subseteq Nat
    OBVIOUS
  <2>2. PICK i \in S : \A j \in S : i <= j
    BY <2>1, LeastExists
  <2>3. <<w[1]>> = Front(w, 1)
    BY DEF Front
  <2>4. i # 1
    BY <1>2, <2>2, <2>3
  <2>5. /\ i - 1 \in 1 .. n - 1 /\ i - 1 \in 1 .. n /\ i - 1 \notin S
        /\ i \in Nat \ {0, 1} /\ i \in 1 .. n /\ (i - 1) + 1 = i
    BY <1>1, <2>2, <2>4
  <2>6. f[i - 1] = Front(w, i - 1)
    BY <2>5
  <2>7. f[i] = WalkStep(overlay, Front(w, i - 1))
    <3>1. f[i] = WalkStep(overlay, f[i - 1])
      BY <1>2, <2>5
    <3> QED
      BY <2>6, <3>1
  <2>8. WalkStep(overlay, Front(w, i - 1)) = Front(w, i)
    BY <1>4, <2>5
  <2> QED
    BY <2>2, <2>7, <2>8
<1>6. f[n] = w
  BY <1>1, <1>5
<1>7. Onward(overlay, IF Len(w) = 1 THEN Nowhere ELSE w[Len(w) - 1], w[Len(w)]) = {}
  <2>1. n \in 1 .. n
    BY <1>1
  <2>2. Onward(overlay, BeforeOn(w, n), w[n]) = {}
    BY <1>3, <2>1
  <2> QED
    BY <2>2 DEF n, BeforeOn
<1>8. WalksAll(overlay, w)
  <2>1. Len(w) = Cardinality(overlay)
    BY DEF Line
  <2> QED
    BY <1>7, <2>1, Zenon DEF WalksAll
<1>9. WalkStep(overlay, w) = w
  <2>1. Cardinality({}) # 1
    BY FS_EmptySet
  <2> QED
    BY <1>7, <2>1, Zenon DEF WalkStep
<1>10. f[n + 1] = w
  <2>1. n + 1 \in Nat \ {0, 1} /\ (n + 1) - 1 = n
    BY <1>1
  <2> QED
    BY <1>2, <1>6, <1>9, <2>1
<1> QED
  BY <1>1, <1>2, <1>8, <1>10

-----------------------------------------------------------------------------
(* The river as a line of tiles that falls from a hill to the sea: what    *)
(* both fd_validate_river and the reference OneRiver come to.              *)
Watered(w) == w.river \subseteq Tiles /\ w.elevation \in [Tiles -> Int]
Rising(w, p) ==
  \A i, j \in 1 .. Len(p) : i < j => w.elevation[p[i]] < w.elevation[p[j]]
Falls(w, p) ==
  /\ Line(w.river, p) /\ Len(p) >= MinRiver /\ Rising(w, p)
  /\ w.outlets = {p[1]} /\ AdjacentTerrain(w, p[1], "WATER")
  /\ \A t \in w.river : w.terrain[t] \notin {"WATER", "SETTLEMENT"}
  /\ w.terrain[p[Len(p)]] = "HILLS"
  /\ \A t \in Sea(w) : Manhattan(p[Len(p)], t) >= SourceDistance

LEMMA StepsRise ==
  ASSUME NEW w, Watered(w), NEW p \in Seq(w.river),
         \A i \in 2 .. Len(p) : w.elevation[p[i]] > w.elevation[p[i - 1]]
  PROVE  Rising(w, p)
<1> DEFINE n == Len(p)
           e(i) == w.elevation[p[i]]
<1>1. n \in Nat /\ \A i \in 1 .. n : e(i) \in Int
  BY DEF Watered
<1>2. \A i \in 2 .. n : e(i) > e(i - 1)
  OBVIOUS
<1> HIDE DEF n, e
<1> SUFFICES ASSUME NEW i \in 1 .. n, NEW k \in 1 .. n, i < k, ~(e(i) < e(k))
             PROVE  FALSE
  BY DEF Rising, n, e
<1> DEFINE S == {j \in 1 .. n : i < j /\ ~(e(i) < e(j))}
<1>3. S \subseteq Nat /\ S # {}
  OBVIOUS
<1>4. PICK j \in S : \A m \in S : j <= m
  BY <1>3, LeastExists
<1>5. j \in 2 .. n /\ j - 1 \in 1 .. n /\ i <= j - 1 /\ j - 1 \notin S
  BY <1>1, <1>4
<1>6. e(j) > e(j - 1) /\ e(j) \in Int /\ e(j - 1) \in Int /\ e(i) \in Int
  BY <1>1, <1>2, <1>5
<1>7. CASE i = j - 1
  BY <1>4, <1>6, <1>7
<1>8. CASE i # j - 1
  <2>1. e(i) < e(j - 1)
    BY <1>5, <1>8
  <2> QED
    BY <1>4, <1>6, <2>1
<1> QED
  BY <1>7, <1>8

LEMMA RiverFalls ==
  ASSUME NEW w, Watered(w), River(w)
  PROVE  \E p : Falls(w, p)
<1>1. PICK o : w.outlets = {o}
  <2>1. IsFiniteSet(w.outlets)
    <3>1. w.outlets \subseteq Tiles
      BY DEF River, Watered
    <3> QED
      BY <3>1, MapIs, FS_Subset
  <2>2. Cardinality(w.outlets) = 1
    BY DEF River
  <2> QED
    BY <2>1, <2>2, OnlyOne
<1> DEFINE p == Walk(w.river, o)
<1>2. w.river \subseteq Tiles /\ o \in w.river
  BY <1>1 DEF River, Watered
<1>3. Trail(w.river, p) /\ p[1] = o
  BY <1>2, WalkIsTrail
<1>4. /\ WalksAll(w.river, p)
      /\ \A i \in 2 .. Len(p) : w.elevation[p[i]] > w.elevation[p[i - 1]]
      /\ w.terrain[p[Len(p)]] = "HILLS"
      /\ \A t \in Sea(w) : Manhattan(p[Len(p)], t) >= SourceDistance
  BY <1>1 DEF River
<1> HIDE DEF p
<1>5. p \in Seq(w.river)
  BY <1>3 DEF Trail
<1>6. Rising(w, p)
  BY <1>4, <1>5, StepsRise
<1>7. \A i, j \in 1 .. Len(p) : p[i] = p[j] => i = j
  <2>1. \A i, j \in 1 .. Len(p) : i < j => p[i] # p[j]
    <3>1. \A i \in 1 .. Len(p) : w.elevation[p[i]] \in Int
      BY <1>5 DEF Watered
    <3> QED
      BY <1>6, <3>1 DEF Rising
  <2>2. Len(p) \in Nat
    BY <1>5
  <2> QED
    BY <2>1, <2>2
<1>8. Line(w.river, p)
  BY <1>2, <1>3, <1>4, <1>7, WholeTrailIsLine
<1>9. Len(p) >= MinRiver
  <2>1. Len(p) = Cardinality(w.river) /\ Cardinality(w.river) >= MinRiver
    BY <1>4 DEF WalksAll, River
  <2> QED
    BY <2>1
<1>10. /\ AdjacentTerrain(w, p[1], "WATER")
       /\ \A t \in w.river : w.terrain[t] \notin {"WATER", "SETTLEMENT"}
  BY <1>1, <1>3 DEF River
<1> QED
  BY <1>1, <1>3, <1>4, <1>6, <1>8, <1>9, <1>10 DEF Falls

LEMMA FallsIsRiver ==
  ASSUME NEW w, Watered(w), NEW p, Falls(w, p)
  PROVE  River(w)
<1> DEFINE n == Len(p)
<1>1. /\ w.river \subseteq Tiles /\ Line(w.river, p) /\ n \in Nat /\ n >= 2
      /\ n = Cardinality(w.river) /\ n >= MinRiver
      /\ \A i \in 1 .. n : p[i] \in w.river
      /\ \A t \in w.river : \E i \in 1 .. n : p[i] = t
  BY DistanceAssumption DEF Watered, Falls, Line
<1>2. Walk(w.river, p[1]) = p /\ WalksAll(w.river, p)
  BY <1>1, LineIsWalked
<1>3. /\ \A i \in 1 .. n : Degree(w.river, p[i]) = IF i \in {1, n} THEN 1 ELSE 2
      /\ Cardinality(Ends(w.river)) = 2
  BY <1>1, LineDegrees
<1>4. /\ w.outlets = {p[1]} /\ AdjacentTerrain(w, p[1], "WATER")
      /\ \A t \in w.river : w.terrain[t] \notin {"WATER", "SETTLEMENT"}
      /\ w.terrain[p[n]] = "HILLS"
      /\ \A t \in Sea(w) : Manhattan(p[n], t) >= SourceDistance
  BY DEF Falls
<1>5. \A i \in 2 .. n : w.elevation[p[i]] > w.elevation[p[i - 1]]
  <2> SUFFICES ASSUME NEW i \in 2 .. n
               PROVE  w.elevation[p[i]] > w.elevation[p[i - 1]]
    OBVIOUS
  <2>1. i \in 1 .. n /\ i - 1 \in 1 .. n /\ i - 1 < i
    BY <1>1
  <2>2. w.elevation[p[i - 1]] < w.elevation[p[i]]
    BY <2>1 DEF Falls, Rising
  <2>3. w.elevation[p[i - 1]] \in Int /\ w.elevation[p[i]] \in Int
    BY <1>1, <2>1 DEF Watered
  <2> QED
    BY <2>2, <2>3
<1>6. 1 \in 1 .. n /\ p[1] \in w.river /\ Degree(w.river, p[1]) = 1
  BY <1>1, <1>3
<1>7. \A t \in w.river : Degree(w.river, t) \in {1, 2}
  BY <1>1, <1>3
<1>8. Cardinality(w.outlets) = 1
  BY <1>4, FS_Singleton
<1> HIDE DEF n
<1>9. \A outlet \in w.outlets :
       LET walk == Walk(w.river, outlet)
           source == walk[Len(walk)]
       IN  /\ WalksAll(w.river, walk)
           /\ \A i \in 2 .. Len(walk) :
                w.elevation[walk[i]] > w.elevation[walk[i - 1]]
           /\ w.terrain[source] = "HILLS"
           /\ \A t \in Sea(w) : Manhattan(source, t) >= SourceDistance
  BY <1>2, <1>4, <1>5 DEF n
<1> QED
  BY <1>1, <1>3, <1>4, <1>6, <1>7, <1>8, <1>9 DEF River

LEMMA RankIs ==
  ASSUME NEW w, Watered(w), NEW p, Line(w.river, p), Rising(w, p),
         NEW i \in 1 .. Len(p)
  PROVE  Rank(w, p[i]) = i - 1
<1> DEFINE n == Len(p)
           e(j) == w.elevation[p[j]]
           lower == {s \in w.river : w.elevation[s] < w.elevation[p[i]]}
           q == [j \in 1 .. i - 1 |-> p[j]]
<1>1. /\ n \in Nat /\ i \in 1 .. n /\ i - 1 \in Nat
      /\ \A j \in 1 .. n : p[j] \in w.river /\ e(j) \in Int
      /\ \A t \in w.river : \E j \in 1 .. n : p[j] = t
      /\ \A j, k \in 1 .. n : p[j] = p[k] => j = k
      /\ \A j, k \in 1 .. n : j < k => e(j) < e(k)
  BY DEF Line, Rising, Watered
<1> HIDE DEF n
<1>2. \A j \in 1 .. n : p[j] \in lower <=> j \in 1 .. i - 1
  <2> SUFFICES ASSUME NEW j \in 1 .. n PROVE p[j] \in lower <=> j < i
    BY <1>1
  <2>1. e(j) \in Int /\ e(i) \in Int /\ (j < i => e(j) < e(i))
        /\ (i < j => e(i) < e(j))
    BY <1>1
  <2>2. p[j] \in lower <=> e(j) < e(i)
    BY <1>1
  <2>3. i = j => e(i) = e(j)
    OBVIOUS
  <2> HIDE DEF e
  <2> QED
    BY <1>1, <2>1, <2>2, <2>3
<1>3. lower \subseteq w.river
  OBVIOUS
<1> HIDE DEF lower, e
<1>4. q \in Bijection(1 .. i - 1, lower)
  <2>1. \A j \in 1 .. i - 1 : j \in 1 .. n
    BY <1>1
  <2>2. q \in [1 .. i - 1 -> lower]
    BY <1>2, <2>1
  <2>3. \A j, k \in 1 .. i - 1 : q[j] = q[k] => j = k
    BY <1>1, <2>1
  <2>4. \A t \in lower : \E j \in 1 .. i - 1 : q[j] = t
    BY <1>1, <1>2, <1>3
  <2> HIDE DEF q
  <2> QED
    BY <2>2, <2>3, <2>4 DEF Bijection, Injection, IsInjective, Surjection
<1>5. Cardinality(lower) = i - 1
  BY <1>1, <1>4, FS_CountingElements DEF ExistsBijection
<1> QED
  BY <1>5 DEF Rank, lower

LEMMA FallsIsOneRiver ==
  ASSUME NEW w, Watered(w), NEW p, Falls(w, p)
  PROVE  OneRiver(w)
<1> DEFINE n == Len(p)
<1>1. /\ w.river \subseteq Tiles /\ Line(w.river, p) /\ Rising(w, p)
      /\ n \in Nat /\ n >= 2 /\ n >= MinRiver /\ n = Cardinality(w.river)
      /\ \A i \in 1 .. n : p[i] \in w.river
      /\ \A t \in w.river : \E i \in 1 .. n : p[i] = t
      /\ \A i, j \in 1 .. n : p[i] = p[j] => i = j
      /\ \A i, j \in 1 .. n : p[j] \in Neighbors(p[i]) <=> j = i + 1 \/ i = j + 1
  BY DistanceAssumption DEF Watered, Falls, Line
<1>2. \A i \in 1 .. n : Rank(w, p[i]) = i - 1
  BY <1>1, RankIs
<1>3. /\ w.outlets = {p[1]} /\ AdjacentTerrain(w, p[1], "WATER")
      /\ \A t \in w.river : w.terrain[t] \notin {"WATER", "SETTLEMENT"}
      /\ w.terrain[p[n]] = "HILLS"
      /\ \A t \in Sea(w) : Manhattan(p[n], t) >= SourceDistance
  BY DEF Falls
<1> HIDE DEF n
<1>4. ASSUME NEW s \in w.river, NEW t \in w.river
      PROVE  /\ s \in Neighbors(t) <=> Apart(Rank(w, s), Rank(w, t)) = 1
             /\ Rank(w, s) = Rank(w, t) => s = t
  <2>1. PICK i \in 1 .. n : p[i] = s
    BY <1>1
  <2>2. PICK j \in 1 .. n : p[j] = t
    BY <1>1
  <2>3. Rank(w, s) = i - 1 /\ Rank(w, t) = j - 1
    BY <1>2, <2>1, <2>2
  <2>4. Apart(i - 1, j - 1) = 1 <=> i = j + 1 \/ j = i + 1
    BY <1>1 DEF Apart
  <2>5. p[i] \in Neighbors(p[j]) <=> i = j + 1 \/ j = i + 1
    BY <1>1
  <2>6. i - 1 = j - 1 => i = j
    BY <1>1
  <2> QED
    BY <2>1, <2>2, <2>3, <2>4, <2>5, <2>6
<1>5. w.outlets = {t \in w.river : Rank(w, t) = 0}
  <2>1. 1 \in 1 .. n /\ p[1] \in w.river /\ Rank(w, p[1]) = 0
    BY <1>1, <1>2
  <2>2. ASSUME NEW t \in w.river, Rank(w, t) = 0 PROVE t = p[1]
    BY <1>4, <2>1, <2>2
  <2> QED
    BY <1>3, <2>1, <2>2
<1>6. \A t \in w.river : Rank(w, t) = Cardinality(w.river) - 1 => t = p[n]
  <2>1. n \in 1 .. n /\ p[n] \in w.river /\ Rank(w, p[n]) = Cardinality(w.river) - 1
    BY <1>1, <1>2
  <2> QED
    BY <1>4, <2>1
<1> QED
  BY <1>1, <1>3, <1>4, <1>5, <1>6 DEF OneRiver

(* A part of a finite set is finite, with no more members.                 *)
LEMMA SubsetIsSmaller ==
  ASSUME NEW S, IsFiniteSet(S), NEW T, T \in SUBSET S
  PROVE  /\ IsFiniteSet(T) /\ Cardinality(T) \in Nat
         /\ Cardinality(T) <= Cardinality(S)
BY FS_Subset, FS_CardinalityType

LEMMA OneRiverFalls ==
  ASSUME NEW w, Watered(w), OneRiver(w)
  PROVE  \E p : Falls(w, p)
<1> DEFINE n == Cardinality(w.river)
           lower(t) == {s \in w.river : w.elevation[s] < w.elevation[t]}
           r == [t \in w.river |-> Rank(w, t)]
           p == [i \in 1 .. n |-> CHOOSE t \in w.river : Rank(w, t) = i - 1]
<1>1. /\ IsFiniteSet(w.river) /\ n \in Nat /\ n >= MinRiver /\ n >= 2
      /\ \A t \in w.river : w.elevation[t] \in Int
      /\ w.river \subseteq Tiles
  <2>1. IsFiniteSet(w.river)
    BY MapIs, FS_Subset DEF Watered
  <2>2. n \in Nat
    BY <2>1, FS_CardinalityType
  <2> QED
    BY <2>1, <2>2, DistanceAssumption DEF OneRiver, Watered
<1>2. /\ \A s, t \in w.river :
           /\ s \in Neighbors(t) <=> Apart(Rank(w, s), Rank(w, t)) = 1
           /\ Rank(w, s) = Rank(w, t) => s = t
      /\ w.outlets = {t \in w.river : Rank(w, t) = 0}
      /\ \A t \in w.outlets : AdjacentTerrain(w, t, "WATER")
      /\ \A t \in w.river : w.terrain[t] \notin {"WATER", "SETTLEMENT"}
      /\ \A t \in w.river : Rank(w, t) = n - 1 =>
           /\ w.terrain[t] = "HILLS"
           /\ \A u \in Sea(w) : Manhattan(t, u) >= SourceDistance
  BY DEF OneRiver
<1>3. ASSUME NEW t \in w.river
      PROVE  /\ Rank(w, t) \in 0 .. n - 1 /\ IsFiniteSet(lower(t))
             /\ Rank(w, t) = Cardinality(lower(t))
  <2>1. /\ IsFiniteSet(w.river \ {t}) /\ Cardinality(w.river \ {t}) = n - 1
        /\ lower(t) \in SUBSET (w.river \ {t})
    <3>1. IsFiniteSet(w.river \ {t}) /\ Cardinality(w.river \ {t}) = n - 1
      BY <1>1, FS_RemoveElement
    <3>2. w.elevation[t] \in Int
      BY <1>1
    <3>3. t \notin lower(t)
      BY <3>2
    <3> QED
      BY <3>1, <3>3
  <2>2. IsFiniteSet(lower(t)) /\ Cardinality(lower(t)) <= n - 1
        /\ Cardinality(lower(t)) \in Nat
    <3> HIDE DEF lower, n
    <3>1. /\ IsFiniteSet(lower(t)) /\ Cardinality(lower(t)) \in Nat
          /\ Cardinality(lower(t)) <= Cardinality(w.river \ {t})
      BY <2>1, SubsetIsSmaller, Zenon
    <3> QED
      BY <2>1, <3>1
  <2>3. Rank(w, t) = Cardinality(lower(t))
    BY DEF Rank
  <2>4. Cardinality(lower(t)) \in 0 .. n - 1
    <3> DEFINE c == Cardinality(lower(t))
    <3>1. c \in Nat /\ c <= n - 1 /\ n \in Nat
      BY <1>1, <2>2
    <3> HIDE DEF c, n
    <3>2. c \in 0 .. n - 1
      BY <3>1
    <3> QED
      BY <3>2 DEF c
  <2> HIDE DEF lower, n
  <2> QED
    BY <2>2, <2>3, <2>4, Zenon
<1>4. ASSUME NEW s \in w.river, NEW t \in w.river, Rank(w, s) < Rank(w, t)
      PROVE  w.elevation[s] < w.elevation[t]
  <2> SUFFICES ASSUME ~(w.elevation[s] < w.elevation[t]) PROVE FALSE
    OBVIOUS
  <2>1. lower(t) \in SUBSET lower(s)
    BY <1>1
  <2> HIDE DEF lower, n
  <2>2. Cardinality(lower(t)) <= Cardinality(lower(s))
    BY <1>3, <2>1, SubsetIsSmaller, Zenon
  <2> QED
    BY <1>3, <1>4, <2>2
<1>5. r \in Injection(w.river, 0 .. n - 1)
  <2>1. r \in [w.river -> 0 .. n - 1]
    BY <1>3
  <2>2. \A s, t \in w.river : r[s] = r[t] => s = t
    BY <1>2
  <2> HIDE DEF r
  <2> QED
    BY <2>1, <2>2 DEF Injection, IsInjective
<1>6. IsFiniteSet(0 .. n - 1) /\ Cardinality(0 .. n - 1) = n
  BY <1>1, FS_Interval
<1>7. r \in Surjection(w.river, 0 .. n - 1)
  BY <1>1, <1>5, <1>6, FS_Injection
<1>8. \A m \in 0 .. n - 1 : \E t \in w.river : Rank(w, t) = m
  <2>1. \A m \in 0 .. n - 1 : \E t \in w.river : r[t] = m
    BY <1>7 DEF Surjection
  <2> QED
    BY <2>1
<1>9. \A i \in 1 .. n : p[i] \in w.river /\ Rank(w, p[i]) = i - 1
  <2> SUFFICES ASSUME NEW i \in 1 .. n
               PROVE  p[i] \in w.river /\ Rank(w, p[i]) = i - 1
    OBVIOUS
  <2>1. i - 1 \in 0 .. n - 1
    BY <1>1
  <2> QED
    BY <1>8, <2>1
<1>10. p \in Seq(w.river) /\ Len(p) = n
  BY <1>1, <1>9
<1> HIDE DEF p, n, r, lower
<1>11. Line(w.river, p)
  <2>1. \A t \in w.river : \E i \in 1 .. n : p[i] = t
    <3> SUFFICES ASSUME NEW t \in w.river PROVE \E i \in 1 .. n : p[i] = t
      OBVIOUS
    <3>1. Rank(w, t) + 1 \in 1 .. n /\ (Rank(w, t) + 1) - 1 = Rank(w, t)
      BY <1>1, <1>3
    <3>2. p[Rank(w, t) + 1] = t
      BY <1>2, <1>9, <3>1
    <3> QED
      BY <3>1, <3>2
  <2>2. \A i, j \in 1 .. n : p[i] = p[j] => i = j
    <3> SUFFICES ASSUME NEW i \in 1 .. n, NEW j \in 1 .. n, p[i] = p[j]
                 PROVE  i = j
      OBVIOUS
    <3>1. i - 1 = j - 1
      BY <1>9
    <3> QED
      BY <1>1, <3>1
  <2>3. \A i, j \in 1 .. n : p[j] \in Neighbors(p[i]) <=> j = i + 1 \/ i = j + 1
    <3> SUFFICES ASSUME NEW i \in 1 .. n, NEW j \in 1 .. n
                 PROVE  p[j] \in Neighbors(p[i]) <=> j = i + 1 \/ i = j + 1
      OBVIOUS
    <3>1. p[j] \in Neighbors(p[i]) <=> Apart(j - 1, i - 1) = 1
      BY <1>2, <1>9
    <3>2. Apart(j - 1, i - 1) = 1 <=> j = i + 1 \/ i = j + 1
      BY <1>1 DEF Apart
    <3> QED
      BY <3>1, <3>2
  <2> QED
    BY <1>10, <2>1, <2>2, <2>3 DEF Line, n
<1>12. Rising(w, p)
  <2> SUFFICES ASSUME NEW i \in 1 .. n, NEW j \in 1 .. n, i < j
               PROVE  w.elevation[p[i]] < w.elevation[p[j]]
    BY <1>10 DEF Rising
  <2>1. i - 1 < j - 1
    BY <1>1
  <2> QED
    BY <1>4, <1>9, <2>1
<1>13. /\ 1 \in 1 .. n /\ n \in 1 .. n /\ p[1] \in w.river /\ p[n] \in w.river
       /\ Rank(w, p[1]) = 0 /\ Rank(w, p[n]) = n - 1
  BY <1>1, <1>9
<1>14. w.outlets = {p[1]}
  BY <1>2, <1>13
<1>15. Falls(w, p)
  BY <1>1, <1>2, <1>10, <1>11, <1>12, <1>13, <1>14 DEF Falls
<1> QED
  BY <1>15

(* fd_validate_river accepts exactly the rivers of the reference.          *)
LEMMA RiverIsOne ==
  ASSUME NEW w, Watered(w)
  PROVE  River(w) <=> OneRiver(w)
BY RiverFalls, FallsIsOneRiver, OneRiverFalls, FallsIsRiver

-----------------------------------------------------------------------------
(* What HYDROLOGY stands for.                                              *)
LEMMA HydrologyPasses ==
  ASSUME NEW w, w.outlets \subseteq Tiles
  PROVE  "HYDROLOGY" \in Passed(w) <=>
           River(w) /\ w.river_tile_count = Cardinality(w.river)
<1> DEFINE outlet == Outlet(w)
           river_count == IF outlet = Nowhere THEN 0 ELSE Cardinality(w.river)
           road_holds == Road(w)
           road_count == IF road_holds THEN Cardinality(w.road) ELSE 0
           graph == /\ outlet # Nowhere
                    /\ OwnershipGraph(w, river_count, road_count, outlet)
           reachable == road_holds /\ w.road_tile_count = road_count
           verdict(i) ==
             CASE i = "BOUNDS" -> TRUE
               [] i = "LAND_COAST" ->
                    /\ FirstFailed(w) = Nowhere /\ CoastLand(w)
                    /\ w.land_tile_count = Cardinality(Land(w))
               [] i = "TERRAIN_COVERAGE" -> Coverage(w)
               [] i = "HYDROLOGY" ->
                    outlet # Nowhere /\ w.river_tile_count = river_count
               [] i = "SETTLEMENTS" -> outlet # Nowhere /\ Settlements(w, outlet)
               [] i \in {"ROAD_CORRIDOR", "OBJECTIVE_REACHABLE"} -> reachable
               [] i \in {"OWNERSHIP", "GRAPH_TILE_AGREEMENT"} -> graph
<1>1. Passed(w) = {i \in Invariants : [j \in Invariants |-> verdict(j)][i]}
  BY Zenon DEF Passed
<1>2. "HYDROLOGY" \in Invariants
  BY DEF Invariants
<1>3. "HYDROLOGY" \in Passed(w) <=> verdict("HYDROLOGY")
  <2> HIDE DEF verdict
  <2> QED
    BY <1>1, <1>2
<1> HIDE DEF outlet, river_count, road_holds, road_count
<1>4. verdict("HYDROLOGY") <=>
        outlet # Nowhere /\ w.river_tile_count = river_count
  OBVIOUS
<1>5. outlet # Nowhere <=> River(w)
  <2>1. CASE River(w)
    <3>1. IsFiniteSet(w.outlets) /\ Cardinality(w.outlets) = 1
      BY <2>1, MapIs, FS_Subset DEF River
    <3>2. PICK e : w.outlets = {e}
      BY <3>1, OnlyOne
    <3>3. outlet \in w.outlets
      BY <2>1, <3>2 DEF outlet, Outlet
    <3> QED
      BY <2>1, <3>3, NowhereAssumption
  <2>2. CASE ~River(w)
    BY <2>2 DEF outlet, Outlet
  <2> QED
    BY <2>1, <2>2
<1>6. outlet # Nowhere => river_count = Cardinality(w.river)
  BY DEF river_count
<1> HIDE DEF verdict
<1> QED
  BY <1>3, <1>4, <1>5, <1>6, Zenon

(* The world of a candidate has its river on the map, and elevations that  *)
(* are numbers.                                                            *)
BedKept == {"river", "elevation"} \subseteq DOMAIN world /\ Watered(world)
BedIInv == CandidateIInv /\ BedKept

LEMMA BedStarts == CandidateInit => BedKept
<1> SUFFICES ASSUME CandidateInit PROVE BedKept
  OBVIOUS
<1>1. CASE GeneratedInit
  <2>1. /\ {"river", "elevation"} \subseteq DOMAIN Blank
        /\ Blank.river = {} /\ Blank.elevation = [t \in Tiles |-> 0]
    BY DEF Blank
  <2> QED
    BY <1>1, <2>1 DEF GeneratedInit, BedKept, Watered
<1>2. CASE LoadedInit
  <2>1. world \in Worlds
    BY <1>2, MapsAssumption DEF LoadedInit
  <2>2. /\ {"river", "elevation"} \subseteq DOMAIN world
        /\ world.river \subseteq Tiles /\ world.elevation \in [Tiles -> Int]
    BY <2>1 DEF Worlds
  <2> QED
    BY <2>2 DEF BedKept, Watered
<1> QED
  BY <1>1, <1>2 DEF CandidateInit

LEMMA NumbersAre ==
  /\ \A a, b \in Int : a * b \in Int /\ a + b \in Int /\ a - b \in Int
  /\ \A a, b \in Int : Apart(a, b) \in Int
  /\ \A a \in Int : a \div 4 \in Int /\ a \div 8 \in Int /\ a \div 16 \in Int
  /\ \A a \in Int : a % 4 \in Int /\ a % 8 \in Int /\ a % 16 \in Int
  /\ \A a \in Int : a \div 7 \in Int
BY DEF Apart

LEMMA NaturalsAre ==
  /\ \A a, b \in Nat : a * b \in Nat /\ a + b \in Nat
  /\ \A a \in Nat : a \div 4 \in Nat /\ a \div 8 \in Nat /\ a \div 16 \in Nat
  /\ \A a \in Nat : a % 4 \in 0 .. 3 /\ a % 8 \in 0 .. 7 /\ a % 16 \in 0 .. 15
  /\ \A a \in Nat : a \div 7 \in Nat
<1>1. \A a, b \in Nat : a * b \in Nat /\ a + b \in Nat
  OBVIOUS
<1>2. \A a \in Nat : a \div 4 \in Nat /\ a \div 8 \in Nat /\ a \div 16 \in Nat
  OBVIOUS
<1>3. \A a \in Nat : a % 4 \in 0 .. 3 /\ a % 8 \in 0 .. 7 /\ a % 16 \in 0 .. 15
  OBVIOUS
<1>4. \A a \in Nat : a \div 7 \in Nat
  OBVIOUS
<1> QED
  BY <1>1, <1>2, <1>3, <1>4

(* The corners of the grids around a tile are drawn.                       *)
LEMMA CornersDrawn ==
  ASSUME choice \in ChoiceType, NEW t \in Tiles, NEW o \in 1 .. 3,
         NEW i \in {0, 1}, NEW j \in {0, 1}
  PROVE  choice.lattice[<<o, X(t) \div Scale[o] + i, Y(t) \div Scale[o] + j>>] \in Nat
<1> DEFINE s == Scale[o]
           x == X(t)
           y == Y(t)
           gx == x \div s + i
           gy == y \div s + j
<1>1. /\ Width \in Nat /\ Height \in Nat /\ x \in 0 .. Width - 1
      /\ y \in 0 .. Height - 1 /\ Width >= 32 /\ Height >= 16
  BY CandidateAssumption, RowAndColumn, MapIs
<1>2. s \in {4, 8, 16}
  BY DEF Scale
<1> HIDE DEF s, x, y
<1>3. /\ gx \in 0 .. Width /\ gx * s < Width + s
      /\ gy \in 0 .. Height /\ gy * s < Height + s
  <2>1. CASE s = 4
    BY <1>1, <2>1
  <2>2. CASE s = 8
    BY <1>1, <2>2
  <2>3. CASE s = 16
    BY <1>1, <2>3
  <2> QED
    BY <1>2, <2>1, <2>2, <2>3
<1> HIDE DEF gx, gy
<1>4. <<o, gx, gy>> \in Corners
  BY <1>3 DEF Corners, s
<1>5. choice.lattice \in [Corners -> 0 .. 1023]
  BY DEF ChoiceType
<1>6. choice.lattice[<<o, gx, gy>>] \in 0 .. 1023
  BY <1>4, <1>5
<1>7. choice.lattice[<<o, gx, gy>>] \in Nat
  <2>1. \A v \in 0 .. 1023 : v \in Nat
    OBVIOUS
  <2> QED
    BY <1>6, <2>1, Zenon
<1> QED
  BY <1>7, Zenon DEF gx, gy, x, y, s

LEMMA AdditionIs ==
  ASSUME choice \in ChoiceType, NEW t \in Tiles, NEW o \in 1 .. 3
  PROVE  Addition(o, t) \in Nat
<1> DEFINE s == Scale[o]
           gx == X(t) \div s
           gy == Y(t) \div s
           dx == X(t) % s
           dy == Y(t) % s
           left(row) == choice.lattice[<<o, gx, row>>]
           right(row) == choice.lattice[<<o, gx + 1, row>>]
           between(row) == (left(row) * (s - dx) + right(row) * dx) \div s
<1>1. X(t) \in Nat /\ Y(t) \in Nat
  <2>1. X(t) \in 0 .. Width - 1 /\ Y(t) \in 0 .. Height - 1
    BY RowAndColumn
  <2> QED
    BY <2>1, MapIs
<1>2. s \in {4, 8, 16} /\ Weight[o] \in Nat
  BY DEF Scale, Weight
<1> HIDE DEF s
<1>3. /\ gx \in Nat /\ gy \in Nat /\ dx \in Nat /\ dy \in Nat
      /\ s - dx \in Nat /\ s - dy \in Nat
  <2> DEFINE x == X(t)
             y == Y(t)
  <2>1. x \in Nat /\ y \in Nat
    BY <1>1
  <2> HIDE DEF x, y
  <2>2. /\ x \div s \in Nat /\ y \div s \in Nat /\ x % s \in Nat /\ y % s \in Nat
        /\ s - (x % s) \in Nat /\ s - (y % s) \in Nat
    <3>1. CASE s = 4
      BY <2>1, <3>1
    <3>2. CASE s = 8
      BY <2>1, <3>2
    <3>3. CASE s = 16
      BY <2>1, <3>3
    <3> QED
      BY <1>2, <3>1, <3>2, <3>3
  <2> QED
    BY <2>2 DEF x, y
<1>4. \A a \in Nat : a \div s \in Nat
  BY <1>2
<1>5. /\ left(gy) \in Nat /\ right(gy) \in Nat
      /\ left(gy + 1) \in Nat /\ right(gy + 1) \in Nat
  <2>1. /\ choice.lattice[<<o, gx + 0, gy + 0>>] \in Nat
        /\ choice.lattice[<<o, gx + 1, gy + 0>>] \in Nat
        /\ choice.lattice[<<o, gx + 0, gy + 1>>] \in Nat
        /\ choice.lattice[<<o, gx + 1, gy + 1>>] \in Nat
    BY CornersDrawn DEF s
  <2>2. gx + 0 = gx /\ gy + 0 = gy
    BY <1>3
  <2> HIDE DEF gx, gy
  <2> QED
    BY <2>1, <2>2
<1> HIDE DEF gx, gy, dx, dy, left, right
<1>6. s \in Nat /\ s - dx \in Nat /\ s - dy \in Nat
  BY <1>2, <1>3
<1>7. between(gy) \in Nat
  <2>1. left(gy) * (s - dx) \in Nat /\ right(gy) * dx \in Nat
    BY <1>3, <1>5, <1>6, NaturalsAre, Zenon
  <2> QED
    BY <1>4, <2>1, NaturalsAre, Zenon
<1>8. between(gy + 1) \in Nat
  <2>1. left(gy + 1) * (s - dx) \in Nat /\ right(gy + 1) * dx \in Nat
    BY <1>3, <1>5, <1>6, NaturalsAre, Zenon
  <2> QED
    BY <1>4, <2>1, NaturalsAre, Zenon
<1> HIDE DEF between
<1>9. (between(gy) * (s - dy) + between(gy + 1) * dy) \div s \in Nat
  <2>1. between(gy) * (s - dy) \in Nat /\ between(gy + 1) * dy \in Nat
    BY <1>3, <1>6, <1>7, <1>8, NaturalsAre, Zenon
  <2> QED
    BY <1>4, <2>1, NaturalsAre, Zenon
<1>10. (((between(gy) * (s - dy) + between(gy + 1) * dy) \div s) * Weight[o]) \div 7
         \in Nat
  BY <1>2, <1>9, NaturalsAre, Zenon
<1> QED
  BY <1>10, Zenon DEF Addition, between, left, right, gx, gy, dx, dy, s

LEMMA CoastTypes ==
  ASSUME choice \in ChoiceType, NEW t \in Tiles
  PROVE  CoastX(WaterWidth(Y(t))) \in Int
<1>1. /\ Width \in Nat /\ Height \in Nat /\ Width >= 32
      /\ Y(t) \in 0 .. Height - 1
  BY CandidateAssumption, RowAndColumn, MapIs
<1>2. Amplitude \in Nat \ {0} /\ BaseWater \in Int
  BY <1>1 DEF Amplitude, BaseWater
<1> DEFINE y == Y(t)
           a == Amplitude
           drawn == IF choice.fallback THEN y % (2 * a + 1) ELSE choice.offset[y]
<1>3. 2 * a + 1 \in Nat \ {0} /\ a \in Int
  BY <1>2
<1>4. choice.offset[y] \in Int
  <2>1. choice.offset \in [0 .. Height - 1 -> 0 .. 2 * a]
    BY DEF ChoiceType
  <2>2. choice.offset[y] \in 0 .. 2 * a
    BY <1>1, <2>1
  <2> HIDE DEF a, y
  <2> QED
    BY <1>3, <2>2
<1> HIDE DEF y, a
<1>5. y \in Int /\ y % (2 * a + 1) \in Int
  BY <1>1, <1>3 DEF y
<1>6. drawn \in Int
  BY <1>4, <1>5
<1>7. WaterWidth(y) = IF y \in {OutletY, CoastalY} THEN BaseWater
                      ELSE BaseWater + drawn - a
  BY Zenon DEF WaterWidth, a
<1> HIDE DEF drawn
<1>8. WaterWidth(y) \in Int
  BY <1>2, <1>3, <1>6, <1>7
<1> QED
  BY <1>1, <1>8 DEF CoastX, y

LEMMA CoastBed ==
  ASSUME BedIInv, Coast PROVE BedKept'
<1>1. {"river", "elevation"} \subseteq DOMAIN world /\ Watered(world)
  BY DEF BedIInv, BedKept
<1>2. choice \in ChoiceType
  BY CandidateAssumption DEF BedIInv, CandidateIInv, PlacesKept, Coast
<1> DEFINE e == [t \in Tiles |->
                   IF IsWater(t) THEN 0
                   ELSE 100 + 100 * Apart(X(t), CoastX(WaterWidth(Y(t))))
                          + Addition(1, t) + Addition(2, t) + Addition(3, t)]
<1>3. /\ DOMAIN world' = DOMAIN world
      /\ world'.river = world.river /\ world'.elevation = e
  <2> HIDE DEF e
  <2>1. \E terrain, count :
          world' = [world EXCEPT !.terrain = terrain, !.elevation = e,
                                 !.land_tile_count = count]
    BY DEF Coast, e
  <2> QED
    BY <1>1, <2>1
<1>4. e \in [Tiles -> Int]
  <2> SUFFICES ASSUME NEW t \in Tiles
               PROVE  100 + 100 * Apart(X(t), CoastX(WaterWidth(Y(t))))
                          + Addition(1, t) + Addition(2, t) + Addition(3, t) \in Int
    OBVIOUS
  <2>1. X(t) \in Int /\ CoastX(WaterWidth(Y(t))) \in Int
    BY <1>2, CoastTypes, RowAndColumn, MapIs
  <2>2. Apart(X(t), CoastX(WaterWidth(Y(t)))) \in Int
    BY <2>1, NumbersAre, Zenon
  <2>3. Addition(1, t) \in Int /\ Addition(2, t) \in Int /\ Addition(3, t) \in Int
    BY <1>2, AdditionIs
  <2> QED
    BY <2>2, <2>3
<1> HIDE DEF e
<1> QED
  BY <1>1, <1>3, <1>4 DEF BedKept, Watered

-----------------------------------------------------------------------------
LEMMA BetweenIs ==
  ASSUME NEW n \in Nat, NEW a \in 0 .. n, NEW b \in 0 .. n
  PROVE  Towards(a, b) \in Seq(0 .. n)
<1> DEFINE m == Apart(a, b)
<1>1. m \in Nat /\ \A i \in 1 .. m : (IF a <= b THEN a + i ELSE a - i) \in 0 .. n
  BY DEF Apart
<1> HIDE DEF m
<1>2. Towards(a, b) = [i \in 1 .. m |-> IF a <= b THEN a + i ELSE a - i]
  BY DEF Towards, m
<1>3. Towards(a, b) \in [1 .. m -> 0 .. n]
  BY <1>1, <1>2
<1> QED
  BY <1>1, <1>3

(* The river is drawn on the map.                                          *)
LEMMA CourseOnMap ==
  ASSUME choice \in Choices
  PROVE  Course \in Seq(Tiles)
<1>1. /\ Width \in Nat /\ Height \in Nat /\ Width >= 32 /\ Height >= 16
      /\ choice \in ChoiceType
  BY CandidateAssumption, MapIs
<1>2. /\ choice.outlet \in Nat /\ choice.source \in 0 .. 2
      /\ choice.river_tie \in 0 .. 1 /\ choice.west \in BOOLEAN
  <2>1. OutletRange \in Int
    BY <1>1 DEF OutletRange
  <2> QED
    BY <1>1, <2>1 DEF ChoiceType
<1>3. CoastalX \in 0 .. Width - 2 /\ CoastalX >= 1
  <2>1. BaseWater \in 1 .. Width - 2
    BY <1>1 DEF BaseWater
  <2> QED
    BY <1>1, <1>2, <2>1 DEF CoastalX, CoastX
<1>4. OutletY \in 0 .. Height - 1
  BY <1>1, <1>2 DEF OutletY
<1>5. SourceX \in 0 .. Width - 1 /\ SourceY \in 0 .. Height - 1
  <2>1. SourceX \in 0 .. Width - 1
    BY <1>1 DEF SourceX
  <2>2. SourceY \in 0 .. Height - 1
    BY <1>1, <1>2, <1>4 DEF SourceY, CoastalY
  <2> QED
    BY <2>1, <2>2
<1>6. BendX \in 0 .. Width - 1
  BY <1>1, <1>2, <1>3, <1>5 DEF BendX
<1> DEFINE
  first == Towards(CoastalX, BendX)
  bend == Towards(OutletY, SourceY)
  last == Towards(BendX, SourceX)
  s == [i \in 1 .. Len(first) |-> TileAt(first[i], OutletY)]
  t == [i \in 1 .. Len(bend) |-> TileAt(BendX, bend[i])]
  u == [i \in 1 .. Len(last) |-> TileAt(last[i], SourceY)]
<1>7. /\ first \in Seq(0 .. Width - 1) /\ bend \in Seq(0 .. Height - 1)
      /\ last \in Seq(0 .. Width - 1)
  <2>1. Width - 1 \in Nat /\ Height - 1 \in Nat /\ CoastalX \in 0 .. Width - 1
    BY <1>1, <1>3
  <2> QED
    BY <1>4, <1>5, <1>6, <2>1, BetweenIs
<1> HIDE DEF first, bend, last
<1>8. /\ \A i \in 1 .. Len(first) : TileAt(first[i], OutletY) \in Tiles
      /\ \A i \in 1 .. Len(bend) : TileAt(BendX, bend[i]) \in Tiles
      /\ \A i \in 1 .. Len(last) : TileAt(last[i], SourceY) \in Tiles
  <2>1. ASSUME NEW S, NEW q \in Seq(S), NEW i \in 1 .. Len(q) PROVE q[i] \in S
    OBVIOUS
  <2>2. /\ \A i \in 1 .. Len(first) : first[i] \in 0 .. Width - 1
        /\ \A i \in 1 .. Len(bend) : bend[i] \in 0 .. Height - 1
        /\ \A i \in 1 .. Len(last) : last[i] \in 0 .. Width - 1
    BY <1>7, <2>1, Zenon
  <2> HIDE DEF s, t, u
  <2> QED
    BY <1>4, <1>5, <1>6, <2>2, TileIs, Zenon
<1>9. s \in Seq(Tiles) /\ t \in Seq(Tiles) /\ u \in Seq(Tiles)
  BY <1>7, <1>8
<1> HIDE DEF s, t, u
<1>10. <<TileAt(CoastalX, OutletY)>> \in Seq(Tiles)
  <2>1. TileAt(CoastalX, OutletY) \in Tiles
    BY DrawnIsOnMap
  <2> QED
    BY <2>1
<1>11. (<<TileAt(CoastalX, OutletY)>> \o s \o t \o u) \in Seq(Tiles)
  BY <1>9, <1>10
<1> QED
  BY <1>11, Zenon DEF Course, first, bend, last, s, t, u

LEMMA RiverBed ==
  ASSUME BedIInv, ConstructRiver PROVE BedKept'
<1>1. {"river", "elevation"} \subseteq DOMAIN world /\ Watered(world)
  BY DEF BedIInv, BedKept
<1>2. choice \in Choices
  BY DEF BedIInv, CandidateIInv, PlacesKept, ConstructRiver
<1> DEFINE on == {Course[i] : i \in 1 .. Len(Course)}
           rank == [t \in on |-> CHOOSE i \in 1 .. Len(Course) : Course[i] = t]
           e == [t \in Tiles |-> IF t \in on THEN RiverElevation(rank[t])
                                 ELSE world.elevation[t]]
<1>3. on \subseteq Tiles /\ Len(Course) \in Nat
  <2>1. Course \in Seq(Tiles)
    BY <1>2, CourseOnMap
  <2> DEFINE c == Course
  <2>2. c \in Seq(Tiles)
    BY <2>1
  <2> HIDE DEF c
  <2>3. \A i \in 1 .. Len(c) : c[i] \in Tiles
    BY <2>2
  <2>4. Len(c) \in Nat
    BY <2>2
  <2> QED
    BY <2>3, <2>4 DEF c
<1>4. e \in [Tiles -> Int]
  <2> SUFFICES ASSUME NEW t \in Tiles
               PROVE  (IF t \in on THEN RiverElevation(rank[t])
                       ELSE world.elevation[t]) \in Int
    OBVIOUS
  <2>1. CASE t \in on
    <3>1. PICK i \in 1 .. Len(Course) : Course[i] = t
      BY <2>1
    <3>2. rank[t] \in 1 .. Len(Course)
      BY <2>1, <3>1
    <3> HIDE DEF rank
    <3>3. rank[t] \in Int
      BY <1>3, <3>2
    <3>4. RiverElevation(rank[t]) \in Int
      BY <3>3 DEF RiverElevation
    <3> QED
      BY <2>1, <3>4
  <2>2. CASE t \notin on
    <3>1. world.elevation[t] \in Int
      BY <1>1 DEF Watered
    <3> QED
      BY <2>2, <3>1
  <2> QED
    BY <2>1, <2>2
<1>5. \/ UNCHANGED world
      \/ /\ DOMAIN world' = DOMAIN world
         /\ world'.river = on /\ world'.elevation = e
  <2> DEFINE terrain == [t \in Tiles |->
                IF t = Course[Len(Course)] THEN "HILLS"
                ELSE IF t \in on THEN "GRASSLAND" ELSE world.terrain[t]]
  <2>1. \/ UNCHANGED world
        \/ world' = [world EXCEPT !.terrain = terrain, !.elevation = e,
                                  !.river = on, !.outlets = {Course[1]},
                                  !.river_tile_count = Len(Course)]
    BY DEF ConstructRiver
  <2> HIDE DEF e, on, terrain
  <2> QED
    BY <1>1, <2>1
<1> HIDE DEF e, on
<1>6. CASE UNCHANGED world
  BY <1>1, <1>6 DEF BedKept, Watered
<1>7. CASE /\ DOMAIN world' = DOMAIN world
           /\ world'.river = on /\ world'.elevation = e
  BY <1>1, <1>3, <1>4, <1>7 DEF BedKept, Watered
<1> QED
  BY <1>5, <1>6, <1>7

LEMMA OtherBeds ==
  ASSUME BedIInv,
         \/ AssignBiomes \/ ConstructMissing \/ InitializeEntities
         \/ ConstructRoad \/ ValidateCandidate \/ ValidateLoaded
         \/ UNCHANGED candidateVars
  PROVE  BedKept'
<1>1. {"river", "elevation"} \subseteq DOMAIN world /\ Watered(world)
  BY DEF BedIInv, BedKept
<1>2. SUFFICES /\ DOMAIN world' = DOMAIN world /\ world'.river = world.river
               /\ world'.elevation = world.elevation
  BY <1>1 DEF BedKept, Watered
<1>3. CASE AssignBiomes
  BY <1>1, <1>3 DEF AssignBiomes
<1>4. CASE ConstructMissing
  BY <1>1, <1>4 DEF ConstructMissing
<1>5. CASE InitializeEntities
  BY <1>1, <1>5 DEF InitializeEntities
<1>6. CASE ConstructRoad
  BY <1>1, <1>6 DEF ConstructRoad
<1>7. CASE ValidateCandidate \/ ValidateLoaded \/ UNCHANGED candidateVars
  BY <1>7 DEF ValidateCandidate, ValidateLoaded, Validate, candidateVars
<1> QED
  BY <1>3, <1>4, <1>5, <1>6, <1>7

LEMMA BedStepKeeps == BedIInv /\ [CandidateNext]_candidateVars => BedIInv'
<1> SUFFICES ASSUME BedIInv, [CandidateNext]_candidateVars PROVE BedIInv'
  OBVIOUS
<1>1. CandidateIInv'
  BY CandidateStepKeeps DEF BedIInv
<1>2. BedKept'
  BY CoastBed, RiverBed, OtherBeds DEF CandidateNext
<1> QED
  BY <1>1, <1>2 DEF BedIInv

LEMMA HydrologyFollows == BedIInv => HydrologyIsOnePath
<1> SUFFICES ASSUME BedIInv, Reported
             PROVE  Holds("HYDROLOGY") <=>
                      /\ OneRiver(world)
                      /\ world.river_tile_count = Cardinality(world.river)
  BY DEF HydrologyIsOnePath
<1>1. report.passed = Passed(world)
  BY DEF BedIInv, CandidateIInv, ReportKept, Reported, Report
<1>2. Watered(world) /\ world.outlets \subseteq Tiles
  BY DEF BedIInv, BedKept, CandidateIInv, PlacesKept, Placed
<1>3. Holds("HYDROLOGY") <=> "HYDROLOGY" \in Passed(world)
  BY <1>1 DEF Holds
<1>4. River(world) <=> OneRiver(world)
  BY <1>2, RiverIsOne
<1> QED
  BY <1>2, <1>3, <1>4, HydrologyPasses

(* For every size of map and every world a save can hold: what             *)
(* fd_validate_river counts and walks - degrees, ends, one outlet, a climb *)
(* that visits every tile - is passed by exactly the rivers that are one   *)
(* line of tiles falling from a hill to the sea.                           *)
THEOREM HydrologyIsTold == CandidateSpec => []HydrologyIsOnePath
<1>1. CandidateInit => BedIInv
  BY CandidateStarts, BedStarts DEF BedIInv
<1>2. BedIInv /\ [CandidateNext]_candidateVars => BedIInv'
  BY BedStepKeeps
<1>3. BedIInv => HydrologyIsOnePath
  BY HydrologyFollows
<1> QED
  BY <1>1, <1>2, <1>3, PTL DEF CandidateSpec

-----------------------------------------------------------------------------
(* A step repeated from a beginning, as a function on the numbers.         *)
LEMMA IterationExists ==
  ASSUME NEW D, NEW a \in D, NEW S \in [D -> D]
  PROVE  \E f \in [Nat -> D] : f[0] = a /\ \A n \in Nat : f[n + 1] = S[f[n]]
<1> DEFINE Begin(g, n) == /\ g \in [0 .. n -> D] /\ g[0] = a
                          /\ \A k \in 1 .. n : g[k] = S[g[k - 1]]
<1>1. ASSUME NEW n \in Nat, NEW m \in Nat, NEW g, NEW h, Begin(g, n), Begin(h, m),
             NEW k \in 0 .. n, k <= m
      PROVE  g[k] = h[k]
  <2> DEFINE B == {i \in 0 .. k : g[i] # h[i]}
  <2> SUFFICES ASSUME B # {} PROVE FALSE
    OBVIOUS
  <2>1. B \subseteq Nat
    OBVIOUS
  <2>2. PICK i \in B : \A j \in B : i <= j
    BY <2>1, LeastExists
  <2>3. i # 0
    BY <1>1, <2>2
  <2>4. i \in 1 .. n /\ i \in 1 .. m /\ i - 1 \in 0 .. k /\ i - 1 \notin B
    BY <1>1, <2>2, <2>3
  <2>5. g[i - 1] = h[i - 1]
    BY <2>4
  <2>6. g[i] = S[g[i - 1]] /\ h[i] = S[h[i - 1]]
    BY <1>1, <2>4
  <2> QED
    BY <2>2, <2>5, <2>6
<1>2. ASSUME NEW n \in Nat PROVE \E g : Begin(g, n)
  <2> DEFINE B == {m \in Nat : ~\E g : Begin(g, m)}
  <2> SUFFICES ASSUME B # {} PROVE FALSE
    OBVIOUS
  <2>0. B \subseteq Nat
    OBVIOUS
  <2>1. PICK m \in B : \A j \in B : m <= j
    <3> HIDE DEF B
    <3> QED
      BY <2>0, LeastExists
  <2>2. Begin([k \in 0 .. 0 |-> a], 0)
    OBVIOUS
  <2>3. m \in Nat /\ m # 0
    BY <2>1, <2>2
  <2>4. m - 1 \in Nat /\ m - 1 \notin B
    <3>1. m - 1 \in Nat /\ ~(m <= m - 1)
      BY <2>3
    <3> HIDE DEF B
    <3> QED
      BY <2>1, <3>1
  <2>5. PICK g : Begin(g, m - 1)
    BY <2>4
  <2> DEFINE h == [k \in 0 .. m |-> IF k = m THEN S[g[m - 1]] ELSE g[k]]
  <2>6. m - 1 \in 0 .. m - 1 /\ g[m - 1] \in D
    BY <2>3, <2>5
  <2>7. h \in [0 .. m -> D] /\ h[0] = a
    BY <2>3, <2>5, <2>6
  <2>8. ASSUME NEW k \in 1 .. m PROVE h[k] = S[h[k - 1]]
    <3>1. k - 1 \in 0 .. m /\ k - 1 # m /\ k \in 0 .. m
      BY <2>3
    <3>2. h[k - 1] = g[k - 1]
      BY <3>1
    <3>3. CASE k = m
      BY <3>1, <3>2, <3>3
    <3>4. CASE k # m
      <4>1. k \in 1 .. m - 1
        BY <2>3, <3>4
      <4>2. g[k] = S[g[k - 1]]
        BY <2>5, <4>1
      <4> QED
        BY <3>1, <3>2, <3>4, <4>2
    <3> QED
      BY <3>3, <3>4
  <2>9. Begin(h, m)
    BY <2>7, <2>8
  <2> HIDE DEF Begin
  <2> QED
    BY <2>1, <2>9
<1> DEFINE G(n) == CHOOSE g : Begin(g, n)
           f == [n \in Nat |-> G(n)[n]]
<1>3. \A n \in Nat : Begin(G(n), n)
  <2> HIDE DEF Begin
  <2> QED
    BY <1>2
<1> HIDE DEF G
<1>4. f \in [Nat -> D]
  <2> SUFFICES ASSUME NEW n \in Nat PROVE G(n)[n] \in D
    OBVIOUS
  <2>1. G(n) \in [0 .. n -> D] /\ n \in 0 .. n
    BY <1>3
  <2> QED
    BY <2>1
<1>5. f[0] = a
  BY <1>3
<1>6. ASSUME NEW n \in Nat PROVE f[n + 1] = S[f[n]]
  <2>1. n + 1 \in Nat /\ n + 1 \in 1 .. n + 1 /\ (n + 1) - 1 = n /\ n \in 0 .. n
        /\ n <= n + 1
    OBVIOUS
  <2>2. G(n + 1)[n + 1] = S[G(n + 1)[n]]
    BY <1>3, <2>1
  <2>3. Begin(G(n), n) /\ Begin(G(n + 1), n + 1)
    BY <1>3, <2>1
  <2>4. G(n)[n] = G(n + 1)[n]
    <3> HIDE DEF Begin
    <3> QED
      BY <1>1, <2>1, <2>3
  <2> QED
    BY <2>1, <2>2, <2>4
<1> HIDE DEF f
<1> QED
  BY <1>4, <1>5, <1>6

LEMMA LowestIs ==
  ASSUME NEW S, S \subseteq Nat, S # {}
  PROVE  Lowest(S) \in S /\ \A n \in S : Lowest(S) <= n
<1>1. \E m \in S : \A n \in S : m <= n
  BY LeastExists
<1> QED
  BY <1>1 DEF Lowest

LEMMA GreatestExists ==
  ASSUME NEW u \in Nat, NEW S, S \subseteq 0 .. u, S # {}
  PROVE  \E i \in S : \A j \in S : j <= i
<1> DEFINE T == {u - x : x \in S}
<1>0. \A x \in S : u - x \in Nat
  OBVIOUS
<1>1. T \subseteq Nat /\ T # {}
  BY <1>0
<1>2. PICK m \in T : \A n \in T : m <= n
  <2> HIDE DEF T
  <2> QED
    BY <1>1, LeastExists
<1>3. PICK i \in S : m = u - i
  BY <1>2
<1>4. ASSUME NEW j \in S PROVE j <= i
  <2>1. u - i <= u - j
    BY <1>2, <1>3
  <2>2. i \in Int /\ j \in Int
    OBVIOUS
  <2> QED
    BY <2>1, <2>2
<1> QED
  BY <1>4

-----------------------------------------------------------------------------
(* Distances over the map: what Relaxed keeps and where it stops.          *)
Fields == [Tiles -> 0 .. Unreached]
Below(g, d) == \A t \in Tiles : g[t] <= d[t]
Costs == [Tiles -> 1 .. Unreached]
Still(cost, d) ==
  \A t \in Tiles : cost[t] # Unreached =>
    \A s \in Neighbors(t) : d[s] # Unreached => d[t] <= d[s] + cost[t]

LEMMA UnreachedIs == Unreached \in Nat \ {0}
<1>1. /\ Width \in Nat /\ Height \in Nat
      /\ Unreached \in Nat /\ Unreached > 30 * Width * Height
  BY CandidateAssumption, MapIs
<1>2. 30 * Width * Height \in Nat
  BY <1>1
<1> HIDE DEF Tiles
<1> QED
  BY <1>1, <1>2

LEMMA RelaxedAt ==
  ASSUME Unreached \in Nat, NEW cost \in Costs, NEW d \in Fields, NEW t \in Tiles
  PROVE  LET r == Relaxed(cost, d)[t]
         IN  /\ r \in 0 .. Unreached /\ r <= d[t]
             /\ cost[t] # Unreached => \A s \in Neighbors(t) :
                  d[s] # Unreached => r <= d[s] + cost[t]
             /\ \/ r = d[t]
                \/ /\ cost[t] # Unreached
                   /\ \E s \in Neighbors(t) :
                        d[s] # Unreached /\ r = d[s] + cost[t]
<1> DEFINE S == {d[t]} \cup {d[s] + cost[t] :
                   s \in {u \in Neighbors(t) : d[u] # Unreached}}
           r == Relaxed(cost, d)[t]
<1>1. r = IF cost[t] = Unreached THEN d[t] ELSE Lowest(S)
  BY DEF Relaxed
<1>2. d[t] \in 0 .. Unreached /\ cost[t] \in 1 .. Unreached
  BY DEF Fields, Costs
<1>3. CASE cost[t] = Unreached
  BY <1>1, <1>2, <1>3
<1>4. CASE cost[t] # Unreached
  <2>1. \A s \in Neighbors(t) : d[s] \in 0 .. Unreached /\ d[s] + cost[t] \in Nat
    <3> SUFFICES ASSUME NEW s \in Neighbors(t)
                 PROVE  d[s] \in 0 .. Unreached /\ d[s] + cost[t] \in Nat
      OBVIOUS
    <3>1. d[s] \in 0 .. Unreached
      BY NeighborsAre DEF Fields
    <3> QED
      BY <1>2, <3>1
  <2>2. S \subseteq Nat /\ d[t] \in S
    BY <1>2, <2>1
  <2>3. /\ Lowest(S) \in S /\ \A n \in S : Lowest(S) <= n
    <3> HIDE DEF S
    <3> QED
      BY <2>2, LowestIs
  <2>4. r = Lowest(S)
    BY <1>1, <1>4
  <2> HIDE DEF r
  <2>5. r \in S /\ r <= d[t] /\ r \in Nat
    BY <2>2, <2>3, <2>4
  <2>6. r \in 0 .. Unreached
    BY <1>2, <2>5
  <2>7. \A s \in Neighbors(t) : d[s] # Unreached => r <= d[s] + cost[t]
    BY <2>3, <2>4
  <2>8. r = d[t] \/ \E s \in Neighbors(t) : d[s] # Unreached /\ r = d[s] + cost[t]
    BY <2>5
  <2> QED
    BY <1>4, <2>5, <2>6, <2>7, <2>8 DEF r
<1> QED
  BY <1>3, <1>4

LEMMA StillIs ==
  ASSUME Unreached \in Nat, NEW cost \in Costs, NEW d \in Fields
  PROVE  /\ Relaxed(cost, d) \in Fields
         /\ Relaxed(cost, d) = d <=> Still(cost, d)
<1> DEFINE r == Relaxed(cost, d)
<1>1. r \in Fields
  <2>1. DOMAIN r = Tiles /\ r = [t \in Tiles |-> r[t]]
    BY DEF Relaxed
  <2>2. \A t \in Tiles : r[t] \in 0 .. Unreached
    BY RelaxedAt
  <2> HIDE DEF r
  <2> QED
    BY <2>1, <2>2 DEF Fields
<1>2. ASSUME r = d PROVE Still(cost, d)
  BY <1>2, RelaxedAt DEF Still
<1>3. ASSUME Still(cost, d) PROVE r = d
  <2>1. ASSUME NEW t \in Tiles PROVE r[t] = d[t]
    <3>1. CASE r[t] = d[t]
      BY <3>1
    <3>2. CASE r[t] # d[t]
      <4>1. PICK s \in Neighbors(t) :
              /\ cost[t] # Unreached /\ d[s] # Unreached
              /\ r[t] = d[s] + cost[t]
        BY <3>2, RelaxedAt
      <4>2. d[t] <= r[t]
        BY <1>3, <4>1 DEF Still
      <4>3. r[t] <= d[t] /\ r[t] \in 0 .. Unreached /\ d[t] \in 0 .. Unreached
        BY RelaxedAt DEF Fields
      <4> QED
        BY <4>2, <4>3
    <3> QED
      BY <3>1, <3>2
  <2> HIDE DEF r
  <2> QED
    BY <1>1, <2>1 DEF Fields
<1> QED
  BY <1>1, <1>2, <1>3

(* What is still and below the distances is below the relaxed ones.        *)
LEMMA StillStaysBelow ==
  ASSUME Unreached \in Nat, NEW cost \in Costs, NEW d \in Fields,
         NEW g \in Fields, Still(cost, g), Below(g, d)
  PROVE  Below(g, Relaxed(cost, d))
<1> DEFINE r == Relaxed(cost, d)
<1> SUFFICES ASSUME NEW t \in Tiles PROVE g[t] <= r[t]
  BY DEF Below
<1>1. g[t] <= d[t]
  BY DEF Below
<1>2. CASE r[t] = d[t]
  BY <1>1, <1>2
<1>3. CASE r[t] # d[t]
  <2>1. PICK s \in Neighbors(t) :
          cost[t] # Unreached /\ d[s] # Unreached /\ r[t] = d[s] + cost[t]
    BY <1>3, RelaxedAt
  <2>2. /\ s \in Tiles /\ g[s] <= d[s]
        /\ d[s] \in 0 .. Unreached /\ g[s] \in 0 .. Unreached
        /\ cost[t] \in 1 .. Unreached /\ g[t] \in 0 .. Unreached
    BY NeighborsAre DEF Below, Fields, Costs
  <2>3. g[s] # Unreached
    BY <2>1, <2>2
  <2>4. g[t] <= g[s] + cost[t]
    BY <2>1, <2>3 DEF Still
  <2> HIDE DEF r
  <2> QED
    BY <2>1, <2>2, <2>4
<1> QED
  BY <1>2, <1>3

Lowering(cost, b) == {f \in Fields : Still(cost, f) /\ Below(f, b)}
Settles(cost, b, d) ==
  /\ d \in Fields /\ Still(cost, d) /\ Below(d, b)
  /\ \A f \in Lowering(cost, b) : Below(f, d)

LEMMA LoweringKept ==
  ASSUME NEW cost \in Costs, NEW b \in Fields
  PROVE  Lowering(cost, b) = Lowering(cost, Relaxed(cost, b))
<1> DEFINE r == Relaxed(cost, b)
<1>1. r \in Fields /\ Below(r, b)
  BY UnreachedIs, StillIs, RelaxedAt DEF Below
<1> HIDE DEF r
<1>2. ASSUME NEW f \in Fields, Still(cost, f), Below(f, b) PROVE Below(f, r)
  BY <1>2, UnreachedIs, StillStaysBelow DEF r
<1>3. ASSUME NEW f \in Fields, Below(f, r) PROVE Below(f, b)
  <2> SUFFICES ASSUME NEW t \in Tiles PROVE f[t] <= b[t]
    BY DEF Below
  <2>1. f[t] <= r[t] /\ r[t] <= b[t]
    BY <1>1, <1>3 DEF Below
  <2>2. f[t] \in Nat /\ r[t] \in Nat /\ b[t] \in Nat
    BY <1>1 DEF Fields
  <2> QED
    BY <2>1, <2>2
<1> QED
  BY <1>2, <1>3 DEF Lowering, r

(* How many values the distances may still fall to.                        *)
Under(b) == {p \in Tiles \X (0 .. Unreached) : p[2] < b[p[1]]}

LEMMA UnderIs ==
  ASSUME NEW b \in Fields
  PROVE  IsFiniteSet(Under(b)) /\ Cardinality(Under(b)) \in Nat
<1>1. IsFiniteSet(Tiles) /\ IsFiniteSet(0 .. Unreached)
  BY MapIs, UnreachedIs, FS_Interval
<1>2. IsFiniteSet(Tiles \X (0 .. Unreached))
  BY <1>1, FS_Product
<1>3. Under(b) \subseteq Tiles \X (0 .. Unreached)
  BY DEF Under
<1>4. IsFiniteSet(Under(b))
  BY <1>2, <1>3, FS_Subset
<1> QED
  BY <1>4, FS_CardinalityType

LEMMA UnderFalls ==
  ASSUME NEW b \in Fields, NEW r \in Fields, Below(r, b), r # b
  PROVE  Cardinality(Under(r)) < Cardinality(Under(b))
<1>1. PICK t \in Tiles : r[t] # b[t]
  BY DEF Fields
<1>2. \A s \in Tiles : r[s] \in 0 .. Unreached /\ b[s] \in 0 .. Unreached /\ r[s] <= b[s]
  BY DEF Fields, Below
<1>3. r[t] < b[t] /\ r[t] \in 0 .. Unreached
  <2>1. r[t] \in 0 .. Unreached /\ b[t] \in 0 .. Unreached /\ r[t] <= b[t]
    BY <1>2
  <2> QED
    BY <1>1, <2>1
<1> DEFINE p == <<t, r[t]>>
           V == Under(b)
<1>4. p \in V
  <2>1. p \in Tiles \X (0 .. Unreached) /\ p[1] = t /\ p[2] = r[t]
    BY <1>3
  <2> QED
    BY <1>3, <2>1 DEF Under
<1>5. Under(r) \subseteq V \ {p}
  <2> SUFFICES ASSUME NEW q \in Under(r) PROVE q \in V /\ q # p
    OBVIOUS
  <2>1. q \in Tiles \X (0 .. Unreached) /\ q[2] < r[q[1]]
    BY DEF Under
  <2>2. q[1] \in Tiles /\ q[2] \in 0 .. Unreached
    BY <2>1
  <2>3. r[q[1]] \in 0 .. Unreached /\ b[q[1]] \in 0 .. Unreached /\ r[q[1]] <= b[q[1]]
    BY <1>2, <2>2
  <2>4. q[2] < b[q[1]]
    BY <2>1, <2>2, <2>3
  <2>5. q # p
    BY <1>3, <2>1
  <2> QED
    BY <2>1, <2>4, <2>5 DEF Under
<1>6. IsFiniteSet(V) /\ Cardinality(V) \in Nat /\ Cardinality(Under(r)) \in Nat
  BY UnderIs
<1> HIDE DEF V, p
<1>7. IsFiniteSet(V \ {p}) /\ Cardinality(V \ {p}) = Cardinality(V) - 1
  BY <1>4, <1>6, FS_RemoveElement
<1>8. Cardinality(Under(r)) <= Cardinality(V \ {p})
  BY <1>5, <1>7, FS_Subset
<1> QED
  BY <1>6, <1>7, <1>8 DEF V

(* Lowering until none falls ends with the greatest still distances.       *)
LoweredStep(cost, g) ==
  [before \in [Tiles -> 0 .. Unreached] |->
     LET after == Relaxed(cost, before)
     IN  IF after = before THEN before ELSE g[after]]

LEMMA LoweredExists ==
  ASSUME NEW cost \in Costs
  PROVE  \E g : g = LoweredStep(cost, g)
<1> DEFINE Values(b, t) == {f[t] : f \in Lowering(cost, b)}
           Top(b, t) == CHOOSE m \in Values(b, t) : \A n \in Values(b, t) : n <= m
           Greatest(b) == [t \in Tiles |-> Top(b, t)]
           H == [b \in [Tiles -> 0 .. Unreached] |-> Greatest(b)]
           Kept(b) == IF Relaxed(cost, b) = b THEN b ELSE H[Relaxed(cost, b)]
<1>1. ASSUME NEW b \in Fields, Relaxed(cost, b) = b
      PROVE  Greatest(b) = b
  <2>1. Still(cost, b)
    BY <1>1, UnreachedIs, StillIs
  <2>2. ASSUME NEW t \in Tiles PROVE Top(b, t) = b[t]
    <3>1. \A s \in Tiles : b[s] <= b[s] /\ b[s] \in Nat
      BY DEF Fields
    <3>2. b \in Lowering(cost, b)
      BY <2>1, <3>1 DEF Lowering, Below
    <3>3. b[t] \in Values(b, t)
      BY <3>2
    <3>4. \A n \in Values(b, t) : n <= b[t] /\ n \in Nat
      BY DEF Lowering, Below, Fields
    <3> DEFINE V == Values(b, t)
    <3> HIDE DEF V
    <3>5. b[t] \in V /\ b[t] \in Nat /\ \A n \in V : n <= b[t] /\ n \in Nat
      BY <3>1, <3>3, <3>4 DEF V
    <3> DEFINE m == CHOOSE i \in V : \A n \in V : n <= i
    <3>6. m \in V /\ \A n \in V : n <= m
      BY <3>5
    <3> HIDE DEF m
    <3>7. m = b[t]
      BY <3>5, <3>6
    <3> QED
      BY <3>7 DEF m, V
  <2> HIDE DEF Top
  <2> QED
    BY <2>2 DEF Fields
<1>2. ASSUME NEW b \in Fields
      PROVE  Greatest(b) = Kept(b)
  <2>1. CASE Relaxed(cost, b) = b
    BY <1>1, <2>1
  <2>2. CASE Relaxed(cost, b) # b
    <3> DEFINE r == Relaxed(cost, b)
    <3>1. r \in [Tiles -> 0 .. Unreached]
      BY UnreachedIs, StillIs DEF Fields
    <3>2. Lowering(cost, b) = Lowering(cost, r)
      BY LoweringKept
    <3> HIDE DEF r
    <3>3. Greatest(b) = Greatest(r)
      BY <3>2
    <3> HIDE DEF Greatest
    <3> QED
      BY <2>2, <3>1, <3>3 DEF r
  <2> QED
    BY <2>1, <2>2
<1>3. H = [b \in [Tiles -> 0 .. Unreached] |-> Kept(b)]
  <2> HIDE DEF Greatest, Kept
  <2> QED
    BY <1>2 DEF Fields
<1>4. H = LoweredStep(cost, H)
  <2> HIDE DEF H
  <2> QED
    BY <1>3, Zenon DEF LoweredStep
<1> QED
  BY <1>4

LEMMA LoweredSettles ==
  ASSUME NEW cost \in Costs, NEW g, g = LoweredStep(cost, g), NEW start \in Fields
  PROVE  Settles(cost, start, g[start])
<1> DEFINE Bad == {b \in Fields : ~Settles(cost, b, g[b])}
           S == {Cardinality(Under(b)) : b \in Bad}
<1> SUFFICES ASSUME Bad # {} PROVE FALSE
  OBVIOUS
<1>1. \A b \in Fields :
        g[b] = IF Relaxed(cost, b) = b THEN b ELSE g[Relaxed(cost, b)]
  BY DEF LoweredStep, Fields
<1>2. S \subseteq Nat /\ S # {}
  BY UnderIs
<1>3. PICK n \in S : \A m \in S : n <= m
  <2> HIDE DEF S
  <2> QED
    BY <1>2, LeastExists
<1>4. PICK b \in Bad : n = Cardinality(Under(b))
  BY <1>3
<1>5. b \in Fields /\ ~Settles(cost, b, g[b])
  BY <1>4
<1> DEFINE r == Relaxed(cost, b)
<1>6. r \in Fields /\ Below(r, b) /\ Lowering(cost, b) = Lowering(cost, r)
  <2>1. b \in Fields
    BY <1>5
  <2>2. r \in Fields /\ Lowering(cost, b) = Lowering(cost, r)
    BY <2>1, UnreachedIs, StillIs, LoweringKept
  <2>3. Below(r, b)
    BY <2>1, UnreachedIs, RelaxedAt DEF Below
  <2> QED
    BY <2>2, <2>3
<1>7. CASE r = b
  <2>1. g[b] = b
    BY <1>1, <1>5, <1>7
  <2>2. Still(cost, b)
    BY <1>5, <1>7, UnreachedIs, StillIs
  <2>3. Settles(cost, b, b)
    <3>1. Below(b, b)
      BY <1>5 DEF Below, Fields
    <3> QED
      BY <1>5, <2>2, <3>1 DEF Settles, Lowering
  <2> QED
    BY <1>5, <2>1, <2>3
<1>8. CASE r # b
  <2>1. Cardinality(Under(r)) < Cardinality(Under(b))
    BY <1>5, <1>6, <1>8, UnderFalls
  <2>2. r \notin Bad
    <3> SUFFICES ASSUME r \in Bad PROVE FALSE
      OBVIOUS
    <3>1. Cardinality(Under(b)) <= Cardinality(Under(r))
      BY <1>3, <1>4
    <3> QED
      BY <1>5, <1>6, <2>1, <3>1, UnderIs
  <2>3. Settles(cost, r, g[r]) /\ g[b] = g[r]
    BY <1>1, <1>5, <1>6, <1>8, <2>2
  <2> HIDE DEF r
  <2>4. Below(g[r], b)
    <3> SUFFICES ASSUME NEW t \in Tiles PROVE g[r][t] <= b[t]
      BY DEF Below
    <3>1. g[r][t] <= r[t] /\ r[t] <= b[t] /\ g[r] \in Fields
      BY <1>6, <2>3 DEF Below, Settles
    <3>2. g[r][t] \in Nat /\ r[t] \in Nat /\ b[t] \in Nat
      BY <1>5, <1>6, <3>1 DEF Fields
    <3> QED
      BY <3>1, <3>2
  <2>5. Settles(cost, b, g[b])
    BY <1>6, <2>3, <2>4 DEF Settles
  <2> QED
    BY <1>5, <2>5
<1> QED
  BY <1>7, <1>8

-----------------------------------------------------------------------------
(* The distances of a road search, and their way back.                     *)
TerrainCost ==
  [t \in Tiles |-> IF world.terrain[t] = "WATER" THEN Unreached ELSE RoadCost(t)]
FromCoast == [t \in Tiles |-> IF t = CoastalTile THEN 0 ELSE Unreached]
Surveyed == world.terrain \in [Tiles -> Terrains]

LEMMA RoadCostIs ==
  ASSUME NEW t \in Tiles, world.terrain[t] \in Dry
  PROVE  RoadCost(t) \in 1 .. 29
<1>1. BaseCost[world.terrain[t]] \in 1 .. 8
  BY DEF BaseCost, Dry
<1> DEFINE b == BaseCost[world.terrain[t]]
<1> HIDE DEF b
<1>2. b \in 1 .. 8
  BY <1>1 DEF b
<1> QED
  BY <1>2 DEF RoadCost, b

LEMMA CostsAre ==
  ASSUME Surveyed
  PROVE  /\ TerrainCost \in Costs
         /\ \A t \in Tiles : IF world.terrain[t] = "WATER"
                             THEN TerrainCost[t] = Unreached
                             ELSE /\ TerrainCost[t] = RoadCost(t)
                                  /\ TerrainCost[t] \in 1 .. 29
                                  /\ TerrainCost[t] # Unreached
<1>1. Unreached \in Nat /\ Unreached > 29
  <2>1. /\ Width \in Nat \ {0} /\ Height \in Nat \ {0}
        /\ Unreached \in Nat /\ Unreached > 30 * Width * Height
    BY CandidateAssumption, MapIs
  <2>2. Width * Height >= 1
    BY <2>1
  <2>3. 30 * Width * Height = 30 * (Width * Height) /\ Width * Height \in Nat
    BY <2>1
  <2> QED
    BY <2>1, <2>2, <2>3
<1>2. ASSUME NEW t \in Tiles
      PROVE  IF world.terrain[t] = "WATER" THEN TerrainCost[t] = Unreached
             ELSE /\ TerrainCost[t] = RoadCost(t) /\ TerrainCost[t] \in 1 .. 29
                  /\ TerrainCost[t] # Unreached
  <2>1. TerrainCost[t] = IF world.terrain[t] = "WATER" THEN Unreached ELSE RoadCost(t)
    BY DEF TerrainCost
  <2>2. CASE world.terrain[t] = "WATER"
    BY <2>1, <2>2
  <2>3. CASE world.terrain[t] # "WATER"
    <3>1. world.terrain[t] \in Dry
      BY <2>3 DEF Surveyed, Terrains
    <3>2. RoadCost(t) \in 1 .. 29
      BY <3>1, RoadCostIs
    <3> QED
      BY <1>1, <2>1, <2>3, <3>2
  <2> QED
    BY <2>2, <2>3
<1>3. \A t \in Tiles : TerrainCost[t] \in 1 .. Unreached
  <2> SUFFICES ASSUME NEW t \in Tiles PROVE TerrainCost[t] \in 1 .. Unreached
    OBVIOUS
  <2>1. TerrainCost[t] = Unreached \/ TerrainCost[t] \in 1 .. 29
    BY <1>2
  <2> QED
    BY <1>1, <2>1
<1>4. TerrainCost \in Costs
  BY <1>3 DEF TerrainCost, Costs
<1> QED
  BY <1>2, <1>4

LEMMA DistancesSettle ==
  ASSUME Surveyed
  PROVE  Settles(TerrainCost, FromCoast, Distances)
<1> DEFINE g == CHOOSE h : h = LoweredStep(TerrainCost, h)
<1>1. TerrainCost \in Costs /\ FromCoast \in Fields
  BY CostsAre, UnreachedIs DEF FromCoast, Fields
<1>2. g = LoweredStep(TerrainCost, g)
  BY <1>1, LoweredExists
<1>3. Distances = g[FromCoast]
  BY Zenon DEF Distances, LoweredStep, TerrainCost, FromCoast
<1> HIDE DEF g
<1> QED
  BY <1>1, <1>2, <1>3, LoweredSettles

(* A tile other than the start has its distance from a neighbor: it could  *)
(* be raised else, and stay still.                                         *)
LEMMA LastStep ==
  ASSUME Surveyed, CoastalTile \in Tiles,
         NEW t \in Tiles, t # CoastalTile, Distances[t] # Unreached
  PROVE  /\ TerrainCost[t] # Unreached
         /\ \E s \in Neighbors(t) :
              /\ Distances[s] # Unreached
              /\ Distances[t] = Distances[s] + TerrainCost[t]
<1> DEFINE d == Distances
           c == TerrainCost
           f == [d EXCEPT ![t] = d[t] + 1]
<1>1. Settles(c, FromCoast, d) /\ c \in Costs /\ Unreached \in Nat
  BY DistancesSettle, CostsAre, UnreachedIs
<1> HIDE DEF d, c
<1>2. d \in Fields /\ Still(c, d) /\ Below(d, FromCoast)
  BY <1>1 DEF Settles
<1>3. d[t] \in 0 .. Unreached /\ d[t] # Unreached
  BY <1>2 DEF Fields, d
<1>4. d[t] + 1 \in 0 .. Unreached
  BY <1>1, <1>3
<1>5. f \in Fields /\ f[t] = d[t] + 1 /\ \A s \in Tiles : s # t => f[s] = d[s]
  BY <1>2, <1>4 DEF Fields
<1> SUFFICES ASSUME ~(/\ c[t] # Unreached
                      /\ \E s \in Neighbors(t) :
                           d[s] # Unreached /\ d[t] = d[s] + c[t])
             PROVE  FALSE
  BY DEF d, c
<1> HIDE DEF f
<1>6. ASSUME NEW u \in Tiles, c[u] # Unreached,
             NEW s \in Neighbors(u), f[s] # Unreached
      PROVE  f[u] <= f[s] + c[u]
  <2>1. s \in Tiles /\ s # u
    BY NeighborsAre
  <2>2. d[s] \in 0 .. Unreached /\ d[u] \in 0 .. Unreached /\ c[u] \in 1 .. Unreached
    BY <1>1, <1>2, <2>1 DEF Fields, Costs
  <2>3. CASE u = t
    <3>1. f[s] = d[s] /\ f[u] = d[u] + 1
      BY <1>5, <2>1, <2>3
    <3>2. d[u] <= d[s] + c[u]
      BY <1>2, <1>6, <3>1 DEF Still
    <3>3. d[u] # d[s] + c[u]
      BY <1>6, <2>3, <3>1
    <3> QED
      BY <2>2, <3>1, <3>2, <3>3
  <2>4. CASE u # t /\ s = t
    <3>1. f[s] = d[s] + 1 /\ f[u] = d[u]
      BY <1>5, <2>4
    <3>2. d[u] <= d[s] + c[u]
      BY <1>2, <1>3, <1>6, <2>4 DEF Still
    <3> QED
      BY <2>2, <3>1, <3>2
  <2>5. CASE u # t /\ s # t
    <3>1. f[s] = d[s] /\ f[u] = d[u]
      BY <1>5, <2>1, <2>5
    <3> QED
      BY <1>2, <1>6, <3>1 DEF Still
  <2> QED
    BY <2>3, <2>4, <2>5
<1>7. Still(c, f)
  BY <1>6 DEF Still
<1>8. Below(f, FromCoast)
  <2> SUFFICES ASSUME NEW s \in Tiles PROVE f[s] <= FromCoast[s]
    BY DEF Below
  <2>1. CASE s = t
    <3>1. FromCoast[s] = Unreached
      BY <2>1 DEF FromCoast
    <3> QED
      BY <1>1, <1>4, <1>5, <2>1, <3>1
  <2>2. CASE s # t
    BY <1>2, <1>5, <2>2 DEF Below
  <2> QED
    BY <2>1, <2>2
<1>9. Below(f, d)
  BY <1>1, <1>5, <1>7, <1>8 DEF Settles, Lowering
<1>10. d[t] + 1 <= d[t]
  BY <1>5, <1>9 DEF Below
<1> QED
  BY <1>3, <1>10

LEMMA StartIsNear ==
  ASSUME Surveyed, CoastalTile \in Tiles
  PROVE  /\ Distances \in Fields /\ Distances[CoastalTile] = 0
         /\ \A t \in Tiles : TerrainCost[t] # Unreached =>
              \A s \in Neighbors(t) : Distances[s] # Unreached =>
                Distances[t] <= Distances[s] + TerrainCost[t]
<1> DEFINE d == Distances
<1>1. Settles(TerrainCost, FromCoast, d)
  BY DistancesSettle
<1> HIDE DEF d
<1>2. d \in Fields /\ Still(TerrainCost, d) /\ Below(d, FromCoast)
  BY <1>1 DEF Settles
<1>3. FromCoast[CoastalTile] = 0
  BY DEF FromCoast
<1>4. d[CoastalTile] <= 0 /\ d[CoastalTile] \in 0 .. Unreached
  BY <1>2, <1>3 DEF Below, Fields
<1>5. d[CoastalTile] = 0
  BY <1>4, UnreachedIs
<1> QED
  BY <1>2, <1>5 DEF d, Still

(* Every tile has a neighbor.                                              *)
LEMMA HasNeighbor ==
  ASSUME NEW t \in Tiles
  PROVE  Neighbors(t) # {}
<1>1. /\ X(t) \in 0 .. Width - 1 /\ Width \in Nat /\ Width >= 32
  BY RowAndColumn, CandidateAssumption, MapIs
<1>2. HasSide(t, "west") \/ HasSide(t, "east")
  BY <1>1 DEF HasSide
<1>3. \A side \in {"west", "east"} : HasSide(t, side) => OnSide(t, side) \in Neighbors(t)
  BY DEF Neighbors
<1> QED
  BY <1>2, <1>3

(* The way back goes to the neighbor that is nearest.                      *)
LEMMA PreviousIs ==
  ASSUME NEW d \in Fields, NEW t \in Tiles
  PROVE  /\ Previous(d, t) \in Neighbors(t) /\ Previous(d, t) \in Tiles
         /\ \A s \in Neighbors(t) : d[Previous(d, t)] <= d[s]
<1> DEFINE S == {d[s] : s \in Neighbors(t)}
           least == Lowest(S)
           T == {s \in Neighbors(t) : d[s] = least}
<1>1. \A s \in Neighbors(t) : s \in Tiles /\ s \in Nat /\ d[s] \in Nat
  <2> SUFFICES ASSUME NEW s \in Neighbors(t) PROVE s \in Tiles /\ s \in Nat /\ d[s] \in Nat
    OBVIOUS
  <2>1. s \in Tiles
    BY NeighborsAre
  <2>2. s \in Nat /\ d[s] \in 0 .. Unreached
    BY <2>1, MapIs DEF Fields
  <2> QED
    BY <2>1, <2>2
<1>2. S \subseteq Nat /\ S # {}
  BY <1>1, HasNeighbor
<1>3. least \in S /\ \A n \in S : least <= n
  <2> HIDE DEF S
  <2> QED
    BY <1>2, LowestIs
<1> HIDE DEF least
<1>4. T \subseteq Nat /\ T # {}
  BY <1>1, <1>3
<1>5. Lowest(T) \in T
  <2> HIDE DEF T
  <2> QED
    BY <1>4, LowestIs
<1>6. Previous(d, t) = Lowest(T)
  BY Zenon DEF Previous, least
<1> DEFINE p == Previous(d, t)
<1>7. p \in Neighbors(t) /\ d[p] = least
  BY <1>5, <1>6
<1> HIDE DEF p
<1> QED
  BY <1>1, <1>3, <1>7 DEF p

(* The way back, step by step.                                             *)
Ways == {w \in Seq(Tiles) : Len(w) >= 1}
Stops(w) ==
  w[Len(w)] = CoastalTile \/ Cardinality(TilesOf(w) \cap world.river) > 1
BackStep(d, w) == IF Stops(w) THEN w ELSE Append(w, Previous(d, w[Len(w)]))

LEMMA BackStepIs ==
  ASSUME NEW d \in Fields, NEW w \in Ways
  PROVE  BackStep(d, w) \in Ways
<1> DEFINE t == w[Len(w)]
<1>1. w \in Seq(Tiles) /\ Len(w) \in Nat /\ Len(w) >= 1
  BY DEF Ways
<1>2. t \in Tiles
  BY <1>1
<1>3. Previous(d, t) \in Tiles
  BY <1>2, PreviousIs
<1> HIDE DEF t
<1> DEFINE p == Previous(d, t)
<1> HIDE DEF p
<1>4. p \in Tiles
  BY <1>3 DEF p
<1>5. Append(w, p) \in Seq(Tiles) /\ Len(Append(w, p)) = Len(w) + 1
  BY <1>1, <1>4
<1>6. Append(w, p) \in Ways
  BY <1>1, <1>5 DEF Ways
<1> QED
  BY <1>6, Zenon DEF BackStep, p, t

LEMMA WayBackIs ==
  ASSUME NEW d \in Fields, InlandTile \in Tiles
  PROVE  \E way \in [Nat -> Ways] :
           /\ way[0] = <<InlandTile>>
           /\ \A n \in Nat : way[n + 1] = BackStep(d, way[n])
           /\ WayBack(d) = way[Width * Height]
<1> DEFINE S == [w \in Ways |-> BackStep(d, w)]
           Turn(f, n, w) == IF n = 0 \/ Stops(w) THEN w
                            ELSE f[n - 1][Append(w, Previous(d, w[Len(w)]))]
           Step(f) == [n \in Nat |-> [w \in Ways |-> Turn(f, n, w)]]
           back == CHOOSE f : f = Step(f)
           e == <<InlandTile>>
<1>1. e \in Ways
  BY DEF Ways
<1>2. \A w \in Ways : BackStep(d, w) \in Ways
  BY BackStepIs
<1>3. S \in [Ways -> Ways]
  BY <1>2
<1> HIDE DEF e
<1>4. PICK way \in [Nat -> Ways] : way[0] = e /\ \A n \in Nat : way[n + 1] = S[way[n]]
  <2> HIDE DEF S, Turn, Step, back
  <2> QED
    BY <1>1, <1>3, IterationExists
<1>5. \A n \in Nat : way[n] \in Ways /\ way[n + 1] = BackStep(d, way[n])
  BY <1>4
<1>6. \E f : f = Step(f)
  <2> DEFINE D == [Ways -> Ways]
             a == [w \in Ways |-> w]
             Rest(g, w) == IF Stops(w) THEN w ELSE g[BackStep(d, w)]
             R == [g \in D |-> [w \in Ways |-> Rest(g, w)]]
  <2>1. a \in D
    OBVIOUS
  <2>2. R \in [D -> D]
    <3>1. ASSUME NEW g \in D, NEW w \in Ways PROVE Rest(g, w) \in Ways
      <4>1. BackStep(d, w) \in Ways
        BY <1>2
      <4> QED
        BY <4>1
    <3> HIDE DEF Rest
    <3> QED
      BY <3>1
  <2>3. PICK f \in [Nat -> D] : f[0] = a /\ \A n \in Nat : f[n + 1] = R[f[n]]
    <3> HIDE DEF D, a, R, S, Turn, Step, back
    <3> QED
      BY <2>1, <2>2, IterationExists
  <2>4. ASSUME NEW n \in Nat, NEW w \in Ways PROVE f[n][w] = Turn(f, n, w)
    <3>1. CASE n = 0
      BY <2>3, <3>1
    <3>2. CASE n # 0
      <4> DEFINE m == n - 1
      <4>1. m \in Nat /\ m + 1 = n
        BY <3>2
      <4> HIDE DEF m
      <4>2. f[n] = R[f[m]] /\ f[m] \in D
        BY <2>3, <4>1
      <4>3. f[n][w] = Rest(f[m], w)
        BY <4>2
      <4>4. CASE Stops(w)
        BY <4>3, <4>4
      <4>5. CASE ~Stops(w)
        <5>1. BackStep(d, w) = Append(w, Previous(d, w[Len(w)]))
          BY <4>5, Zenon DEF BackStep
        <5>2. Turn(f, n, w) = f[m][Append(w, Previous(d, w[Len(w)]))]
          BY <3>2, <4>5 DEF m
        <5> QED
          BY <4>3, <4>5, <5>1, <5>2
      <4> QED
        BY <4>4, <4>5
    <3> QED
      BY <3>1, <3>2
  <2>5. \A n \in Nat : f[n] = [w \in Ways |-> f[n][w]]
    BY <2>3
  <2>6. f = [n \in Nat |-> f[n]]
    BY <2>3
  <2> HIDE DEF Turn
  <2>7. \A n \in Nat : [w \in Ways |-> f[n][w]] = [w \in Ways |-> Turn(f, n, w)]
    BY <2>4
  <2>8. \A n \in Nat : f[n] = [w \in Ways |-> Turn(f, n, w)]
    BY <2>5, <2>7
  <2>9. f = Step(f)
    BY <2>6, <2>8
  <2> QED
    BY <2>9
<1>7. back = Step(back)
  <2> HIDE DEF Step
  <2> QED
    BY <1>6
<1>8. Ways = Seq(Tiles) \ {<<>>}
  BY DEF Ways
<1>9. WayBack(d) = back[Width * Height][e]
  BY <1>8, Zenon DEF WayBack, Stops, e
<1> HIDE DEF back
<1>10. \A n \in Nat, w \in Ways : back[n][w] = Turn(back, n, w)
  <2> HIDE DEF Turn
  <2> QED
    BY <1>7
<1>11. ASSUME NEW w \in Ways, Stops(w), NEW n \in Nat PROVE back[n][w] = w
  BY <1>10, <1>11
<1>12. \A n \in Nat : \A m \in Nat : back[n][way[m]] = way[m + n]
  <2> DEFINE P(n) == \A m \in Nat : back[n][way[m]] = way[m + n]
             B == {n \in Nat : ~P(n)}
  <2> SUFFICES ASSUME B # {} PROVE FALSE
    OBVIOUS
  <2>1. B \subseteq Nat
    OBVIOUS
  <2>2. PICK n \in B : \A m \in B : n <= m
    <3> HIDE DEF B
    <3> QED
      BY <2>1, LeastExists
  <2>3. n \in Nat /\ ~P(n)
    BY <2>2
  <2>4. PICK m \in Nat : back[n][way[m]] # way[m + n]
    BY <2>3
  <2>5. n # 0
    BY <1>5, <1>10, <2>4
  <2> DEFINE k == n - 1
  <2>6. k \in Nat /\ k + 1 = n /\ ~(n <= k)
    BY <2>3, <2>5
  <2>7. P(k)
    BY <2>2, <2>6
  <2> HIDE DEF k
  <2>8. /\ way[m] \in Ways /\ way[m + 1] = BackStep(d, way[m]) /\ m + 1 \in Nat
        /\ (m + 1) + k = m + n /\ (m + k) + 1 = m + n /\ m + k \in Nat
    BY <1>5, <2>3, <2>6
  <2>9. CASE Stops(way[m])
    <3>1. back[n][way[m]] = way[m] /\ back[k][way[m]] = way[m]
      BY <1>11, <2>3, <2>6, <2>8, <2>9
    <3>2. way[m + k] = way[m]
      BY <2>7, <3>1
    <3>3. way[m + n] = BackStep(d, way[m + k])
      BY <1>5, <2>8
    <3>4. way[m + n] = way[m]
      BY <2>9, <3>2, <3>3 DEF BackStep
    <3> QED
      BY <2>4, <3>1, <3>4
  <2>10. CASE ~Stops(way[m])
    <3>1. way[m + 1] = Append(way[m], Previous(d, way[m][Len(way[m])]))
      BY <2>8, <2>10 DEF BackStep
    <3>2. back[n][way[m]] = back[k][way[m + 1]]
      BY <1>10, <2>3, <2>5, <2>8, <2>10, <3>1 DEF k
    <3>3. back[k][way[m + 1]] = way[(m + 1) + k]
      BY <2>7, <2>8
    <3> QED
      BY <2>4, <2>8, <3>2, <3>3
  <2> QED
    BY <2>9, <2>10
<1>13. Width * Height \in Nat /\ 0 + Width * Height = Width * Height
  BY MapIs
<1>14. back[Width * Height][way[0]] = way[0 + Width * Height]
  BY <1>12, <1>13
<1>15. WayBack(d) = way[Width * Height]
  BY <1>4, <1>9, <1>13, <1>14
<1> QED
  BY <1>4, <1>5, <1>15 DEF e

LEMMA WayBackOnMap ==
  ASSUME Surveyed, CoastalTile \in Tiles, InlandTile \in Tiles
  PROVE  WayBack(Distances) \in Ways /\ TilesOf(WayBack(Distances)) \subseteq Tiles
<1>1. Distances \in Fields
  BY StartIsNear
<1>2. PICK way \in [Nat -> Ways] : WayBack(Distances) = way[Width * Height]
  BY <1>1, WayBackIs
<1>3. Width * Height \in Nat
  BY MapIs
<1>4. WayBack(Distances) \in Ways
  BY <1>2, <1>3
<1> DEFINE w == WayBack(Distances)
<1> HIDE DEF w
<1>5. w \in Seq(Tiles)
  BY <1>4 DEF Ways, w
<1>6. \A i \in 1 .. Len(w) : w[i] \in Tiles
  BY <1>5
<1> QED
  BY <1>4, <1>6 DEF TilesOf, w

-----------------------------------------------------------------------------
(* Type correctness of a candidate.                                        *)
TypedIInv ==
  /\ CandidateTypeOK
  /\ phase # "loaded" => choice \in Choices
  /\ phase \notin {"coast", "loaded"} => Surveyed
  /\ phase # "HYDROLOGY" => raised = 0

LEMMA TypedStarts == CandidateInit => TypedIInv
<1> SUFFICES ASSUME CandidateInit PROVE TypedIInv
  OBVIOUS
<1>1. report = ZeroReport /\ raised = 0
  BY DEF CandidateInit
<1>2. ZeroReport \in [passed : SUBSET Invariants, failed : SUBSET Invariants,
                      first_failed_tile_index : Tiles \cup {Nowhere}]
  BY MapIs DEF ZeroReport
<1>3. CASE GeneratedInit
  <2>1. choice \in Choices /\ world = Blank /\ phase = "coast"
    BY <1>3 DEF GeneratedInit
  <2>2. NoEntity \in Entities
    <3>1. 1 \in 1 .. 6 /\ Kinds[1] = "REGION"
      BY DEF Kinds
    <3> QED
      BY <3>1 DEF NoEntity, Entities, Ids
  <2>3. NoRegion \in Regions
    BY DEF NoRegion, Regions, Ids
  <2>4. Blank \in Worlds
    <3> DEFINE e == [i \in 1 .. 6 |-> NoEntity]
    <3>1. e \in [1 .. 6 -> Entities]
      BY <2>2
    <3> HIDE DEF e
    <3>2. [t \in Tiles |-> 0] \in [Tiles -> Int] /\ [t \in Tiles |-> 0] \in [Tiles -> Ids]
      BY DEF Ids
    <3>3. [t \in Tiles |-> "none"] \in [Tiles -> Terrains \cup {"none"}]
      OBVIOUS
    <3> QED
      BY <2>3, <3>1, <3>2, <3>3 DEF Blank, Worlds, e
  <2> QED
    BY <1>1, <1>2, <2>1, <2>4 DEF TypedIInv, CandidateTypeOK, ValidateTypeOK, Phases
<1>4. CASE LoadedInit
  <2>1. world \in Worlds /\ phase = "loaded"
    BY <1>4, MapsAssumption DEF LoadedInit
  <2> QED
    BY <1>1, <1>2, <2>1 DEF TypedIInv, CandidateTypeOK, ValidateTypeOK, Phases
<1> QED
  BY <1>3, <1>4 DEF CandidateInit

LEMMA CountIs ==
  ASSUME NEW S, S \subseteq Tiles
  PROVE  IsFiniteSet(S) /\ Cardinality(S) \in Nat
<1>1. IsFiniteSet(S)
  BY MapIs, FS_Subset
<1> QED
  BY <1>1, FS_CardinalityType

(* A phase that writes only the world.                                     *)
LEMMA PhaseTyped ==
  ASSUME TypedIInv, phase # "loaded", phase # "HYDROLOGY",
         world' \in Worlds, Surveyed', phase' \in Phases \ {"loaded"},
         UNCHANGED <<report, choice, raised>>
  PROVE  TypedIInv'
BY DEF TypedIInv, CandidateTypeOK, ValidateTypeOK

LEMMA CoastTyped == TypedIInv /\ Coast => TypedIInv'
<1> SUFFICES ASSUME TypedIInv, Coast PROVE TypedIInv'
  OBVIOUS
<1>1. world \in Worlds /\ choice \in Choices /\ choice \in ChoiceType
  BY CandidateAssumption DEF TypedIInv, CandidateTypeOK, ValidateTypeOK, Coast
<1> DEFINE terrain == [t \in Tiles |-> IF IsWater(t) THEN "WATER" ELSE "GRASSLAND"]
           land == {t \in Tiles : ~IsWater(t)}
           e == [t \in Tiles |->
                   IF IsWater(t) THEN 0
                   ELSE 100 + 100 * Apart(X(t), CoastX(WaterWidth(Y(t))))
                          + Addition(1, t) + Addition(2, t) + Addition(3, t)]
<1>2. e \in [Tiles -> Int]
  <2> SUFFICES ASSUME NEW t \in Tiles
               PROVE  100 + 100 * Apart(X(t), CoastX(WaterWidth(Y(t))))
                          + Addition(1, t) + Addition(2, t) + Addition(3, t) \in Int
    OBVIOUS
  <2>1. X(t) \in Int /\ CoastX(WaterWidth(Y(t))) \in Int
    BY <1>1, CoastTypes, RowAndColumn, MapIs
  <2>2. Apart(X(t), CoastX(WaterWidth(Y(t)))) \in Int
    BY <2>1, NumbersAre, Zenon
  <2>3. Addition(1, t) \in Int /\ Addition(2, t) \in Int /\ Addition(3, t) \in Int
    BY <1>1, AdditionIs
  <2> QED
    BY <2>2, <2>3
<1>3. terrain \in [Tiles -> Terrains] /\ terrain \in [Tiles -> Terrains \cup {"none"}]
  BY DEF Terrains, Dry
<1> DEFINE count == Cardinality(land)
<1>4. count \in Nat
  BY CountIs
<1>5. world' = [world EXCEPT !.terrain = terrain, !.elevation = e,
                             !.land_tile_count = count]
  BY DEF Coast
<1> HIDE DEF terrain, e, count
<1>6. world' \in Worlds /\ world'.terrain = terrain
  BY <1>1, <1>2, <1>3, <1>4, <1>5 DEF Worlds
<1>7. Surveyed'
  BY <1>3, <1>6 DEF Surveyed
<1> QED
  BY <1>6, <1>7, PhaseTyped DEF Coast, Phases

LEMMA BiomesTyped == TypedIInv /\ AssignBiomes => TypedIInv'
<1> SUFFICES ASSUME TypedIInv, AssignBiomes PROVE TypedIInv'
  OBVIOUS
<1>1. world \in Worlds /\ Surveyed
  BY DEF TypedIInv, CandidateTypeOK, ValidateTypeOK, AssignBiomes
<1> DEFINE terrain == [t \in Tiles |->
       IF world.terrain[t] = "WATER" \/ t \in world.river THEN world.terrain[t]
       ELSE IF Eligible(t) /\ choice.biome[t] < choice.wetland THEN "WETLANDS"
       ELSE IF choice.biome[t] < choice.hill THEN "HILLS"
       ELSE IF choice.biome[t] < choice.hill + choice.forest THEN "FOREST"
       ELSE "GRASSLAND"]
<1>2. terrain \in [Tiles -> Terrains] /\ terrain \in [Tiles -> Terrains \cup {"none"}]
  <2> SUFFICES ASSUME NEW t \in Tiles
               PROVE  terrain[t] \in Terrains
    OBVIOUS
  <2>1. world.terrain[t] \in Terrains
    BY <1>1 DEF Surveyed
  <2> QED
    BY <2>1 DEF Terrains, Dry
<1>3. world' = [world EXCEPT !.terrain = terrain]
  BY DEF AssignBiomes
<1> HIDE DEF terrain
<1>4. world' \in Worlds /\ world'.terrain = terrain
  BY <1>1, <1>2, <1>3 DEF Worlds
<1>5. Surveyed'
  BY <1>2, <1>4 DEF Surveyed
<1> QED
  BY <1>4, <1>5, PhaseTyped DEF AssignBiomes, Phases

LEMMA MissingTyped == TypedIInv /\ ConstructMissing => TypedIInv'
<1> SUFFICES ASSUME TypedIInv, ConstructMissing PROVE TypedIInv'
  OBVIOUS
<1>1. world \in Worlds /\ Surveyed
  BY DEF TypedIInv, CandidateTypeOK, ValidateTypeOK, ConstructMissing
<1> DEFINE back == IF choice.west THEN -1 ELSE 1
           a == TileAt(MiddleX, CoastalY)
           b == TileAt(InlandX + back, InlandY)
           c == TileAt(InlandX + 2 * back, InlandY)
           terrain == [[[world.terrain EXCEPT ![a] = "WETLANDS"]
                          EXCEPT ![b] = "FOREST"] EXCEPT ![c] = "GRASSLAND"]
<1>2. world' = [world EXCEPT !.terrain[a] = "WETLANDS", !.terrain[b] = "FOREST",
                             !.terrain[c] = "GRASSLAND"]
  BY DEF ConstructMissing
<1> HIDE DEF a, b, c
<1>3. terrain \in [Tiles -> Terrains] /\ terrain \in [Tiles -> Terrains \cup {"none"}]
  BY <1>1 DEF Surveyed, Terrains, Dry
<1>4. world' = [world EXCEPT !.terrain = terrain]
  BY <1>1, <1>2 DEF Worlds
<1> HIDE DEF terrain
<1>5. world' \in Worlds /\ world'.terrain = terrain
  BY <1>1, <1>3, <1>4 DEF Worlds
<1>6. Surveyed'
  BY <1>3, <1>5 DEF Surveyed
<1> QED
  BY <1>5, <1>6, PhaseTyped DEF ConstructMissing, Phases

LEMMA RiverTyped == TypedIInv /\ ConstructRiver => TypedIInv'
<1> SUFFICES ASSUME TypedIInv, ConstructRiver PROVE TypedIInv'
  OBVIOUS
<1>1. /\ world \in Worlds /\ choice \in Choices /\ Surveyed /\ raised = 0
      /\ phase = "river"
  BY DEF TypedIInv, CandidateTypeOK, ValidateTypeOK, ConstructRiver
<1> DEFINE course == Course
           on == {course[i] : i \in 1 .. Len(course)}
           rank == [t \in on |-> CHOOSE i \in 1 .. Len(course) : course[i] = t]
           e == [t \in Tiles |-> IF t \in on THEN RiverElevation(rank[t])
                                 ELSE world.elevation[t]]
           source == course[Len(course)]
           terrain == [t \in Tiles |->
                IF t = source THEN "HILLS"
                ELSE IF t \in on THEN "GRASSLAND" ELSE world.terrain[t]]
           outlets == {course[1]}
           count == Len(course)
<1>2. /\ course \in Seq(Tiles) /\ course[1] \in Tiles
  BY <1>1, CourseOnMap, CourseStarts, DrawnIsOnMap
<1> HIDE DEF course
<1>3. /\ on \subseteq Tiles /\ count \in Nat /\ outlets \subseteq Tiles
  BY <1>2
<1>4. e \in [Tiles -> Int]
  <2> SUFFICES ASSUME NEW t \in Tiles
               PROVE  (IF t \in on THEN RiverElevation(rank[t])
                       ELSE world.elevation[t]) \in Int
    OBVIOUS
  <2>1. CASE t \in on
    <3>1. PICK i \in 1 .. Len(course) : course[i] = t
      BY <2>1
    <3>2. rank[t] \in 1 .. Len(course)
      BY <2>1, <3>1
    <3> HIDE DEF rank
    <3>3. rank[t] \in Int
      BY <1>3, <3>2
    <3>4. RiverElevation(rank[t]) \in Int
      BY <3>3 DEF RiverElevation
    <3> QED
      BY <2>1, <3>4
  <2>2. CASE t \notin on
    <3>1. world.elevation[t] \in Int
      BY <1>1 DEF Worlds
    <3> QED
      BY <2>2, <3>1
  <2> QED
    BY <2>1, <2>2
<1>5. terrain \in [Tiles -> Terrains] /\ terrain \in [Tiles -> Terrains \cup {"none"}]
  <2> SUFFICES ASSUME NEW t \in Tiles PROVE terrain[t] \in Terrains
    OBVIOUS
  <2>1. world.terrain[t] \in Terrains
    BY <1>1 DEF Surveyed
  <2> QED
    BY <2>1 DEF Terrains, Dry
<1>6. /\ UNCHANGED <<report, choice>>
      /\ \/ /\ world' = [world EXCEPT !.terrain = terrain, !.elevation = e,
                                  !.river = on, !.outlets = outlets,
                                  !.river_tile_count = count]
            /\ phase' = "biome" /\ UNCHANGED raised
         \/ phase' = "HYDROLOGY" /\ raised' = raised + 1 /\ UNCHANGED world
  BY DEF ConstructRiver, course
<1> HIDE DEF terrain, e, on, outlets, count
<1>7. CASE /\ world' = [world EXCEPT !.terrain = terrain, !.elevation = e,
                                     !.river = on, !.outlets = outlets,
                                     !.river_tile_count = count]
           /\ phase' = "biome" /\ UNCHANGED raised
  <2>1. world' \in Worlds /\ world'.terrain = terrain
    BY <1>1, <1>3, <1>4, <1>5, <1>7 DEF Worlds
  <2>2. Surveyed'
    BY <1>5, <2>1 DEF Surveyed
  <2> QED
    BY <1>1, <1>6, <1>7, <2>1, <2>2, PhaseTyped DEF Phases
<1>8. CASE phase' = "HYDROLOGY" /\ raised' = raised + 1 /\ UNCHANGED world
  BY <1>1, <1>6, <1>8
  DEF TypedIInv, CandidateTypeOK, ValidateTypeOK, Phases, Surveyed
<1> QED
  BY <1>6, <1>7, <1>8

LEMMA EntitiesTyped == TypedIInv /\ InitializeEntities => TypedIInv'
<1> SUFFICES ASSUME TypedIInv, InitializeEntities PROVE TypedIInv'
  OBVIOUS
<1>1. world \in Worlds /\ Surveyed /\ choice \in Choices
  BY DEF TypedIInv, CandidateTypeOK, ValidateTypeOK, InitializeEntities
<1> DEFINE a == CoastalTile
           b == InlandTile
           outlet == TileAt(CoastalX, OutletY)
           entities == [i \in 1 .. 6 |->
              [id |-> i, kind |-> Kinds[i], region_id |-> 1, named |-> TRUE,
               owner_id |-> IF i \in {5, 6} THEN i ELSE 4,
               at |-> CASE i = 2 -> a [] i = 3 -> b [] OTHER -> Nowhere]]
           region == [NoRegion EXCEPT
              !.id = 1, !.political_owner_id = 4, !.settlement_ids = <<2, 3>>,
              !.foreign_faction_ids = <<5, 6>>,
              !.river_outlet_tile_id = outlet,
              !.road_start_tile_id = a, !.road_end_tile_id = b]
           terrain == [[world.terrain EXCEPT ![a] = "SETTLEMENT"]
                          EXCEPT ![b] = "SETTLEMENT"]
           ids == [[world.settlement_id EXCEPT ![a] = 2] EXCEPT ![b] = 3]
<1>2. a \in Tiles /\ b \in Tiles /\ outlet \in Tiles
  BY <1>1, DrawnIsOnMap
<1>3. world' = [world EXCEPT !.entities = entities, !.region = region,
                             !.terrain[a] = "SETTLEMENT", !.terrain[b] = "SETTLEMENT",
                             !.settlement_id[a] = 2, !.settlement_id[b] = 3]
  BY DEF InitializeEntities
<1> HIDE DEF a, b, outlet
<1>4. entities \in [1 .. 6 -> Entities]
  <2> SUFFICES ASSUME NEW i \in 1 .. 6
               PROVE  entities[i] \in Entities
    OBVIOUS
  <2>1. Kinds[i] \in {Kinds[j] : j \in 1 .. 6}
    OBVIOUS
  <2> DEFINE k == Kinds[i]
             at == CASE i = 2 -> a [] i = 3 -> b [] OTHER -> Nowhere
             owner == IF i \in {5, 6} THEN i ELSE 4
  <2>2. at \in Tiles \cup {Nowhere}
    BY <1>2
  <2>3. owner \in Ids /\ i \in Ids /\ 1 \in Ids
    BY DEF Ids
  <2>4. entities[i] = [id |-> i, kind |-> k, region_id |-> 1, named |-> TRUE,
                       owner_id |-> owner, at |-> at]
    OBVIOUS
  <2> HIDE DEF entities, k, at, owner
  <2> QED
    BY <2>1, <2>2, <2>3, <2>4 DEF Entities, k
<1>5. region \in Regions
  <2>1. region = [id |-> 1, political_owner_id |-> 4,
                  settlement_ids |-> <<2, 3>>, foreign_faction_ids |-> <<5, 6>>,
                  river_outlet_tile_id |-> outlet, road_start_tile_id |-> a,
                  road_end_tile_id |-> b, river_tile_count |-> 0,
                  road_tile_count |-> 0]
    <3>1. NoRegion = [id |-> 0, political_owner_id |-> 0,
                      settlement_ids |-> <<0, 0>>, foreign_faction_ids |-> <<0, 0>>,
                      river_outlet_tile_id |-> Nowhere, road_start_tile_id |-> Nowhere,
                      road_end_tile_id |-> Nowhere, river_tile_count |-> 0,
                      road_tile_count |-> 0]
      BY DEF NoRegion
    <3> HIDE DEF region
    <3>2. region = [NoRegion EXCEPT
              !.id = 1, !.political_owner_id = 4, !.settlement_ids = <<2, 3>>,
              !.foreign_faction_ids = <<5, 6>>, !.river_outlet_tile_id = outlet,
              !.road_start_tile_id = a, !.road_end_tile_id = b]
      BY Zenon DEF region
    <3> DEFINE r == NoRegion
               p == <<2, 3>>
               q == <<5, 6>>
               z == <<0, 0>>
    <3>3. r = [id |-> 0, political_owner_id |-> 0,
               settlement_ids |-> z, foreign_faction_ids |-> z,
               river_outlet_tile_id |-> Nowhere, road_start_tile_id |-> Nowhere,
               road_end_tile_id |-> Nowhere, river_tile_count |-> 0,
               road_tile_count |-> 0]
      BY <3>1
    <3>4. region = [r EXCEPT
              !.id = 1, !.political_owner_id = 4, !.settlement_ids = p,
              !.foreign_faction_ids = q, !.river_outlet_tile_id = outlet,
              !.road_start_tile_id = a, !.road_end_tile_id = b]
      BY <3>2
    <3>5. region = [id |-> 1, political_owner_id |-> 4,
               settlement_ids |-> p, foreign_faction_ids |-> q,
               river_outlet_tile_id |-> outlet, road_start_tile_id |-> a,
               road_end_tile_id |-> b, river_tile_count |-> 0,
               road_tile_count |-> 0]
      <4> HIDE DEF r, p, q, z
      <4> QED
        BY <3>3, <3>4
    <3> QED
      BY <3>5
  <2>2. <<2, 3>> \in Ids \X Ids /\ <<5, 6>> \in Ids \X Ids /\ 1 \in Ids /\ 4 \in Ids
    BY DEF Ids
  <2> DEFINE p == <<2, 3>>
             q == <<5, 6>>
  <2> HIDE DEF region, p, q
  <2>3. region = [id |-> 1, political_owner_id |-> 4,
                  settlement_ids |-> p, foreign_faction_ids |-> q,
                  river_outlet_tile_id |-> outlet, road_start_tile_id |-> a,
                  road_end_tile_id |-> b, river_tile_count |-> 0,
                  road_tile_count |-> 0]
    BY <2>1 DEF p, q
  <2>4. p \in Ids \X Ids /\ q \in Ids \X Ids
    BY <2>2 DEF p, q
  <2> QED
    BY <1>2, <2>2, <2>3, <2>4 DEF Regions
<1>6. terrain \in [Tiles -> Terrains] /\ terrain \in [Tiles -> Terrains \cup {"none"}]
  BY <1>1 DEF Surveyed, Terrains, Dry
<1>7. ids \in [Tiles -> Ids]
  <2>1. world.settlement_id \in [Tiles -> Ids]
    BY <1>1 DEF Worlds
  <2>2. 2 \in Ids /\ 3 \in Ids
    BY DEF Ids
  <2> QED
    BY <2>1, <2>2
<1> HIDE DEF entities, region
<1>8. world' = [world EXCEPT !.entities = entities, !.region = region,
                             !.terrain = terrain, !.settlement_id = ids]
  BY <1>1, <1>3 DEF Worlds
<1> HIDE DEF terrain, ids
<1>9. world' \in Worlds /\ world'.terrain = terrain
  BY <1>1, <1>4, <1>5, <1>6, <1>7, <1>8 DEF Worlds
<1>10. Surveyed'
  BY <1>6, <1>9 DEF Surveyed
<1> QED
  BY <1>9, <1>10, PhaseTyped DEF InitializeEntities, Phases

LEMMA RoadTyped == TypedIInv /\ ConstructRoad => TypedIInv'
<1> SUFFICES ASSUME TypedIInv, ConstructRoad PROVE TypedIInv'
  OBVIOUS
<1>1. world \in Worlds /\ Surveyed /\ choice \in Choices
  BY DEF TypedIInv, CandidateTypeOK, ValidateTypeOK, ConstructRoad
<1>2. CoastalTile \in Tiles /\ InlandTile \in Tiles
  BY <1>1, DrawnIsOnMap
<1> DEFINE way == WayBack(Distances)
           on == TilesOf(way)
           count == Len(way)
<1>3. on \subseteq Tiles /\ count \in Nat
  BY <1>1, <1>2, WayBackOnMap DEF Ways
<1>4. \/ UNCHANGED world /\ phase' = "ROAD_CORRIDOR"
      \/ world' = [world EXCEPT !.road = on] /\ phase' = "ROAD_CORRIDOR"
      \/ /\ phase' = "validate"
         /\ world' = [world EXCEPT
              !.road = on, !.crossings = on \cap world.river,
              !.road_tile_count = count,
              !.region.river_tile_count = world.river_tile_count,
              !.region.road_tile_count = count]
  BY DEF ConstructRoad
<1> HIDE DEF on, count
<1>5. world' \in Worlds /\ world'.terrain = world.terrain
  <2>1. CASE UNCHANGED world
    BY <1>1, <2>1
  <2>2. CASE world' = [world EXCEPT !.road = on]
    BY <1>1, <1>3, <2>2 DEF Worlds
  <2>3. CASE world' = [world EXCEPT
              !.road = on, !.crossings = on \cap world.river,
              !.road_tile_count = count,
              !.region.river_tile_count = world.river_tile_count,
              !.region.road_tile_count = count]
    <3> DEFINE crossings == on \cap world.river
               region == [[world.region EXCEPT
                             !.river_tile_count = world.river_tile_count]
                           EXCEPT !.road_tile_count = count]
    <3>1. crossings \subseteq Tiles /\ region \in Regions
      BY <1>1, <1>3 DEF Worlds, Regions
    <3>2. world' = [world EXCEPT !.road = on, !.crossings = crossings,
                                 !.road_tile_count = count, !.region = region]
      BY <1>1, <2>3 DEF Worlds
    <3> HIDE DEF crossings, region
    <3> QED
      BY <1>1, <1>3, <3>1, <3>2 DEF Worlds
  <2> QED
    BY <1>4, <2>1, <2>2, <2>3
<1>6. Surveyed'
  BY <1>1, <1>5 DEF Surveyed
<1> QED
  BY <1>4, <1>5, <1>6, PhaseTyped DEF ConstructRoad, Phases

LEMMA ReportTyped ==
  ASSUME NEW w
  PROVE  Report(w) \in [passed : SUBSET Invariants, failed : SUBSET Invariants,
                        first_failed_tile_index : Tiles \cup {Nowhere}]
<1> DEFINE p == Passed(w)
           f == FirstFailed(w)
<1>1. p \subseteq Invariants
  BY DEF Passed
<1>2. f \in Tiles \cup {Nowhere}
  <2>1. FaultyTiles(w) \subseteq Tiles
    BY DEF FaultyTiles, Overwriting, NotATerrain
  <2> QED
    BY <2>1, FirstFailedIs
<1>3. Report(w) = [passed |-> p, failed |-> Invariants \ p,
                   first_failed_tile_index |-> f]
  BY Zenon DEF Report
<1> HIDE DEF p, f
<1> QED
  BY <1>1, <1>2, <1>3

LEMMA TypedStepKeeps == TypedIInv /\ [CandidateNext]_candidateVars => TypedIInv'
<1> SUFFICES ASSUME TypedIInv, [CandidateNext]_candidateVars PROVE TypedIInv'
  OBVIOUS
<1>1. CASE ValidateCandidate \/ ValidateLoaded
  <2>1. report' = Report(world) /\ UNCHANGED <<world, choice, raised>>
    BY <1>1 DEF ValidateCandidate, ValidateLoaded, Validate
  <2>2. \/ phase = "validate" /\ phase' \in {"OK", "INVARIANT"}
        \/ phase = "loaded" /\ phase' = "loaded"
    BY <1>1 DEF ValidateCandidate, ValidateLoaded
  <2>3. report' \in [passed : SUBSET Invariants, failed : SUBSET Invariants,
                     first_failed_tile_index : Tiles \cup {Nowhere}]
    BY <2>1, ReportTyped
  <2> QED
    BY <2>1, <2>2, <2>3
    DEF TypedIInv, CandidateTypeOK, ValidateTypeOK, Phases, Surveyed
<1>2. CASE UNCHANGED candidateVars
  BY <1>2 DEF candidateVars, TypedIInv, CandidateTypeOK, ValidateTypeOK, Surveyed
<1> QED
  BY <1>1, <1>2, CoastTyped, RiverTyped, BiomesTyped, MissingTyped, EntitiesTyped,
     RoadTyped DEF CandidateNext

(* Every world the phases work on is a world of its tiles, whatever the    *)
(* draws: the search of the road and its way back end on the map too.      *)
THEOREM CandidateTyped == CandidateSpec => []CandidateTypeOK
<1>1. CandidateInit => TypedIInv
  BY TypedStarts
<1>2. TypedIInv /\ [CandidateNext]_candidateVars => TypedIInv'
  BY TypedStepKeeps
<1>3. TypedIInv => CandidateTypeOK
  BY DEF TypedIInv
<1> QED
  BY <1>1, <1>2, <1>3, PTL DEF CandidateSpec

-----------------------------------------------------------------------------
(* What fd_validate_road passes: a trail that starts where one tile is     *)
(* beside it, over tiles with two beside them at most, never comes back.   *)
Beside(overlay, t) == Neighbors(t) \cap overlay

LEMMA DegreeIs ==
  ASSUME NEW overlay, overlay \subseteq Tiles, NEW t
  PROVE  /\ Degree(overlay, t) = Cardinality(Beside(overlay, t))
         /\ IsFiniteSet(Beside(overlay, t))
<1>1. Beside(overlay, t) \subseteq Tiles /\ Nowhere \notin Beside(overlay, t)
  BY NowhereAssumption DEF Beside
<1>2. Onward(overlay, Nowhere, t) = Beside(overlay, t)
  BY <1>1 DEF Onward, Beside
<1> QED
  BY <1>1, <1>2, CountIs DEF Degree

LEMMA TrailTurns ==
  ASSUME NEW overlay, overlay \subseteq Tiles, NEW w, Trail(overlay, w),
         NEW i \in 1 .. Len(w), i # Len(w)
  PROVE  /\ w[i + 1] \in Beside(overlay, w[i]) /\ w[i] \in Beside(overlay, w[i + 1])
         /\ w[i + 1] # w[i]
         /\ i # 1 => w[i + 1] # w[i - 1]
         /\ i + 1 \in 1 .. Len(w) /\ w[i] \in Tiles /\ w[i + 1] \in Tiles
<1> DEFINE n == Len(w)
<1>1. n \in Nat /\ \A k \in 1 .. n : w[k] \in overlay
  BY DEF Trail
<1>2. i \in 1 .. n - 1 /\ i + 1 \in 1 .. n
  BY <1>1
<1>3. Onward(overlay, BeforeOn(w, i), w[i]) = {w[i + 1]}
  BY <1>2 DEF Trail
<1>4. w[i + 1] \in Neighbors(w[i]) /\ w[i + 1] \in overlay /\ w[i + 1] # BeforeOn(w, i)
  BY <1>3 DEF Onward
<1>5. w[i] \in Tiles /\ w[i] \in overlay
  BY <1>1
<1>6. w[i + 1] # w[i] /\ w[i] \in Neighbors(w[i + 1]) /\ w[i + 1] \in Tiles
  BY <1>4, <1>5, NeighborsAre
<1> QED
  BY <1>2, <1>4, <1>5, <1>6 DEF Beside, BeforeOn

(* Of three tiles beside one that has two, two are the same.               *)
LEMMA TwoBeside ==
  ASSUME NEW overlay, overlay \subseteq Tiles, NEW t,
         Degree(overlay, t) \in {1, 2},
         NEW a \in Beside(overlay, t), NEW b \in Beside(overlay, t), a # b
  PROVE  Beside(overlay, t) = {a, b} /\ Degree(overlay, t) = 2
<1> DEFINE B == Beside(overlay, t)
<1>1. IsFiniteSet(B) /\ Cardinality(B) \in {1, 2}
  BY DegreeIs
<1> HIDE DEF B
<1>2. Cardinality(B) # 1
  <2> SUFFICES ASSUME Cardinality(B) = 1 PROVE FALSE
    OBVIOUS
  <2>1. PICK e : B = {e}
    BY <1>1, OnlyOne
  <2> QED
    BY <2>1 DEF B
<1>3. Cardinality(B) = 2 /\ a \in B /\ b \in B
  BY <1>1, <1>2 DEF B
<1>4. B = {a, b}
  BY <1>1, <1>3, OnlyTwo
<1> QED
  BY <1>3, <1>4, DegreeIs DEF B

LEMMA TrailFromEnd ==
  ASSUME NEW overlay, overlay \subseteq Tiles, NEW w, Trail(overlay, w),
         \A t \in overlay : Degree(overlay, t) \in {1, 2},
         Degree(overlay, w[1]) = 1
  PROVE  \A i, j \in 1 .. Len(w) : w[i] = w[j] => i = j
<1> DEFINE n == Len(w)
           B == {j \in 1 .. n : \E i \in 1 .. j - 1 : w[i] = w[j]}
<1>1. n \in Nat /\ n >= 1 /\ \A k \in 1 .. n : w[k] \in overlay
  BY DEF Trail
<1>2. B = {}
  <2> SUFFICES ASSUME B # {} PROVE FALSE
    OBVIOUS
  <2>1. B \subseteq Nat
    BY <1>1
  <2>2. PICK j \in B : \A k \in B : j <= k
    <3> HIDE DEF B
    <3> QED
      BY <2>1, LeastExists
  <2>3. PICK i \in 1 .. j - 1 : w[i] = w[j]
    BY <2>2
  <2>4. j \in 1 .. n /\ j >= 2 /\ i \in 1 .. n /\ i < j /\ j - 1 \in 1 .. n
        /\ j - 1 # n /\ (j - 1) + 1 = j
    BY <1>1, <2>2, <2>3
  <2>5. ASSUME NEW k \in 1 .. j - 1, NEW l \in 1 .. j - 1, w[k] = w[l] PROVE k = l
    <3>1. k \in 1 .. n /\ l \in 1 .. n /\ k < j /\ l < j
      BY <2>4
    <3>2. CASE k < l
      <4>1. l \in B
        <5>1. l \in 1 .. n /\ k \in 1 .. l - 1
          BY <3>1, <3>2
        <5> QED
          BY <2>5, <5>1
      <4> QED
        BY <2>2, <3>1, <4>1
    <3>3. CASE l < k
      <4>1. k \in B
        <5>1. k \in 1 .. n /\ l \in 1 .. k - 1
          BY <3>1, <3>3
        <5> QED
          BY <2>5, <5>1
      <4> QED
        BY <2>2, <3>1, <4>1
    <3> QED
      BY <3>1, <3>2, <3>3
  <2> HIDE DEF B, n
  <2>6. w[j - 1] \in Beside(overlay, w[i]) /\ w[j - 1] # w[j]
    BY <2>3, <2>4, TrailTurns DEF n
  <2>7. i # j - 1
    BY <2>3, <2>6
  <2>8. i # n /\ i + 1 \in 1 .. j - 1 /\ i \in 1 .. j - 1 /\ i + 1 # n
    BY <1>1, <2>4, <2>7
  <2>9. w[i + 1] \in Beside(overlay, w[i])
    BY <2>4, <2>8, TrailTurns DEF n
  \* the tile after i cannot turn straight back
  <2>10. j - 1 # i + 1
    <3> SUFFICES ASSUME j - 1 = i + 1 PROVE FALSE
      OBVIOUS
    <3>1. i + 1 \in 1 .. n /\ i + 1 # n /\ i + 1 # 1 /\ (i + 1) - 1 = i
          /\ (i + 1) + 1 = j
      BY <2>4, <2>8
    <3> DEFINE m == i + 1
    <3>2. m \in 1 .. Len(w) /\ m # Len(w) /\ m # 1 /\ m - 1 = i /\ m + 1 = j
      BY <3>1 DEF n
    <3> HIDE DEF m
    <3>3. w[m + 1] # w[m - 1]
      BY <3>2, TrailTurns
    <3> QED
      BY <2>3, <3>2, <3>3
  <2>11. w[j - 1] # w[i + 1]
    <3>1. j - 1 \in 1 .. j - 1
      BY <2>4
    <3> QED
      BY <2>5, <2>8, <2>10, <3>1
  <2>12. w[i] \in overlay
    BY <1>1, <2>4
  <2>13. Beside(overlay, w[i]) = {w[j - 1], w[i + 1]} /\ Degree(overlay, w[i]) = 2
    BY <2>6, <2>9, <2>11, <2>12, TwoBeside
  <2>14. i # 1
    BY <2>13
  <2>15. i - 1 \in 1 .. n /\ i - 1 # n /\ (i - 1) + 1 = i /\ i - 1 \in 1 .. j - 1
         /\ i - 1 # j - 1 /\ i - 1 # i + 1 /\ j - 1 \in 1 .. j - 1
    BY <1>1, <2>4, <2>14
  <2>16. w[i - 1] \in Beside(overlay, w[i])
    BY <2>15, TrailTurns DEF n
  <2>17. w[i - 1] # w[j - 1] /\ w[i - 1] # w[i + 1]
    BY <2>5, <2>8, <2>15
  <2> QED
    BY <2>13, <2>16, <2>17
<1>3. ASSUME NEW i \in 1 .. n, NEW j \in 1 .. n, w[i] = w[j] PROVE i = j
  <2>1. i < j => j \in B
    BY <1>3
  <2>2. j < i => i \in B
    BY <1>3
  <2> HIDE DEF B
  <2> QED
    BY <1>1, <1>2, <2>1, <2>2
<1> QED
  BY <1>3

(* A line holds together.                                                  *)
LEMMA LineIsReached ==
  ASSUME NEW overlay, overlay \subseteq Tiles, NEW w, Line(overlay, w),
         NEW a \in overlay
  PROVE  Reach(a, overlay) = overlay
<1> DEFINE n == Len(w)
           R == Reach(a, overlay)
           P == {i \in 1 .. n : w[i] \in R}
<1>1. /\ n \in Nat /\ \A i \in 1 .. n : w[i] \in overlay
      /\ \A t \in overlay : \E i \in 1 .. n : w[i] = t
      /\ \A i, j \in 1 .. n : w[j] \in Neighbors(w[i]) <=> j = i + 1 \/ i = j + 1
  BY DEF Line
<1>2. a \in R /\ R \subseteq overlay /\ Widened(R, overlay) = R
  BY ReachIsClosed
<1> HIDE DEF R, n
<1>3. \A t \in R, u \in overlay : u \in Neighbors(t) => u \in R
  BY <1>2 DEF Widened
<1>4. PICK x \in 1 .. n : w[x] = a
  BY <1>1
<1>5. x \in P
  BY <1>2, <1>4
<1>6. ASSUME NEW i \in 1 .. n, i + 1 \in 1 .. n PROVE i \in P <=> i + 1 \in P
  <2>1. w[i + 1] \in Neighbors(w[i]) /\ w[i] \in Neighbors(w[i + 1])
    <3> DEFINE j == i + 1
    <3>1. j \in 1 .. n /\ j = i + 1
      BY <1>6
    <3> HIDE DEF j
    <3>2. w[j] \in Neighbors(w[i]) /\ w[i] \in Neighbors(w[j])
      BY <1>1, <3>1
    <3> QED
      BY <3>2 DEF j
  <2>2. w[i] \in overlay /\ w[i + 1] \in overlay
    BY <1>1, <1>6
  <2>3. w[i] \in R <=> w[i + 1] \in R
    BY <1>3, <2>1, <2>2
  <2> QED
    BY <1>6, <2>3
<1> HIDE DEF P
<1>7. 1 .. n \subseteq P
  <2>1. 1 \in Int /\ n \in Int
    BY <1>1
  <2> QED
    BY <1>4, <1>5, <1>6, <2>1, StretchIsWhole
<1>8. overlay \subseteq R
  BY <1>1, <1>7 DEF P
<1> QED
  BY <1>2, <1>8 DEF R

(* Steps onto the river along a line that shares one tile with it.         *)
LEMMA EntriesAre ==
  ASSUME NEW w, w.road \subseteq Tiles, w.river \subseteq Tiles,
         NEW p, Line(w.road, p), Len(p) >= 1,
         Cardinality(w.road \cap w.river) <= 1
  PROVE  Entries(w, p) = IF p[1] \in w.river THEN 0
                         ELSE Cardinality(w.road \cap w.river)
<1> DEFINE n == Len(p)
           V == w.road \cap w.river
           E == {i \in 2 .. n : p[i] \in w.river /\ p[i - 1] \notin w.river}
<1>1. /\ n \in Nat /\ n >= 1 /\ \A i \in 1 .. n : p[i] \in w.road
      /\ \A t \in w.road : \E i \in 1 .. n : p[i] = t
      /\ \A i, j \in 1 .. n : p[i] = p[j] => i = j
  BY DEF Line
<1>2. IsFiniteSet(V) /\ Cardinality(V) \in Nat /\ Cardinality(V) <= 1
  BY CountIs
<1>3. Entries(w, p) = Cardinality(E)
  BY DEF Entries
<1> HIDE DEF n
<1>4. ASSUME NEW s \in V, NEW t \in V PROVE s = t
  <2>1. CASE Cardinality(V) = 0
    BY <1>2, <2>1, FS_EmptySet
  <2>2. CASE Cardinality(V) = 1
    <3> HIDE DEF V
    <3>1. \E e : V = {e}
      BY <1>2, <2>2, OnlyOne
    <3> QED
      BY <3>1
  <2> QED
    BY <1>2, <2>1, <2>2
<1>5. \A i \in 1 .. n : p[i] \in w.river => p[i] \in V
  BY <1>1
<1>6. CASE p[1] \in w.river
  <2>1. ASSUME NEW i \in E PROVE FALSE
    <3>1. i \in 1 .. n /\ 1 \in 1 .. n /\ i # 1
      BY <1>1
    <3>2. p[i] = p[1]
      BY <1>4, <1>5, <1>6, <3>1
    <3> QED
      BY <1>1, <3>1, <3>2
  <2>2. E = {}
    BY <2>1
  <2> QED
    BY <1>3, <1>6, <2>2, FS_EmptySet
<1>7. CASE p[1] \notin w.river /\ V = {}
  <2>1. ASSUME NEW i \in E PROVE FALSE
    <3>1. i \in 1 .. n
      BY <1>1
    <3> QED
      BY <1>5, <1>7, <3>1
  <2>2. E = {}
    BY <2>1
  <2> QED
    BY <1>3, <1>7, <2>2
<1>8. CASE p[1] \notin w.river /\ V # {}
  <2>1. PICK t \in V : TRUE
    BY <1>8
  <2>2. PICK i \in 1 .. n : p[i] = t
    BY <1>1, <2>1
  <2>3. i # 1
    BY <1>8, <2>1, <2>2
  <2>4. i \in 2 .. n /\ i - 1 \in 1 .. n /\ i - 1 # i
    BY <1>1, <2>2, <2>3
  <2>5. p[i - 1] # p[i]
    BY <1>1, <2>2, <2>4
  <2>6. p[i - 1] \notin w.river
    BY <1>4, <1>5, <2>1, <2>2, <2>4, <2>5
  <2>7. i \in E
    BY <2>1, <2>2, <2>4, <2>6
  <2>8. ASSUME NEW j \in E PROVE j = i
    <3>1. j \in 1 .. n /\ p[j] \in w.river
      BY <1>1
    <3>2. p[j] = t
      BY <1>4, <1>5, <2>1, <3>1
    <3> QED
      BY <1>1, <2>2, <3>1, <3>2
  <2>9. E = {i}
    BY <2>7, <2>8
  <2>10. V = {t}
    BY <1>4, <2>1
  <2>11. Cardinality(E) = 1 /\ Cardinality(V) = 1
    <3> HIDE DEF E, V
    <3> QED
      BY <2>9, <2>10, FS_Singleton
  <2> QED
    BY <1>3, <1>8, <2>11
<1> QED
  BY <1>6, <1>7, <1>8

Mapped(w) ==
  /\ w.road \subseteq Tiles /\ w.river \subseteq Tiles
  /\ {Coastal(w).at, Inland(w).at} \subseteq Tiles \cup {Nowhere}
FirstEnd(w) == CHOOSE t \in Ends(w.road) : \A s \in Ends(w.road) : t <= s
OffTheRiver(w) == \A t \in w.crossings : t # FirstEnd(w)

LEMMA FirstEndIs ==
  ASSUME NEW w, w.road \subseteq Tiles, Ends(w.road) # {}
  PROVE  FirstEnd(w) \in Ends(w.road) /\ FirstEnd(w) \in w.road
         /\ Degree(w.road, FirstEnd(w)) = 1
<1>1. Ends(w.road) \subseteq w.road /\ Ends(w.road) \subseteq Nat
  BY MapIs DEF Ends
<1>2. \E t \in Ends(w.road) : \A s \in Ends(w.road) : t <= s
  BY <1>1, LeastExists
<1>3. FirstEnd(w) \in Ends(w.road)
  BY <1>2 DEF FirstEnd
<1> QED
  BY <1>3 DEF Ends

(* A road that passes is one way between the settlements.                  *)
LEMMA RoadIsOne ==
  ASSUME NEW w, Mapped(w), Road(w)
  PROVE  OneRoad(w) /\ OffTheRiver(w)
<1> DEFINE R == w.road
           V == w.road \cap w.river
           a == Coastal(w).at
           b == Inland(w).at
           start == FirstEnd(w)
           p == Walk(R, start)
           n == Len(p)
<1>1. /\ a # Nowhere /\ b # Nowhere /\ w.crossings \subseteq V
      /\ \A t \in R : w.terrain[t] # "WATER" /\ Degree(R, t) \in {1, 2}
      /\ Cardinality(R) >= 2 /\ Cardinality(Ends(R)) = 2
      /\ Cardinality(V) <= 1 /\ a \in R /\ b \in R
  BY DEF Road
<1>2. /\ WalksAll(R, p)
      /\ <<p[1], p[n]>> \in {<<a, b>>, <<b, a>>}
      /\ Entries(w, p) <= 1
      /\ Cardinality(w.crossings) = Cardinality(V)
      /\ Entries(w, p) = Cardinality(V)
  BY Zenon DEF Road, FirstEnd
<1>3. R \subseteq Tiles /\ w.river \subseteq Tiles
  BY DEF Mapped
<1>4. Ends(R) # {}
  BY <1>1, FS_EmptySet
<1>5. start \in R /\ Degree(R, start) = 1
  BY <1>3, <1>4, FirstEndIs
<1> HIDE DEF start, a, b
<1>6. Trail(R, p) /\ p[1] = start
  BY <1>3, <1>5, WalkIsTrail
<1> HIDE DEF p
<1>7. \A i, j \in 1 .. Len(p) : p[i] = p[j] => i = j
  BY <1>1, <1>3, <1>5, <1>6, TrailFromEnd
<1>8. Line(R, p)
  BY <1>2, <1>3, <1>6, <1>7, WholeTrailIsLine
<1>9. n \in Nat /\ n >= 2
  BY <1>1, <1>8 DEF Line
<1>10. /\ \A i \in 1 .. n : Degree(R, p[i]) = IF i \in {1, n} THEN 1 ELSE 2
       /\ p[1] # p[n]
  BY <1>3, <1>8, <1>9, LineDegrees
<1>11. {p[1], p[n]} = {a, b}
  BY <1>2
<1>12. a # b
  BY <1>10, <1>11
<1>13. Reach(a, R) = R
  BY <1>1, <1>3, <1>8, LineIsReached
<1>14. \A t \in R : Cardinality(Neighbors(t) \cap R) = IF t \in {a, b} THEN 1 ELSE 2
  <2> SUFFICES ASSUME NEW t \in R
               PROVE  Cardinality(Neighbors(t) \cap R) = IF t \in {a, b} THEN 1 ELSE 2
    OBVIOUS
  <2>1. PICK i \in 1 .. n : p[i] = t
    BY <1>8 DEF Line
  <2>2. 1 \in 1 .. n /\ n \in 1 .. n
    BY <1>9
  <2>3. t \in {a, b} <=> i \in {1, n}
    BY <1>7, <1>11, <2>1, <2>2
  <2>4. Degree(R, t) = IF i \in {1, n} THEN 1 ELSE 2
    BY <1>10, <2>1
  <2>5. Cardinality(Neighbors(t) \cap R) = Degree(R, t)
    BY <1>3, DegreeIs DEF Beside
  <2> QED
    BY <2>3, <2>4, <2>5
<1>15. w.crossings = V
  <2> DEFINE C == w.crossings
  <2>1. IsFiniteSet(V) /\ C \subseteq V /\ Cardinality(C) = Cardinality(V)
    BY <1>1, <1>2, <1>3, CountIs
  <2> HIDE DEF C, V
  <2>2. C = V
    BY <2>1, FS_Subset
  <2> QED
    BY <2>2 DEF C
<1>16. OneRoad(w)
  <2>1. a \in R /\ b \in R /\ a # b /\ Reach(a, R) = R
    BY <1>1, <1>12, <1>13
  <2>2. Cardinality(V) <= 1 /\ w.crossings = V
    BY <1>1, <1>15
  <2>3. \A t \in R : w.terrain[t] # "WATER"
    BY <1>1
  <2> QED
    BY <1>14, <2>1, <2>2, <2>3 DEF OneRoad, a, b
<1>17. OffTheRiver(w)
  <2> SUFFICES ASSUME NEW t \in w.crossings, t = start PROVE FALSE
    BY DEF OffTheRiver, start
  <2>1. t \in V /\ p[1] \in w.river
    BY <1>6, <1>15
  <2>2. Entries(w, p) = 0
    <3>1. Len(p) >= 1
      BY <1>9
    <3> QED
      BY <1>1, <1>3, <1>8, <2>1, <3>1, EntriesAre
  <2>3. Cardinality(V) = 0
    BY <1>2, <2>2
  <2>4. IsFiniteSet(V)
    BY <1>3, CountIs
  <2>5. V = {}
    <3> HIDE DEF V
    <3> QED
      BY <2>3, <2>4, FS_EmptySet
  <2> QED
    BY <2>1, <2>5
<1> QED
  BY <1>16, <1>17

(* A step of the walk goes one tile on, or nowhere for ever.               *)
LEMMA WalkStops ==
  ASSUME NEW overlay, overlay \subseteq Tiles, NEW from \in overlay,
         NEW p, p = Walk(overlay, from),
         \A i, j \in 1 .. Len(p) : p[i] = p[j] => i = j
  PROVE  WalkStep(overlay, p) = p
<1> DEFINE n == Cardinality(overlay)
<1>0. n \in Nat /\ IsFiniteSet(overlay)
  BY CountIs
<1>1. PICK f :
        /\ f[1] = <<from>>
        /\ \A k \in Nat \ {0, 1} : f[k] = WalkStep(overlay, f[k - 1])
        /\ Walk(overlay, from) = f[n + 1]
  BY WalkIs
<1> HIDE DEF n
<1> DEFINE Good(k) == /\ f[k] \in Seq(overlay) /\ Len(f[k]) >= 1
                      /\ Len(f[k]) = k \/ WalkStep(overlay, f[k]) = f[k]
           B == {k \in Nat \ {0} : ~Good(k)}
<1>2. B = {}
  <2> SUFFICES ASSUME B # {} PROVE FALSE
    OBVIOUS
  <2>1. B \subseteq Nat
    OBVIOUS
  <2>2. PICK k \in B : \A m \in B : k <= m
    <3> HIDE DEF B
    <3> QED
      BY <2>1, LeastExists
  <2>3. Good(1)
    BY <1>1
  <2>4. k # 1 /\ k \in Nat \ {0}
    BY <2>2, <2>3
  <2>5. k \in Nat \ {0, 1} /\ k - 1 \in Nat \ {0} /\ ~(k <= k - 1)
    BY <2>4
  <2>6. Good(k - 1)
    BY <2>2, <2>5
  <2> DEFINE v == f[k - 1]
  <2>7. f[k] = WalkStep(overlay, v)
    BY <1>1, <2>5
  <2>8. CASE WalkStep(overlay, v) = v
    BY <2>2, <2>6, <2>7, <2>8
  <2>9. CASE WalkStep(overlay, v) # v
    <3> DEFINE before == IF Len(v) = 1 THEN Nowhere ELSE v[Len(v) - 1]
               next == Onward(overlay, before, v[Len(v)])
               t == CHOOSE s \in next : TRUE
    <3>1. Cardinality(next) = 1 /\ WalkStep(overlay, v) = Append(v, t)
      BY <2>9 DEF WalkStep
    <3>2. next \subseteq overlay /\ IsFiniteSet(next)
      BY OnwardIs
    <3>3. t \in overlay
      <4>1. Cardinality(next) = 1
        BY <3>1
      <4> HIDE DEF next
      <4>2. PICK e : next = {e}
        BY <3>2, <4>1, OnlyOne
      <4>3. t \in next
        BY <4>2
      <4> QED
        BY <3>2, <4>3, Zenon
    <3>4. v \in Seq(overlay) /\ Len(v) = k - 1
      BY <2>6, <2>9
    <3> HIDE DEF t, v
    <3>5. Append(v, t) \in Seq(overlay) /\ Len(Append(v, t)) = k
      BY <2>5, <3>3, <3>4
    <3>6. Good(k)
      BY <2>5, <2>7, <3>1, <3>5
    <3> QED
      BY <2>2, <3>6
  <2> QED
    BY <2>8, <2>9
<1>3. n + 1 \in Nat \ {0} /\ p = f[n + 1]
  BY <1>0, <1>1
<1>4. Good(n + 1)
  BY <1>2, <1>3
<1>5. p \in Seq(overlay) /\ (Len(p) = n + 1 \/ WalkStep(overlay, p) = p)
  BY <1>3, <1>4
<1>6. Len(p) # n + 1
  <2> DEFINE m == Len(p)
  <2>1. m \in Nat /\ p \in [1 .. m -> overlay]
    BY <1>5
  <2> HIDE DEF m
  <2>2. p \in Injection(1 .. m, overlay)
    BY <2>1 DEF Injection, IsInjective, m
  <2>3. IsFiniteSet(1 .. m) /\ Cardinality(1 .. m) = m
    BY <2>1, FS_Interval
  <2>4. m <= n
    <3>1. Cardinality(1 .. m) <= Cardinality(overlay)
      BY <1>0, <2>2, FS_Injection, Zenon
    <3> QED
      BY <2>3, <3>1 DEF n
  <2>5. m # n + 1
    BY <1>0, <2>1, <2>4
  <2> QED
    BY <2>5 DEF m
<1> QED
  BY <1>5, <1>6

(* The walk from an end of what holds together visits it all.              *)
GoesToTheEnd(overlay, from, p) ==
  /\ p[1] = from /\ Trail(overlay, p) /\ Len(p) >= 2
  /\ \A i, j \in 1 .. Len(p) : p[i] = p[j] => i = j
  /\ Onward(overlay, p[Len(p) - 1], p[Len(p)]) = {}
  /\ Beside(overlay, p[Len(p)]) = {p[Len(p) - 1]}

LEMMA WalkFromEnd ==
  ASSUME NEW overlay, overlay \subseteq Tiles, NEW from \in overlay,
         \A t \in overlay : Degree(overlay, t) \in {1, 2},
         Degree(overlay, from) = 1,
         NEW p, p = Walk(overlay, from)
  PROVE  GoesToTheEnd(overlay, from, p)
<1> DEFINE n == Len(p)
           next == Onward(overlay, BeforeOn(p, n), p[n])
<1>1. Trail(overlay, p) /\ p[1] = from
  BY WalkIsTrail
<1>2. \A i, j \in 1 .. Len(p) : p[i] = p[j] => i = j
  BY <1>1, TrailFromEnd
<1>3. WalkStep(overlay, p) = p
  BY <1>2, WalkStops
<1>4. p \in Seq(overlay) /\ n \in Nat /\ n >= 1
  BY <1>1 DEF Trail
<1>5. next \subseteq overlay /\ IsFiniteSet(next)
  BY OnwardIs
<1>6. Cardinality(next) # 1
  <2> SUFFICES ASSUME Cardinality(next) = 1 PROVE FALSE
    OBVIOUS
  <2> DEFINE t == CHOOSE s \in next : TRUE
  <2>1. WalkStep(overlay, p) = Append(p, t)
    BY DEF WalkStep, BeforeOn
  <2>2. t \in overlay
    <3> HIDE DEF next
    <3>1. PICK e : next = {e}
      BY <1>5, OnlyOne
    <3>2. t \in next
      BY <3>1
    <3> QED
      BY <1>5, <3>2, Zenon
  <2> HIDE DEF t, next
  <2>3. Len(Append(p, t)) = n + 1
    BY <1>4, <2>2
  <2> QED
    BY <1>3, <1>4, <2>1, <2>3
<1>7. n # 1
  <2> SUFFICES ASSUME n = 1 PROVE FALSE
    OBVIOUS
  <2>1. next = Beside(overlay, from)
    BY <1>1, NowhereAssumption DEF Onward, BeforeOn, Beside
  <2> QED
    BY <1>6, <2>1, DegreeIs
<1>8. n \in Nat /\ n >= 2
  <2>1. n \in Nat /\ n >= 1
    BY <1>4
  <2> HIDE DEF n
  <2> QED
    BY <1>7, <2>1
<1>9. p[n - 1] \in Beside(overlay, p[n]) /\ p[n] \in overlay
  <2> DEFINE h == n - 1
  <2>1. h \in 1 .. n /\ h # n /\ h + 1 = n /\ n \in 1 .. n
    <3> HIDE DEF n
    <3> QED
      BY <1>8
  <2>2. p[n] \in overlay
    <3>1. \A i \in 1 .. n : p[i] \in overlay
      BY <1>4
    <3> HIDE DEF n, h
    <3> QED
      BY <2>1, <3>1
  <2> HIDE DEF h
  <2>3. p[h] \in Beside(overlay, p[h + 1])
    BY <1>1, <2>1, TrailTurns
  <2> HIDE DEF n
  <2>4. p[h] \in Beside(overlay, p[n])
    BY <2>1, <2>3
  <2> QED
    BY <2>2, <2>4 DEF h
<1>10. next = Beside(overlay, p[n]) \ {p[n - 1]}
  BY <1>7 DEF BeforeOn, Onward, Beside
<1> HIDE DEF n, next
<1>11. ASSUME NEW s \in next PROVE FALSE
  <2>1. s \in Beside(overlay, p[n]) /\ s # p[n - 1]
    BY <1>10
  <2>2. Beside(overlay, p[n]) = {s, p[n - 1]}
    BY <1>9, <2>1, TwoBeside
  <2>3. next = {s}
    BY <1>10, <2>1, <2>2
  <2> QED
    BY <1>6, <2>3, FS_Singleton
<1>12. next = {} /\ Beside(overlay, p[n]) = {p[n - 1]}
  BY <1>9, <1>10, <1>11
<1>13. Onward(overlay, p[n - 1], p[n]) = {}
  BY <1>10, <1>12 DEF Onward, Beside
<1> QED
  BY <1>1, <1>2, <1>8, <1>12, <1>13, Zenon DEF n, GoesToTheEnd

LEMMA WalkIsWhole ==
  ASSUME NEW overlay, overlay \subseteq Tiles, NEW from \in overlay,
         \A t \in overlay : Degree(overlay, t) \in {1, 2},
         Degree(overlay, from) = 1,
         NEW a \in overlay, Reach(a, overlay) = overlay,
         NEW p, p = Walk(overlay, from),
         a \in {p[1], p[Len(p)]}
  PROVE  Line(overlay, p) /\ WalksAll(overlay, p)
<1> DEFINE n == Len(p)
           T == {p[i] : i \in 1 .. n}
<1>1. /\ p[1] = from /\ Trail(overlay, p) /\ n >= 2
      /\ \A i, j \in 1 .. n : p[i] = p[j] => i = j
      /\ Onward(overlay, p[n - 1], p[n]) = {}
      /\ Beside(overlay, p[n]) = {p[n - 1]}
  <2>1. GoesToTheEnd(overlay, from, p)
    BY WalkFromEnd
  <2> QED
    BY <2>1, Zenon DEF GoesToTheEnd
<1>2. n \in Nat /\ p \in Seq(overlay) /\ \A i \in 1 .. n : p[i] \in overlay
  BY <1>1 DEF Trail
<1>3. T \subseteq overlay /\ a \in T
  <2>1. 1 \in 1 .. n /\ n \in 1 .. n
    BY <1>1, <1>2
  <2> QED
    BY <1>2, <2>1
\* what is beside a tile of the walk is on the walk
<1>4. ASSUME NEW i \in 1 .. n PROVE Beside(overlay, p[i]) \subseteq T
  <2>1. CASE i = n
    <3>1. n - 1 \in 1 .. n
      BY <1>1, <1>2
    <3> QED
      BY <1>1, <2>1, <3>1
  <2>2. CASE i = 1 /\ i # n
    <3>1. p[i + 1] \in Beside(overlay, p[i]) /\ i + 1 \in 1 .. n
      BY <1>1, <2>2, TrailTurns
    <3>2. Degree(overlay, p[i]) = 1
      BY <1>1, <2>2
    <3> DEFINE B == Beside(overlay, p[i])
               e == p[i + 1]
    <3>3. IsFiniteSet(B) /\ Cardinality(B) = 1 /\ e \in B
      BY <3>1, <3>2, DegreeIs
    <3> HIDE DEF B, e
    <3>4. B = {e}
      BY <3>3, OnlyOne
    <3> QED
      BY <3>1, <3>4 DEF B, e
  <2>3. CASE i # 1 /\ i # n
    <3> DEFINE h == i - 1
    <3>1. h \in 1 .. n /\ h # n /\ h + 1 = i
      BY <1>2, <2>3
    <3> HIDE DEF h
    <3>2. p[h] \in Beside(overlay, p[h + 1])
      BY <1>1, <3>1, TrailTurns
    <3>3. p[i + 1] \in Beside(overlay, p[i]) /\ i + 1 \in 1 .. n
      BY <1>1, <2>3, TrailTurns
    <3>4. h # i + 1
      BY <1>2, <3>1
    <3>5. p[h] # p[i + 1]
      BY <1>1, <3>1, <3>3, <3>4
    <3>6. Beside(overlay, p[i]) = {p[h], p[i + 1]}
      BY <1>2, <3>1, <3>2, <3>3, <3>5, TwoBeside
    <3> QED
      BY <3>1, <3>3, <3>6
  <2> QED
    BY <2>1, <2>2, <2>3
<1>5. Widened(T, overlay) = T
  <2>1. ASSUME NEW s \in Widened(T, overlay) PROVE s \in T
    <3>1. CASE s \in T
      BY <3>1
    <3>2. CASE s \notin T
      <4>1. PICK t \in T : s \in Neighbors(t) /\ s \in overlay
        BY <3>2 DEF Widened
      <4>2. PICK i \in 1 .. n : p[i] = t
        BY <4>1
      <4>3. s \in Beside(overlay, p[i])
        BY <4>1, <4>2 DEF Beside
      <4> QED
        BY <1>4, <4>3
    <3> QED
      BY <3>1, <3>2
  <2>2. T \subseteq Widened(T, overlay)
    BY DEF Widened
  <2> QED
    BY <2>1, <2>2
<1>6. T = overlay
  <2>1. T \in SUBSET Tiles /\ overlay \in SUBSET Tiles
    BY <1>3
  <2> HIDE DEF T
  <2>2. Reach(a, overlay) \subseteq T
    BY <1>3, <1>5, <2>1, ReachIsClosed
  <2> QED
    BY <1>3, <2>2
<1>7. n = Cardinality(overlay)
  <2>1. p \in Injection(1 .. n, overlay)
    <3>1. p \in [1 .. n -> overlay]
      BY <1>2
    <3> QED
      BY <1>1, <3>1 DEF Injection, IsInjective
  <2>2. p \in Surjection(1 .. n, overlay)
    <3>1. p \in [1 .. n -> overlay]
      BY <1>2
    <3> QED
      BY <1>6, <3>1 DEF Surjection
  <2>3. IsFiniteSet(overlay) /\ IsFiniteSet(1 .. n) /\ Cardinality(1 .. n) = n
    <3>1. IsFiniteSet(overlay)
      BY CountIs
    <3>2. n \in Nat
      BY <1>2
    <3> HIDE DEF n, T
    <3>3. IsFiniteSet(1 .. n) /\ Cardinality(1 .. n) = n
      BY <3>2, FS_Interval
    <3> QED
      BY <3>1, <3>3
  <2>4. Cardinality(1 .. n) = Cardinality(overlay)
    <3> DEFINE D == 1 .. n
    <3>1. p \in Injection(D, overlay) /\ p \in Surjection(D, overlay)
      BY <2>1, <2>2
    <3>0. IsFiniteSet(overlay)
      BY <2>3
    <3> HIDE DEF D, T
    <3>2. Cardinality(D) = Cardinality(overlay)
      BY <3>0, <3>1, FS_Injection
    <3> QED
      BY <3>2 DEF D
  <2> QED
    BY <2>3, <2>4
<1>8. WalksAll(overlay, p)
  BY <1>1, <1>7 DEF WalksAll
<1>9. Line(overlay, p)
  BY <1>1, <1>8, WholeTrailIsLine
<1> QED
  BY <1>8, <1>9

LEMMA OneIsRoad ==
  ASSUME NEW w, Mapped(w), OneRoad(w), OffTheRiver(w)
  PROVE  Road(w)
<1> DEFINE R == w.road
           V == w.road \cap w.river
           a == Coastal(w).at
           b == Inland(w).at
           start == FirstEnd(w)
           p == Walk(R, start)
           n == Len(p)
<1>1. /\ a \in R /\ b \in R /\ a # b /\ Reach(a, R) = R
      /\ \A t \in R : /\ Cardinality(Neighbors(t) \cap R) =
                           IF t \in {a, b} THEN 1 ELSE 2
                      /\ w.terrain[t] # "WATER"
      /\ Cardinality(V) <= 1 /\ w.crossings = V
  BY Zenon DEF OneRoad
<1>2. R \subseteq Tiles /\ w.river \subseteq Tiles
  BY DEF Mapped
<1> HIDE DEF a, b, start
<1>3. \A t \in R : Degree(R, t) = IF t \in {a, b} THEN 1 ELSE 2
  <2> SUFFICES ASSUME NEW t \in R
               PROVE  Degree(R, t) = IF t \in {a, b} THEN 1 ELSE 2
    OBVIOUS
  <2>1. Degree(R, t) = Cardinality(Neighbors(t) \cap R)
    BY <1>2, DegreeIs DEF Beside
  <2> QED
    BY <1>1, <2>1
<1>4. \A t \in R : Degree(R, t) \in {1, 2}
  BY <1>3
<1>5. Ends(R) = {a, b}
  BY <1>1, <1>3 DEF Ends
<1>6. start \in {a, b} /\ start \in R /\ Degree(R, start) = 1
  BY <1>1, <1>2, <1>5, FirstEndIs DEF start
<1>7. GoesToTheEnd(R, start, p)
  BY <1>2, <1>4, <1>6, WalkFromEnd
<1>8. /\ p[1] = start /\ Trail(R, p) /\ n >= 2
      /\ \A i, j \in 1 .. n : p[i] = p[j] => i = j
      /\ Beside(R, p[n]) = {p[n - 1]}
  BY <1>7, Zenon DEF GoesToTheEnd
<1> HIDE DEF p
<1>9. n \in Nat /\ \A i \in 1 .. n : p[i] \in R
  BY <1>8 DEF Trail
<1> HIDE DEF n
<1>10. 1 \in 1 .. n /\ n \in 1 .. n /\ n # 1
  BY <1>8, <1>9
<1>11. p[n] \in {a, b} /\ p[n] # p[1]
  <2>1. Cardinality(Neighbors(p[n]) \cap R) = 1
    BY <1>8, FS_Singleton DEF Beside
  <2>2. p[n] \in R
    BY <1>9, <1>10
  <2>3. p[n] \in {a, b}
    BY <1>1, <2>1, <2>2
  <2> QED
    BY <1>8, <1>10, <2>3
<1>12. {p[1], p[n]} = {a, b} /\ a \in {p[1], p[n]}
  BY <1>6, <1>8, <1>11
<1>13. Line(R, p) /\ WalksAll(R, p)
  <2>1. a \in {p[1], p[Len(p)]} /\ a \in R
    BY <1>1, <1>12 DEF n
  <2> QED
    BY <1>1, <1>2, <1>4, <1>6, <2>1, WalkIsWhole DEF p
<1>14. Cardinality(R) = n
  BY <1>13 DEF Line, n
<1>15. Cardinality(Ends(R)) = 2
  <2>1. a # b
    BY <1>1
  <2>2. Cardinality({a, b}) = 2
    BY <2>1, PairIs
  <2> QED
    BY <1>5, <2>2, Zenon
<1>16. p[1] \notin w.river
  <2> SUFFICES ASSUME p[1] \in w.river PROVE FALSE
    OBVIOUS
  <2>1. start \in w.crossings
    BY <1>1, <1>6, <1>8
  <2> QED
    BY <2>1 DEF OffTheRiver, start
<1>17. Entries(w, p) = Cardinality(V)
  <2>1. Len(p) >= 1
    BY <1>8, <1>9 DEF n
  <2> QED
    BY <1>1, <1>2, <1>13, <1>16, <2>1, EntriesAre
<1>18. <<p[1], p[n]>> \in {<<a, b>>, <<b, a>>}
  BY <1>11, <1>12
<1>19. /\ Cardinality(w.crossings) = Cardinality(V)
       /\ Cardinality(w.crossings) <= 1 /\ w.crossings \subseteq V
       /\ Entries(w, p) <= 1
  BY <1>1, <1>17
<1>20. a # Nowhere /\ b # Nowhere
  BY <1>1, <1>2, NowhereAssumption
<1>21. Cardinality(R) >= 2
  BY <1>8, <1>14
<1>22. \A t \in R : w.terrain[t] # "WATER" /\ Degree(R, t) \in {1, 2}
  BY <1>1, <1>4
<1>23. {a, b} \subseteq R
  BY <1>1
<1>24. /\ WalksAll(R, p)
       /\ <<p[1], p[Len(p)]>> \in {<<a, b>>, <<b, a>>}
       /\ Entries(w, p) <= 1
       /\ Cardinality(w.crossings) = Cardinality(V)
       /\ Entries(w, p) = Cardinality(V)
  BY <1>13, <1>17, <1>18, <1>19 DEF n
<1> QED
  BY <1>1, <1>15, <1>19, <1>20, <1>21, <1>22, <1>23, <1>24, Zenon
  DEF Road, a, b, p, start, FirstEnd

(* What ROAD_CORRIDOR stands for.                                          *)
LEMMA RoadPasses ==
  ASSUME NEW w
  PROVE  "ROAD_CORRIDOR" \in Passed(w) <=>
           Road(w) /\ w.road_tile_count = Cardinality(w.road)
<1> DEFINE outlet == Outlet(w)
           river_count == IF outlet = Nowhere THEN 0 ELSE Cardinality(w.river)
           road_holds == Road(w)
           road_count == IF road_holds THEN Cardinality(w.road) ELSE 0
           graph == /\ outlet # Nowhere
                    /\ OwnershipGraph(w, river_count, road_count, outlet)
           reachable == road_holds /\ w.road_tile_count = road_count
           verdict(i) ==
             CASE i = "BOUNDS" -> TRUE
               [] i = "LAND_COAST" ->
                    /\ FirstFailed(w) = Nowhere /\ CoastLand(w)
                    /\ w.land_tile_count = Cardinality(Land(w))
               [] i = "TERRAIN_COVERAGE" -> Coverage(w)
               [] i = "HYDROLOGY" ->
                    outlet # Nowhere /\ w.river_tile_count = river_count
               [] i = "SETTLEMENTS" -> outlet # Nowhere /\ Settlements(w, outlet)
               [] i \in {"ROAD_CORRIDOR", "OBJECTIVE_REACHABLE"} -> reachable
               [] i \in {"OWNERSHIP", "GRAPH_TILE_AGREEMENT"} -> graph
<1>1. Passed(w) = {i \in Invariants : [j \in Invariants |-> verdict(j)][i]}
  BY Zenon DEF Passed
<1>2. "ROAD_CORRIDOR" \in Invariants
  BY DEF Invariants
<1>3. "ROAD_CORRIDOR" \in Passed(w) <=> verdict("ROAD_CORRIDOR")
  <2> HIDE DEF verdict
  <2> QED
    BY <1>1, <1>2
<1> HIDE DEF outlet, river_count, road_holds, road_count
<1>4. verdict("ROAD_CORRIDOR") <=>
        road_holds /\ w.road_tile_count = road_count
  OBVIOUS
<1>5. road_holds => road_count = Cardinality(w.road)
  BY DEF road_count
<1> HIDE DEF verdict
<1>6. "ROAD_CORRIDOR" \in Passed(w) <=>
        road_holds /\ w.road_tile_count = Cardinality(w.road)
  BY <1>3, <1>4, <1>5, Zenon
<1> QED
  BY <1>6, Zenon DEF road_holds

LEMMA RoadFollows == TypedIInv /\ CandidateIInv => RoadIsOneWay
<1> SUFFICES ASSUME TypedIInv, CandidateIInv, Reported
             PROVE  Holds("ROAD_CORRIDOR") <=>
                      /\ OneRoad(world)
                      /\ world.road_tile_count = Cardinality(world.road)
                      /\ OffTheRiver(world)
  BY Zenon DEF RoadIsOneWay, OffTheRiver, FirstEnd
<1>1. report.passed = Passed(world)
  BY DEF CandidateIInv, ReportKept, Reported, Report
<1>2. Mapped(world)
  <2>1. world \in Worlds
    BY DEF TypedIInv, CandidateTypeOK, ValidateTypeOK
  <2>2. world.road \subseteq Tiles /\ world.river \subseteq Tiles
        /\ world.entities \in [1 .. 6 -> Entities]
    BY <2>1 DEF Worlds
  <2>3. Coastal(world) \in Entities /\ Inland(world) \in Entities
    BY <2>2 DEF Coastal, Inland
  <2> QED
    BY <2>2, <2>3 DEF Mapped, Entities
<1>3. Holds("ROAD_CORRIDOR") <=> "ROAD_CORRIDOR" \in Passed(world)
  BY <1>1 DEF Holds
<1>4. Road(world) <=> OneRoad(world) /\ OffTheRiver(world)
  BY <1>2, RoadIsOne, OneIsRoad
<1>5. "ROAD_CORRIDOR" \in Passed(world) <=>
        Road(world) /\ world.road_tile_count = Cardinality(world.road)
  BY RoadPasses
<1> QED
  BY <1>3, <1>4, <1>5, Zenon

(* For every size of map and every world a save can hold: the degrees, the *)
(* ends and the walk fd_validate_road counts pass exactly the roads that   *)
(* are one line of land from settlement to settlement and cross the river  *)
(* at most once, on a marked tile that is not the end the walk starts at.  *)
THEOREM RoadIsTold == CandidateSpec => []RoadIsOneWay
<1>1. CandidateInit => TypedIInv /\ CandidateIInv
  BY TypedStarts, CandidateStarts
<1>2. TypedIInv /\ CandidateIInv /\ [CandidateNext]_candidateVars
        => (TypedIInv /\ CandidateIInv)'
  BY TypedStepKeeps, CandidateStepKeeps
<1>3. TypedIInv /\ CandidateIInv => RoadIsOneWay
  BY RoadFollows
<1> QED
  BY <1>1, <1>2, <1>3, PTL DEF CandidateSpec

-----------------------------------------------------------------------------
(* What is drawn before the first tile is written, counted from the sea:   *)
(* In(x) columns lie between the sea's side of the map and column x.       *)
In(x) == IF choice.west THEN x ELSE Width - 1 - x

LEMMA MapSizes ==
  /\ Width \in Nat /\ Height \in Nat /\ Width >= 32 /\ Height >= 16
BY CandidateAssumption, MapIs

LEMMA ChoiceIs ==
  ASSUME choice \in Choices
  PROVE  /\ choice \in ChoiceType /\ choice.west \in BOOLEAN
         /\ choice.source \in 0 .. 2 /\ choice.river_tie \in 0 .. 1
         /\ choice.outlet \in 0 .. OutletRange - 1
         /\ choice.fallback \in BOOLEAN /\ choice.wetland \in Nat
         /\ choice.offset \in [0 .. Height - 1 -> 0 .. 2 * Amplitude]
<1>1. choice \in ChoiceType
  BY CandidateAssumption
<1>2. choice.wetland \in 1 .. Million
  BY <1>1 DEF ChoiceType
<1>3. choice.wetland \in Nat
  BY <1>2
<1> QED
  BY <1>1, <1>3 DEF ChoiceType

LEMMA WaterDrawn ==
  /\ Amplitude \in Nat \ {0} /\ 32 * Amplitude <= Width
  /\ BaseWater \in Nat /\ 100 * BaseWater <= 30 * Width
  /\ 30 * Width < 100 * BaseWater + 100
BY MapSizes DEF Amplitude, BaseWater

LEMMA RowsDrawn ==
  ASSUME choice \in Choices
  PROVE  /\ OutletY \in Nat /\ OutletY >= 2 /\ 3 * OutletY <= Height + 3
         /\ CoastalY = OutletY + 1 /\ InlandY = Height - 3
         /\ SourceY \in {OutletY, OutletY + 2, OutletY + 3}
<1>1. /\ Height \in Nat /\ Height >= 16
      /\ choice.source \in 0 .. 2 /\ choice.outlet \in 0 .. OutletRange - 1
  BY MapSizes, ChoiceIs
<1>2. OutletRange = Height \div 3
  BY <1>1 DEF OutletRange
<1>3. OutletY = 2 + choice.outlet /\ 3 * OutletY <= Height + 3
  BY <1>1, <1>2 DEF OutletY
<1>4. OutletY \in Nat /\ OutletY >= 2
  BY <1>1, <1>2, <1>3
<1> DEFINE o == OutletY
<1> HIDE DEF o
<1>5. o \in Nat /\ o >= 2 /\ 3 * o <= Height + 3
  BY <1>3, <1>4 DEF o
<1>6. SourceY \in {o, o + 2, o + 3}
  BY <1>1, <1>5 DEF SourceY, CoastalY, o
<1> QED
  BY <1>5, <1>6 DEF o, CoastalY, InlandY

LEMMA ColumnsDrawn ==
  ASSUME choice \in Choices
  PROVE  /\ CoastalX \in 0 .. Width - 1 /\ SourceX \in 0 .. Width - 1
         /\ BendX \in 0 .. Width - 1 /\ MiddleX \in 0 .. Width - 1
         /\ InlandX \in 0 .. Width - 1
         /\ In(CoastalX) = BaseWater /\ In(SourceX) = Width - 2
         /\ In(InlandX) = Width - 3
         /\ Width + BaseWater - 4 <= 2 * In(MiddleX)
         /\ In(MiddleX) <= In(BendX)
         /\ 2 * In(BendX) <= Width + BaseWater - 1
<1>1. /\ Width \in Nat /\ Width >= 32 /\ choice.west \in BOOLEAN
      /\ choice.river_tie \in 0 .. 1
  BY MapSizes, ChoiceIs
<1> DEFINE b == BaseWater
           r == choice.river_tie
<1> HIDE DEF b
<1>2. b \in Nat /\ 100 * b <= 30 * Width /\ r \in 0 .. 1
  BY <1>1, WaterDrawn DEF b
<1> HIDE DEF r
<1>3. CASE choice.west
  <2>1. /\ CoastalX = b /\ SourceX = Width - 2 /\ InlandX = Width - 3
        /\ BendX = (b + (Width - 2) + r) \div 2
        /\ MiddleX = (b + (Width - 3)) \div 2
    BY <1>3 DEF CoastalX, CoastX, SourceX, InlandX, BendX, MiddleX, b, r
  <2>2. \A x : In(x) = x
    BY <1>3 DEF In
  <2> QED
    BY <1>1, <1>2, <2>1, <2>2 DEF b
<1>4. CASE ~choice.west
  <2>1. /\ CoastalX = Width - b - 1 /\ SourceX = 1 /\ InlandX = 2
        /\ BendX = (Width - b - 1 + 1 + r) \div 2
        /\ MiddleX = (Width - b - 1 + 2) \div 2
    BY <1>4 DEF CoastalX, CoastX, SourceX, InlandX, BendX, MiddleX, b, r
  <2>2. \A x : In(x) = Width - 1 - x
    BY <1>4 DEF In
  <2> QED
    BY <1>1, <1>2, <2>1, <2>2 DEF b
<1> QED
  BY <1>3, <1>4

(* Water and land by the columns from the sea.                             *)
LEMMA WaterIs ==
  ASSUME choice \in Choices, NEW t \in Tiles
  PROVE  /\ WaterWidth(Y(t)) \in BaseWater - Amplitude .. BaseWater + Amplitude
         /\ Y(t) \in {OutletY, CoastalY} => WaterWidth(Y(t)) = BaseWater
         /\ In(X(t)) \in 0 .. Width - 1
         /\ IsWater(t) <=> In(X(t)) < WaterWidth(Y(t))
         /\ Apart(X(t), CoastX(WaterWidth(Y(t)))) =
              Apart(In(X(t)), WaterWidth(Y(t)))
<1> DEFINE y == Y(t)
           x == X(t)
           a == Amplitude
           b == BaseWater
           drawn == IF choice.fallback THEN y % (2 * a + 1) ELSE choice.offset[y]
           ww == WaterWidth(y)
<1>1. /\ Width \in Nat /\ Width >= 32 /\ y \in 0 .. Height - 1 /\ x \in 0 .. Width - 1
      /\ y \in Nat
  BY MapSizes, RowAndColumn
<1>2. /\ choice.offset \in [0 .. Height - 1 -> 0 .. 2 * a]
      /\ choice.west \in BOOLEAN
  BY ChoiceIs
<1>3. a \in Nat \ {0} /\ b \in Nat
  BY WaterDrawn
<1>4. ww = IF y \in {OutletY, CoastalY} THEN b ELSE b + drawn - a
  BY Zenon DEF WaterWidth
<1>5. choice.offset[y] \in 0 .. 2 * a
  BY <1>1, <1>2
<1> HIDE DEF a, b, y, x
<1>6. y % (2 * a + 1) \in 0 .. 2 * a
  BY <1>1, <1>3
<1>7. drawn \in 0 .. 2 * a
  BY <1>5, <1>6
<1> HIDE DEF drawn, ww
<1>8. ww \in b - a .. b + a /\ (y \in {OutletY, CoastalY} => ww = b)
  BY <1>3, <1>4, <1>7
<1>9. ww \in Int
  BY <1>3, <1>8
<1>10. In(x) \in 0 .. Width - 1
  BY <1>1, <1>2 DEF In
<1>11. IsWater(t) <=> In(x) < ww
  <2>1. CASE choice.west
    BY <2>1 DEF IsWater, In, x, ww, y
  <2>2. CASE ~choice.west
    <3>1. IsWater(t) <=> x >= Width - ww
      BY <2>2 DEF IsWater, x, ww, y
    <3>2. In(x) = Width - 1 - x
      BY <2>2 DEF In
    <3> QED
      BY <1>1, <1>9, <3>1, <3>2
  <2> QED
    BY <2>1, <2>2
<1>12. Apart(x, CoastX(ww)) = Apart(In(x), ww)
  <2>1. CASE choice.west
    BY <2>1 DEF CoastX, In
  <2>2. CASE ~choice.west
    <3>1. CoastX(ww) = Width - ww - 1 /\ In(x) = Width - 1 - x
      BY <2>2 DEF CoastX, In
    <3> QED
      BY <1>1, <1>9, <3>1 DEF Apart
  <2> QED
    BY <2>1, <2>2
<1> QED
  BY <1>8, <1>10, <1>11, <1>12 DEF y, x, a, b, ww

(* Distances along a row are the same counted from the sea.                *)
LEMMA InApart ==
  ASSUME choice \in Choices, NEW x \in Int, NEW z \in Int
  PROVE  Apart(In(x), In(z)) = Apart(x, z) /\ In(x) \in Int /\ In(In(x)) = x
<1>1. Width \in Int /\ choice.west \in BOOLEAN
  BY MapSizes, ChoiceIs
<1>2. CASE choice.west
  BY <1>2 DEF In
<1>3. CASE ~choice.west
  <2>1. In(x) = Width - 1 - x /\ In(z) = Width - 1 - z
        /\ In(In(x)) = Width - 1 - In(x)
    BY <1>3 DEF In
  <2> QED
    BY <1>1, <2>1 DEF Apart
<1> QED
  BY <1>2, <1>3

LEMMA NeighborIsOneAway ==
  ASSUME NEW s \in Tiles, NEW t \in Neighbors(s)
  PROVE  Manhattan(s, t) = 1
<1> DEFINE x == X(s)
           y == Y(s)
<1>1. x \in 0 .. Width - 1 /\ y \in 0 .. Height - 1 /\ s = TileAt(x, y)
  BY RowAndColumn
<1>2. Width \in Nat /\ Height \in Nat
  BY MapSizes
<1>3. PICK side \in {"north", "west", "east", "south"} :
        HasSide(s, side) /\ t = OnSide(s, side)
  BY DEF Neighbors
<1> HIDE DEF x, y
<1>4. s = y * Width + x
  BY <1>1 DEF TileAt
<1>5. CASE side = "north"
  <2>1. y - 1 \in 0 .. Height - 1
    BY <1>1, <1>2, <1>3, <1>5 DEF HasSide, y
  <2>2. t = TileAt(x, y - 1)
    <3>1. t = s - Width
      BY <1>3, <1>5 DEF OnSide
    <3> QED
      BY <1>1, <1>2, <1>4, <3>1 DEF TileAt
  <2>3. X(t) = x /\ Y(t) = y - 1
    BY <1>1, <2>1, <2>2, TileIs
  <2> QED
    BY <1>1, <1>2, <2>3 DEF Manhattan, Apart, x, y
<1>6. CASE side = "west"
  <2>1. x - 1 \in 0 .. Width - 1
    BY <1>1, <1>2, <1>3, <1>6 DEF HasSide, x
  <2>2. t = TileAt(x - 1, y)
    <3>1. t = s - 1
      BY <1>3, <1>6 DEF OnSide
    <3> QED
      BY <1>1, <1>2, <1>4, <3>1 DEF TileAt
  <2>3. X(t) = x - 1 /\ Y(t) = y
    BY <1>1, <2>1, <2>2, TileIs
  <2> QED
    BY <1>1, <1>2, <2>3 DEF Manhattan, Apart, x, y
<1>7. CASE side = "east"
  <2>1. x + 1 \in 0 .. Width - 1
    BY <1>1, <1>2, <1>3, <1>7 DEF HasSide, x
  <2>2. t = TileAt(x + 1, y)
    <3>1. t = s + 1
      BY <1>3, <1>7 DEF OnSide
    <3> QED
      BY <1>1, <1>2, <1>4, <3>1 DEF TileAt
  <2>3. X(t) = x + 1 /\ Y(t) = y
    BY <1>1, <2>1, <2>2, TileIs
  <2> QED
    BY <1>1, <1>2, <2>3 DEF Manhattan, Apart, x, y
<1>8. CASE side = "south"
  <2>1. y + 1 \in 0 .. Height - 1
    BY <1>1, <1>2, <1>3, <1>8 DEF HasSide, y
  <2>2. t = TileAt(x, y + 1)
    <3>1. t = s + Width
      BY <1>3, <1>8 DEF OnSide
    <3> QED
      BY <1>1, <1>2, <1>4, <3>1 DEF TileAt
  <2>3. X(t) = x /\ Y(t) = y + 1
    BY <1>1, <2>1, <2>2, TileIs
  <2> QED
    BY <1>1, <1>2, <2>3 DEF Manhattan, Apart, x, y
<1> QED
  BY <1>3, <1>5, <1>6, <1>7, <1>8

LEMMA ManhattanIs ==
  ASSUME NEW s \in Tiles, NEW t \in Tiles
  PROVE  /\ Manhattan(s, t) \in Nat
         /\ t \in Neighbors(s) <=> Manhattan(s, t) = 1
         /\ choice \in Choices =>
              Manhattan(s, t) = Apart(In(X(s)), In(X(t))) + Apart(Y(s), Y(t))
<1>1. /\ X(s) \in Int /\ Y(s) \in Int /\ X(t) \in Int /\ Y(t) \in Int
  <2>1. /\ X(s) \in 0 .. Width - 1 /\ Y(s) \in 0 .. Height - 1
        /\ X(t) \in 0 .. Width - 1 /\ Y(t) \in 0 .. Height - 1
    BY RowAndColumn
  <2> QED
    BY <2>1, MapSizes
<1>2. Manhattan(s, t) \in Nat
  BY <1>1 DEF Manhattan, Apart
<1>3. t \in Neighbors(s) <=> Manhattan(s, t) = 1
  BY OneStepAway, NeighborIsOneAway
<1>4. choice \in Choices => Apart(In(X(s)), In(X(t))) = Apart(X(s), X(t))
  BY <1>1, InApart
<1> QED
  BY <1>2, <1>3, <1>4 DEF Manhattan

(* Where the numbers from a to b lie, along a row and down a column.       *)
LEMMA TowardsIn ==
  ASSUME choice \in Choices, NEW a \in Int, NEW b \in Int, In(a) <= In(b)
  PROVE  /\ Towards(a, b) \in Seq(Int) /\ Len(Towards(a, b)) = In(b) - In(a)
         /\ \A i \in 1 .. In(b) - In(a) : In(Towards(a, b)[i]) = In(a) + i
<1> DEFINE n == Apart(a, b)
           at(i) == IF a <= b THEN a + i ELSE a - i
<1>1. n \in Nat
  BY DEF Apart
<1>2. Towards(a, b) = [i \in 1 .. n |-> at(i)]
  BY DEF Towards
<1>3. Len(Towards(a, b)) = n
  BY <1>1, <1>2
<1>4. Width \in Int /\ choice.west \in BOOLEAN
  BY MapSizes, ChoiceIs
<1>5. n = In(b) - In(a)
  <2>1. In(a) \in Int /\ In(b) \in Int /\ Apart(In(a), In(b)) = n
    BY InApart
  <2> QED
    BY <2>1 DEF Apart
<1>6. ASSUME NEW i \in 1 .. n PROVE In(at(i)) = In(a) + i
  <2>0. i \in Int /\ i >= 1 /\ n >= 1
    BY <1>1
  <2>1. CASE choice.west
    <3>1. In(a) = a /\ In(b) = b /\ In(at(i)) = at(i)
      BY <2>1 DEF In
    <3> QED
      BY <3>1
  <2>2. CASE ~choice.west
    <3>1. In(a) = Width - 1 - a /\ In(b) = Width - 1 - b
          /\ In(at(i)) = Width - 1 - at(i)
      BY <2>2 DEF In
    <3>2. b <= a
      BY <1>4, <3>1
    <3>3. a # b
      BY <2>0 DEF Apart
    <3>4. at(i) = a - i
      BY <3>2, <3>3
    <3> QED
      BY <1>4, <2>0, <3>1, <3>4
  <2> QED
    BY <2>1, <2>2
<1>7. Towards(a, b) \in Seq(Int)
  BY TowardsIs
<1> HIDE DEF n
<1>8. \A i \in 1 .. n : Towards(a, b)[i] = at(i)
  BY <1>2
<1>9. \A i \in 1 .. n : In(Towards(a, b)[i]) = In(a) + i
  BY <1>6, <1>8
<1> QED
  BY <1>3, <1>5, <1>7, <1>9

LEMMA TowardsDown ==
  ASSUME NEW a \in Int, NEW b \in Int, a <= b
  PROVE  /\ Towards(a, b) \in Seq(Int) /\ Len(Towards(a, b)) = b - a
         /\ \A i \in 1 .. b - a : Towards(a, b)[i] = a + i
<1>1. Apart(a, b) = b - a
  BY DEF Apart
<1>2. Towards(a, b) = [i \in 1 .. b - a |-> a + i]
  BY <1>1 DEF Towards
<1> QED
  BY <1>2, TowardsIs

LEMMA Joined ==
  ASSUME NEW S, NEW p \in Seq(S), NEW t \in Seq(S)
  PROVE  /\ p \o t \in Seq(S) /\ Len(p \o t) = Len(p) + Len(t)
         /\ Len(p) \in Nat /\ Len(t) \in Nat
         /\ \A i \in 1 .. Len(p) : (p \o t)[i] = p[i]
         /\ \A i \in 1 .. Len(t) : (p \o t)[Len(p) + i] = t[i]
<1>1. /\ p \o t \in Seq(S) /\ Len(p \o t) = Len(p) + Len(t)
      /\ Len(p) \in Nat /\ Len(t) \in Nat
  OBVIOUS
<1>2. \A i \in 1 .. Len(p) : (p \o t)[i] = p[i]
  OBVIOUS
<1>3. ASSUME NEW i \in 1 .. Len(t) PROVE (p \o t)[Len(p) + i] = t[i]
  <2>1. Len(p) + i \in 1 .. Len(p) + Len(t) /\ ~(Len(p) + i <= Len(p))
        /\ (Len(p) + i) - Len(p) = i
    BY <1>1
  <2> QED
    BY <1>1, <2>1
<1> QED
  BY <1>1, <1>2, <1>3

IsJoined(c, p, t) ==
  /\ Len(c) = Len(p) + Len(t) /\ Len(t) \in Nat
  /\ \A i \in 1 .. Len(p) : c[i] = p[i]
  /\ \A i \in 1 .. Len(t) : c[Len(p) + i] = t[i]

LEMMA JoinedIs ==
  ASSUME NEW S, NEW p \in Seq(S), NEW t \in Seq(S)
  PROVE  p \o t \in Seq(S) /\ IsJoined(p \o t, p, t)
<1>1. /\ p \o t \in Seq(S) /\ Len(p \o t) = Len(p) + Len(t) /\ Len(t) \in Nat
  BY Joined
<1>2. \A i \in 1 .. Len(p) : (p \o t)[i] = p[i]
  BY Joined
<1>3. \A i \in 1 .. Len(t) : (p \o t)[Len(p) + i] = t[i]
  BY Joined
<1> QED
  BY <1>1, <1>2, <1>3, Zenon DEF IsJoined

LEMMA FourParts ==
  ASSUME NEW S, NEW a \in S, NEW s \in Seq(S), NEW t \in Seq(S), NEW u \in Seq(S),
         NEW c, c = <<a>> \o s \o t \o u
  PROVE  /\ c \in Seq(S) /\ Len(c) = 1 + Len(s) + Len(t) + Len(u)
         /\ c[1] = a
         /\ \A i \in 1 .. Len(s) : c[1 + i] = s[i]
         /\ \A i \in 1 .. Len(t) : c[1 + Len(s) + i] = t[i]
         /\ \A i \in 1 .. Len(u) : c[1 + Len(s) + Len(t) + i] = u[i]
<1> DEFINE p == <<a>> \o s
           q == p \o t
<1>0. <<a>> \in Seq(S) /\ Len(<<a>>) = 1 /\ <<a>>[1] = a
  OBVIOUS
<1>1. /\ p \in Seq(S) /\ Len(p) = 1 + Len(s) /\ Len(s) \in Nat
      /\ p[1] = a /\ \A i \in 1 .. Len(s) : p[1 + i] = s[i]
  BY <1>0, Joined
<1> HIDE DEF p
<1>2. /\ q \in Seq(S) /\ Len(q) = Len(p) + Len(t) /\ Len(t) \in Nat
      /\ \A i \in 1 .. Len(p) : q[i] = p[i]
      /\ \A i \in 1 .. Len(t) : q[Len(p) + i] = t[i]
  <2>1. q = p \o t /\ p \in Seq(S)
    BY <1>1
  <2> HIDE DEF q
  <2>2. q \in Seq(S) /\ IsJoined(q, p, t)
    BY <2>1, JoinedIs
  <2> QED
    BY <2>2, Zenon DEF IsJoined
<1>3. c = q \o u
  BY DEF p
<1> HIDE DEF q
<1>4. /\ c \in Seq(S) /\ Len(c) = Len(q) + Len(u) /\ Len(u) \in Nat
      /\ \A i \in 1 .. Len(q) : c[i] = q[i]
      /\ \A i \in 1 .. Len(u) : c[Len(q) + i] = u[i]
  <2>1. q \in Seq(S)
    BY <1>2
  <2>2. c \in Seq(S) /\ IsJoined(c, q, u)
    BY <1>3, <2>1, JoinedIs
  <2> QED
    BY <2>2, Zenon DEF IsJoined
<1>5. c[1] = a
  <2>1. 1 \in 1 .. Len(p) /\ 1 \in 1 .. Len(q)
    BY <1>1, <1>2
  <2> QED
    BY <1>1, <1>2, <1>4, <2>1
<1>6. ASSUME NEW i \in 1 .. Len(s) PROVE c[1 + i] = s[i]
  <2>1. 1 + i \in 1 .. Len(p) /\ 1 + i \in 1 .. Len(q)
    BY <1>1, <1>2
  <2> QED
    BY <1>1, <1>2, <1>4, <2>1
<1>7. ASSUME NEW i \in 1 .. Len(t) PROVE c[1 + Len(s) + i] = t[i]
  <2>1. Len(p) + i \in 1 .. Len(q) /\ Len(p) + i = 1 + Len(s) + i
    BY <1>1, <1>2
  <2> QED
    BY <1>1, <1>2, <1>4, <2>1
<1>8. ASSUME NEW i \in 1 .. Len(u) PROVE c[1 + Len(s) + Len(t) + i] = u[i]
  <2>1. Len(q) + i = 1 + Len(s) + Len(t) + i
    BY <1>1, <1>2
  <2> QED
    BY <1>4, <2>1
<1>9. Len(c) = 1 + Len(s) + Len(t) + Len(u)
  BY <1>1, <1>2, <1>4
<1> QED
  BY <1>4, <1>5, <1>6, <1>7, <1>8, <1>9

-----------------------------------------------------------------------------
(* The river: along the row of its outlet, down to that of its source, and *)
(* along it.  Along(k) columns from the sea and in row Down(k) is the tile *)
(* k steps from the outlet.                                                *)
FirstLeg == In(BendX) - BaseWater
Drop == SourceY - OutletY
LastLeg == Width - 2 - In(BendX)
Along(k) ==
  IF k <= FirstLeg THEN BaseWater + k
  ELSE IF k <= FirstLeg + Drop THEN BaseWater + FirstLeg
  ELSE BaseWater + k - Drop
Down(k) ==
  IF k <= FirstLeg THEN OutletY
  ELSE IF k <= FirstLeg + Drop THEN OutletY + k - FirstLeg
  ELSE SourceY

LEMMA LegsAre ==
  ASSUME choice \in Choices
  PROVE  /\ FirstLeg \in Nat /\ Drop \in {0, 2, 3} /\ LastLeg \in Nat
         /\ Width <= 2 * FirstLeg + BaseWater + 4
         /\ Width <= 2 * LastLeg + BaseWater + 3
         /\ In(BendX) = BaseWater + FirstLeg
         /\ SourceY = OutletY + Drop
         /\ BaseWater + FirstLeg + LastLeg = Width - 2
         /\ OutletY \in Nat /\ BaseWater \in Nat /\ Width \in Nat
<1> DEFINE i == In(BendX)
           m == In(MiddleX)
           b == BaseWater
           o == OutletY
           s == SourceY
<1>1. i \in Int /\ m \in Int
  <2>1. BendX \in 0 .. Width - 1 /\ MiddleX \in 0 .. Width - 1
    BY ColumnsDrawn
  <2> QED
    BY <2>1, MapSizes, InApart
<1>2. b \in Nat /\ 100 * b <= 30 * Width /\ Width \in Nat /\ Width >= 32
  BY WaterDrawn, MapSizes
<1>3. Width + b - 4 <= 2 * m /\ m <= i /\ 2 * i <= Width + b - 1
  BY ColumnsDrawn
<1>4. o \in Nat /\ s \in {o, o + 2, o + 3}
  BY RowsDrawn
<1> HIDE DEF i, m, b, o, s
<1>5. FirstLeg = i - b /\ Drop = s - o /\ LastLeg = Width - 2 - i
  BY DEF FirstLeg, Drop, LastLeg, i, b, s, o
<1>6. Drop \in {0, 2, 3} /\ s = o + Drop
  BY <1>4, <1>5
<1>7. i - b \in Nat /\ Width <= 2 * (i - b) + b + 4
  BY <1>1, <1>2, <1>3
<1>8. Width - 2 - i \in Nat /\ Width <= 2 * (Width - 2 - i) + b + 3
  BY <1>1, <1>2, <1>3
<1>9. i = b + (i - b) /\ b + (i - b) + (Width - 2 - i) = Width - 2
  BY <1>1, <1>2
<1> QED
  BY <1>2, <1>4, <1>5, <1>6, <1>7, <1>8, <1>9 DEF i, b, o, s

LEMMA InMap ==
  ASSUME choice \in Choices, NEW x \in Int
  PROVE  x \in 0 .. Width - 1 <=> In(x) \in 0 .. Width - 1
BY MapSizes, ChoiceIs DEF In

(* A stretch of the river in one row or in one column. *)
LEMMA AcrossAt ==
  ASSUME choice \in Choices, NEW a \in Int, NEW b \in Int, In(a) <= In(b),
         In(a) >= 0, In(b) < Width, NEW y \in 0 .. Height - 1, NEW r,
         r = [i \in 1 .. Len(Towards(a, b)) |-> TileAt(Towards(a, b)[i], y)]
  PROVE  /\ r \in Seq(Tiles) /\ Len(r) = In(b) - In(a)
         /\ \A i \in 1 .. Len(r) : In(X(r[i])) = In(a) + i /\ Y(r[i]) = y
<1> DEFINE s == Towards(a, b)
<1>1. /\ s \in Seq(Int) /\ Len(s) = In(b) - In(a)
      /\ \A i \in 1 .. In(b) - In(a) : In(s[i]) = In(a) + i
  BY TowardsIn
<1> HIDE DEF s
<1>2. In(a) \in Int /\ In(b) \in Int /\ Len(s) \in Nat /\ Width \in Nat
  BY <1>1, InApart, MapSizes
<1>3. ASSUME NEW i \in 1 .. Len(s)
      PROVE  /\ TileAt(s[i], y) \in Tiles
             /\ In(X(TileAt(s[i], y))) = In(a) + i /\ Y(TileAt(s[i], y)) = y
  <2>1. s[i] \in Int /\ In(s[i]) = In(a) + i
    BY <1>1
  <2>2. In(s[i]) \in 0 .. Width - 1
    BY <1>1, <1>2, <2>1
  <2>3. s[i] \in 0 .. Width - 1
    BY <2>1, <2>2, InMap
  <2> QED
    BY <2>1, <2>3, TileIs
<1>4. r = [i \in 1 .. Len(s) |-> TileAt(s[i], y)]
  BY DEF s
<1>5. r \in Seq(Tiles) /\ Len(r) = Len(s) /\ \A i \in 1 .. Len(s) : r[i] = TileAt(s[i], y)
  BY <1>2, <1>3, <1>4
<1> QED
  BY <1>1, <1>3, <1>5

InColumn(x, s) == [i \in 1 .. Len(s) |-> TileAt(x, s[i])]

IsColumn(r, a, b, x) ==
  /\ r \in Seq(Tiles) /\ Len(r) = b - a
  /\ \A i \in 1 .. Len(r) : X(r[i]) = x /\ Y(r[i]) = a + i

LEMMA DownAt ==
  ASSUME NEW a \in 0 .. Height - 1, NEW b \in 0 .. Height - 1,
         a <= b, NEW x \in 0 .. Width - 1
  PROVE  IsColumn(InColumn(x, Towards(a, b)), a, b, x)
<1> DEFINE s == Towards(a, b)
           r == InColumn(x, s)
<1>0. a \in Int /\ b \in Int
  OBVIOUS
<1>1. /\ s \in Seq(Int) /\ Len(s) = b - a
      /\ \A i \in 1 .. b - a : s[i] = a + i
  BY <1>0, TowardsDown
<1> HIDE DEF s
<1>2. Len(s) \in Nat /\ Height \in Nat
  BY <1>1, MapSizes
<1>3. ASSUME NEW i \in 1 .. Len(s)
      PROVE  /\ TileAt(x, s[i]) \in Tiles
             /\ X(TileAt(x, s[i])) = x /\ Y(TileAt(x, s[i])) = a + i
  <2>1. s[i] = a + i /\ s[i] \in 0 .. Height - 1
    BY <1>1, <1>2
  <2> QED
    BY <2>1, TileIs
<1>4. r = [i \in 1 .. Len(s) |-> TileAt(x, s[i])]
  BY DEF InColumn
<1>5. r \in Seq(Tiles) /\ Len(r) = Len(s) /\ \A i \in 1 .. Len(s) : r[i] = TileAt(x, s[i])
  BY <1>2, <1>3, <1>4
<1> HIDE DEF r
<1>6. IsColumn(r, a, b, x)
  BY <1>1, <1>3, <1>5 DEF IsColumn
<1> QED
  BY <1>6 DEF r, s

LEMMA CourseAt ==
  ASSUME choice \in Choices
  PROVE  /\ Course \in Seq(Tiles) /\ Len(Course) = 1 + FirstLeg + Drop + LastLeg
         /\ \A i \in 1 .. Len(Course) :
              In(X(Course[i])) = Along(i - 1) /\ Y(Course[i]) = Down(i - 1)
<1> DEFINE a == TileAt(CoastalX, OutletY)
           first == Towards(CoastalX, BendX)
           bend == Towards(OutletY, SourceY)
           last == Towards(BendX, SourceX)
           s == [i \in 1 .. Len(first) |-> TileAt(first[i], OutletY)]
           t == [i \in 1 .. Len(bend) |-> TileAt(BendX, bend[i])]
           u == [i \in 1 .. Len(last) |-> TileAt(last[i], SourceY)]
           c == <<a>> \o s \o t \o u
<1>1. Course = c
  BY Zenon DEF Course
<1>2. /\ CoastalX \in 0 .. Width - 1 /\ SourceX \in 0 .. Width - 1
      /\ BendX \in 0 .. Width - 1
      /\ In(CoastalX) = BaseWater /\ In(SourceX) = Width - 2
  BY ColumnsDrawn
<1>3. /\ FirstLeg \in Nat /\ Drop \in {0, 2, 3} /\ LastLeg \in Nat
      /\ In(BendX) = BaseWater + FirstLeg /\ SourceY = OutletY + Drop
      /\ BaseWater + FirstLeg + LastLeg = Width - 2
      /\ OutletY \in Nat /\ BaseWater \in Nat /\ Width \in Nat
  BY LegsAre
<1>4. OutletY \in 0 .. Height - 1 /\ SourceY \in 0 .. Height - 1 /\ OutletY <= SourceY
  <2>1. 3 * OutletY <= Height + 3 /\ Height >= 16 /\ Height \in Nat
    BY RowsDrawn, MapSizes
  <2> QED
    BY <1>3, <2>1
<1>5. CoastalX \in Int /\ SourceX \in Int /\ BendX \in Int
  BY <1>2, <1>3
<1>6. a \in Tiles /\ X(a) = CoastalX /\ Y(a) = OutletY
  BY <1>2, <1>4, TileIs
<1>7. /\ s \in Seq(Tiles) /\ Len(s) = FirstLeg
      /\ \A i \in 1 .. Len(s) : In(X(s[i])) = BaseWater + i /\ Y(s[i]) = OutletY
  <2> DEFINE r == s
  <2>0. r = [i \in 1 .. Len(first) |-> TileAt(first[i], OutletY)]
    OBVIOUS
  <2> HIDE DEF r
  <2>1. In(CoastalX) <= In(BendX) /\ In(CoastalX) >= 0 /\ In(BendX) < Width
        /\ In(BendX) - In(CoastalX) = FirstLeg
    BY <1>2, <1>3
  <2>2. /\ r \in Seq(Tiles) /\ Len(r) = In(BendX) - In(CoastalX)
        /\ \A i \in 1 .. Len(r) : In(X(r[i])) = In(CoastalX) + i /\ Y(r[i]) = OutletY
    BY <1>4, <1>5, <2>0, <2>1, AcrossAt
  <2> QED
    BY <1>2, <2>1, <2>2 DEF r
<1>8. /\ t \in Seq(Tiles) /\ Len(t) = Drop
      /\ \A i \in 1 .. Len(t) : X(t[i]) = BendX /\ Y(t[i]) = OutletY + i
  <2> DEFINE r == t
  <2>0. r = [i \in 1 .. Len(bend) |-> TileAt(BendX, bend[i])]
    OBVIOUS
  <2> HIDE DEF r
  <2>1. SourceY - OutletY = Drop
    BY <1>3
  <2>2. /\ r \in Seq(Tiles) /\ Len(r) = SourceY - OutletY
        /\ \A i \in 1 .. Len(r) : X(r[i]) = BendX /\ Y(r[i]) = OutletY + i
    <3> DEFINE q == SourceY
               o == OutletY
    <3>1. o \in 0 .. Height - 1 /\ q \in 0 .. Height - 1 /\ o <= q
      BY <1>4
    <3>2. BendX \in 0 .. Width - 1
      BY <1>2
    <3> HIDE DEF q, o
    <3>3. r = InColumn(BendX, Towards(o, q))
      BY <2>0 DEF q, o, InColumn
    <3>4. IsColumn(InColumn(BendX, Towards(o, q)), o, q, BendX)
      BY <3>1, <3>2, DownAt
    <3>5. IsColumn(r, o, q, BendX)
      BY <3>3, <3>4
    <3> QED
      BY <3>5 DEF q, o, IsColumn
  <2> QED
    BY <2>1, <2>2 DEF r
<1>9. /\ u \in Seq(Tiles) /\ Len(u) = LastLeg
      /\ \A i \in 1 .. Len(u) :
           In(X(u[i])) = BaseWater + FirstLeg + i /\ Y(u[i]) = SourceY
  <2> DEFINE r == u
  <2>0. r = [i \in 1 .. Len(last) |-> TileAt(last[i], SourceY)]
    OBVIOUS
  <2> HIDE DEF r
  <2>1. In(BendX) <= In(SourceX) /\ In(BendX) >= 0 /\ In(SourceX) < Width
        /\ In(SourceX) - In(BendX) = LastLeg
    BY <1>2, <1>3
  <2>2. /\ r \in Seq(Tiles) /\ Len(r) = In(SourceX) - In(BendX)
        /\ \A i \in 1 .. Len(r) : In(X(r[i])) = In(BendX) + i /\ Y(r[i]) = SourceY
    BY <1>4, <1>5, <2>0, <2>1, AcrossAt
  <2> QED
    BY <1>3, <2>1, <2>2 DEF r
<1> HIDE DEF a, s, t, u
<1>14. c = <<a>> \o s \o t \o u
  OBVIOUS
<1> HIDE DEF c
<1>10. /\ c \in Seq(Tiles) /\ Len(c) = 1 + Len(s) + Len(t) + Len(u)
       /\ c[1] = a
       /\ \A i \in 1 .. Len(s) : c[1 + i] = s[i]
       /\ \A i \in 1 .. Len(t) : c[1 + Len(s) + i] = t[i]
       /\ \A i \in 1 .. Len(u) : c[1 + Len(s) + Len(t) + i] = u[i]
  <2>1. a \in Tiles /\ s \in Seq(Tiles) /\ t \in Seq(Tiles) /\ u \in Seq(Tiles)
    BY <1>6, <1>7, <1>8, <1>9
  <2> QED
    BY <1>14, <2>1, FourParts
<1> DEFINE f == FirstLeg
           d == Drop
           l == LastLeg
<1>11. f \in Nat /\ d \in Nat /\ l \in Nat
  BY <1>3
<1>12. Len(c) = 1 + f + d + l
  BY <1>7, <1>8, <1>9, <1>10
<1>13. ASSUME NEW i \in 1 .. Len(c)
       PROVE  In(X(c[i])) = Along(i - 1) /\ Y(c[i]) = Down(i - 1)
  <2> HIDE DEF f, d, l
  <2> DEFINE k == i - 1
             b == BaseWater
             o == OutletY
  <2>0. k \in 0 .. f + d + l /\ i = 1 + k /\ b \in Nat /\ o \in Nat
    BY <1>3, <1>11, <1>12
  <2> HIDE DEF k, b, o
  <2>1. CASE k = 0
    <3>1. c[i] = a
      BY <1>10, <2>0, <2>1
    <3>2. In(X(a)) = b /\ Y(a) = o
      BY <1>2, <1>6 DEF b, o
    <3>3. Along(k) = b /\ Down(k) = o
      <4>1. k <= FirstLeg
        BY <1>11, <2>1 DEF f
      <4> QED
        BY <2>0, <2>1, <4>1 DEF Along, Down, b, o
    <3> QED
      BY <3>1, <3>2, <3>3 DEF k
  <2>2. CASE k \in 1 .. f
    <3>1. c[i] = s[k]
      BY <1>7, <1>10, <2>0, <2>2 DEF f
    <3>2. In(X(s[k])) = b + k /\ Y(s[k]) = o
      BY <1>7, <2>2 DEF f, b, o
    <3>3. k <= FirstLeg
      BY <2>2 DEF f
    <3>4. Along(k) = b + k /\ Down(k) = o
      BY <3>3 DEF Along, Down, b, o
    <3> QED
      BY <3>1, <3>2, <3>4 DEF k
  <2>3. CASE k \in f + 1 .. f + d
    <3> DEFINE h == k - f
    <3>0. h \in 1 .. d /\ i = 1 + f + h /\ h = k - f /\ f + (k - f) = k
      BY <1>11, <2>0, <2>3
    <3> HIDE DEF h
    <3>1. c[i] = t[h]
      BY <1>7, <1>8, <1>10, <3>0 DEF f, d
    <3>2. X(t[h]) = BendX /\ Y(t[h]) = o + h
      BY <1>8, <3>0 DEF d, o
    <3>3. ~(k <= f) /\ k <= f + d
      BY <1>11, <2>0, <2>3
    <3>4. Along(k) = b + f /\ Down(k) = o + k - f
      BY <3>3 DEF Along, Down, b, o, f, d
    <3>5. In(BendX) = b + f
      BY <1>3 DEF b, f
    <3>6. o + k - f = o + h
      BY <1>11, <2>0, <3>0
    <3> QED
      BY <3>1, <3>2, <3>4, <3>5, <3>6 DEF k
  <2>4. CASE k \in f + d + 1 .. f + d + l
    <3> DEFINE h == k - f - d
    <3>0. h \in 1 .. l /\ i = 1 + f + d + h /\ b + f + h = b + k - d
      BY <1>11, <2>0, <2>4
    <3> HIDE DEF h
    <3>1. c[i] = u[h]
      BY <1>7, <1>8, <1>9, <1>10, <3>0 DEF f, d, l
    <3>2. In(X(u[h])) = b + f + h /\ Y(u[h]) = SourceY
      BY <1>9, <3>0 DEF l, b, f
    <3>3. ~(k <= f) /\ ~(k <= f + d)
      BY <1>11, <2>0, <2>4
    <3>4. Along(k) = b + k - d /\ Down(k) = SourceY
      BY <3>3 DEF Along, Down, b, f, d
    <3> QED
      BY <3>0, <3>1, <3>2, <3>4 DEF k
  <2>5. k = 0 \/ k \in 1 .. f \/ k \in f + 1 .. f + d \/ k \in f + d + 1 .. f + d + l
    BY <1>11, <2>0
  <2> QED
    BY <2>1, <2>2, <2>3, <2>4, <2>5
<1> QED
  BY <1>1, <1>10, <1>12, <1>13

LEMMA LegsOrdered ==
  ASSUME choice \in Choices,
         NEW i \in 0 .. FirstLeg + Drop + LastLeg,
         NEW j \in 0 .. FirstLeg + Drop + LastLeg, i <= j
  PROVE  /\ Along(i) \in BaseWater .. Width - 2 /\ Along(j) \in BaseWater .. Width - 2
         /\ Down(i) \in OutletY .. SourceY /\ Down(j) \in OutletY .. SourceY
         /\ Along(i) + Down(i) = BaseWater + OutletY + i
         /\ Along(j) + Down(j) = BaseWater + OutletY + j
         /\ Along(i) <= Along(j) /\ Down(i) <= Down(j)
<1> DEFINE f == FirstLeg
           d == Drop
           l == LastLeg
           b == BaseWater
           o == OutletY
           s == SourceY
<1>1. /\ f \in Nat /\ d \in Nat /\ l \in Nat /\ b \in Nat /\ o \in Nat
      /\ s = o + d /\ b + f + l = Width - 2 /\ Width \in Nat
  BY LegsAre
<1>2. i \in 0 .. f + d + l /\ j \in 0 .. f + d + l
  OBVIOUS
<1>3. /\ Along(i) = IF i <= f THEN b + i ELSE IF i <= f + d THEN b + f ELSE b + i - d
      /\ Down(i) = IF i <= f THEN o ELSE IF i <= f + d THEN o + i - f ELSE s
      /\ Along(j) = IF j <= f THEN b + j ELSE IF j <= f + d THEN b + f ELSE b + j - d
      /\ Down(j) = IF j <= f THEN o ELSE IF j <= f + d THEN o + j - f ELSE s
  BY DEF Along, Down
<1> DEFINE ai == Along(i)
           aj == Along(j)
           di == Down(i)
           dj == Down(j)
<1> HIDE DEF f, d, l, b, o, s, ai, aj, di, dj
<1>4. /\ ai = IF i <= f THEN b + i ELSE IF i <= f + d THEN b + f ELSE b + i - d
      /\ di = IF i <= f THEN o ELSE IF i <= f + d THEN o + i - f ELSE s
      /\ aj = IF j <= f THEN b + j ELSE IF j <= f + d THEN b + f ELSE b + j - d
      /\ dj = IF j <= f THEN o ELSE IF j <= f + d THEN o + j - f ELSE s
  BY <1>3 DEF ai, aj, di, dj
<1>5. /\ ai \in b .. Width - 2 /\ aj \in b .. Width - 2
      /\ di \in o .. s /\ dj \in o .. s
      /\ ai + di = b + o + i /\ aj + dj = b + o + j
  BY <1>1, <1>2, <1>4
<1>6. ai <= aj /\ di <= dj
  BY <1>1, <1>2, <1>4
<1> QED
  BY <1>5, <1>6 DEF ai, aj, di, dj, b, o, s

LEMMA CourseSize ==
  ASSUME choice \in Choices
  PROVE  /\ Len(Course) = 1 + (FirstLeg + Drop + LastLeg)
         /\ FirstLeg + Drop + LastLeg \in Nat
<1>1. FirstLeg \in Nat /\ Drop \in {0, 2, 3} /\ LastLeg \in Nat
  BY LegsAre
<1>2. Len(Course) = 1 + FirstLeg + Drop + LastLeg
  BY CourseAt
<1> QED
  BY <1>1, <1>2

LEMMA CourseApart ==
  ASSUME choice \in Choices, NEW i \in 1 .. Len(Course), NEW j \in 1 .. Len(Course),
         i <= j
  PROVE  Manhattan(Course[i], Course[j]) = j - i /\ Manhattan(Course[j], Course[i]) = j - i
<1> DEFINE s == Course[i]
           t == Course[j]
           h == i - 1
           k == j - 1
           n == FirstLeg + Drop + LastLeg
<1>0. n \in Nat /\ Len(Course) = 1 + n
  BY CourseSize
<1>1. h \in 0 .. n /\ k \in 0 .. n /\ h <= k /\ j - i = k - h
  BY <1>0
<1>2. /\ s \in Tiles /\ t \in Tiles
      /\ In(X(s)) = Along(h) /\ Y(s) = Down(h)
      /\ In(X(t)) = Along(k) /\ Y(t) = Down(k)
  BY CourseAt
<1> HIDE DEF s, t, h, k
<1>3. /\ Along(h) \in BaseWater .. Width - 2 /\ Along(k) \in BaseWater .. Width - 2
      /\ Down(h) \in OutletY .. SourceY /\ Down(k) \in OutletY .. SourceY
      /\ Along(h) + Down(h) = BaseWater + OutletY + h
      /\ Along(k) + Down(k) = BaseWater + OutletY + k
      /\ Along(h) <= Along(k) /\ Down(h) <= Down(k)
  BY <1>1, LegsOrdered DEF n
<1> HIDE DEF n
<1>4. BaseWater \in Nat /\ OutletY \in Nat
  BY LegsAre
<1>5. /\ Manhattan(s, t) = Apart(Along(h), Along(k)) + Apart(Down(h), Down(k))
      /\ Manhattan(t, s) = Apart(Along(k), Along(h)) + Apart(Down(k), Down(h))
  BY <1>2, ManhattanIs
<1> DEFINE p == Along(h)
           q == Along(k)
           u == Down(h)
           v == Down(k)
<1> HIDE DEF p, q, u, v
<1>6. p \in Int /\ q \in Int /\ u \in Int /\ v \in Int /\ p <= q /\ u <= v
      /\ q + v - (p + u) = k - h
  BY <1>0, <1>1, <1>3, <1>4 DEF p, q, u, v
<1>7. Apart(p, q) + Apart(u, v) = k - h /\ Apart(q, p) + Apart(v, u) = k - h
  BY <1>6 DEF Apart
<1> QED
  BY <1>1, <1>5, <1>7 DEF p, q, u, v, s, t

(* Its tiles are next to one another exactly where they follow each other. *)
LEMMA CourseIsLine ==
  ASSUME choice \in Choices
  PROVE  Line(TilesOf(Course), Course) /\ Len(Course) >= 21
<1> DEFINE c == Course
           n == Len(c)
           on == TilesOf(c)
<1>1. c \in Seq(Tiles) /\ n \in Nat
  BY CourseAt
<1>2. n >= 21
  <2> DEFINE f == FirstLeg
             d == Drop
             l == LastLeg
             b == BaseWater
  <2>1. /\ n = 1 + (f + d + l) /\ f \in Nat /\ d \in {0, 2, 3} /\ l \in Nat
        /\ b \in Nat /\ b + f + l = Width - 2 /\ Width \in Nat
    BY LegsAre, CourseSize
  <2>2. 100 * b <= 30 * Width /\ Width >= 32
    BY WaterDrawn, MapSizes
  <2> HIDE DEF f, d, l, b, n
  <2> QED
    BY <2>1, <2>2
<1> HIDE DEF c
<1>3. on = {c[i] : i \in 1 .. n}
  BY DEF TilesOf
<1>4. ASSUME NEW i \in 1 .. n, NEW j \in 1 .. n
      PROVE  Manhattan(c[i], c[j]) = Apart(i, j)
  <2>1. CASE i <= j
    <3>1. Manhattan(c[i], c[j]) = j - i
      BY <2>1, CourseApart DEF c
    <3> QED
      BY <1>1, <2>1, <3>1 DEF Apart
  <2>2. CASE ~(i <= j)
    <3>0. j <= i
      BY <1>1, <2>2
    <3>1. Manhattan(c[i], c[j]) = i - j
      BY <3>0, CourseApart DEF c
    <3> QED
      BY <1>1, <2>2, <3>1 DEF Apart
  <2> QED
    BY <2>1, <2>2
<1>5. \A i, j \in 1 .. n : c[i] = c[j] => i = j
  <2> SUFFICES ASSUME NEW i \in 1 .. n, NEW j \in 1 .. n, c[i] = c[j] PROVE i = j
    OBVIOUS
  <2>1. Manhattan(c[i], c[j]) = Apart(i, j) /\ Manhattan(c[i], c[i]) = Apart(i, i)
    BY <1>4
  <2>2. Apart(i, j) = Apart(i, i)
    BY <2>1
  <2> QED
    BY <1>1, <2>2 DEF Apart
<1>6. \A i, j \in 1 .. n : c[j] \in Neighbors(c[i]) <=> j = i + 1 \/ i = j + 1
  <2> SUFFICES ASSUME NEW i \in 1 .. n, NEW j \in 1 .. n
               PROVE  c[j] \in Neighbors(c[i]) <=> j = i + 1 \/ i = j + 1
    OBVIOUS
  <2>1. c[i] \in Tiles /\ c[j] \in Tiles
    BY <1>1
  <2>2. c[j] \in Neighbors(c[i]) <=> Apart(i, j) = 1
    BY <1>4, <2>1, ManhattanIs
  <2>3. Apart(i, j) = 1 <=> j = i + 1 \/ i = j + 1
    BY <1>1 DEF Apart
  <2> QED
    BY <2>2, <2>3
<1>7. \A t \in on : \E i \in 1 .. n : c[i] = t
  BY <1>3
<1>8. c \in Seq(on)
  BY <1>1, <1>3
<1>9. n = Cardinality(on)
  <2> DEFINE g == [i \in 1 .. n |-> c[i]]
  <2>0. n \in Nat
    BY <1>1
  <2> HIDE DEF on, n
  <2>1. g \in [1 .. n -> on]
    BY <1>3
  <2>2. \A i, j \in 1 .. n : g[i] = g[j] => i = j
    BY <1>5
  <2>3. \A e \in on : \E i \in 1 .. n : g[i] = e
    BY <1>7
  <2> HIDE DEF g
  <2>4. g \in Bijection(1 .. n, on)
    BY <2>1, <2>2, <2>3 DEF Bijection, Injection, Surjection, IsInjective
  <2>5. ExistsBijection(1 .. n, on)
    BY <2>4 DEF ExistsBijection
  <2>6. IsFiniteSet(1 .. n) /\ Cardinality(1 .. n) = n
    BY <2>0, FS_Interval
  <2>7. Cardinality(1 .. n) = Cardinality(on)
    BY <2>5, <2>6, FS_Bijection
  <2> QED
    BY <2>6, <2>7
<1> QED
  BY <1>2, <1>5, <1>6, <1>7, <1>8, <1>9 DEF Line, c

-----------------------------------------------------------------------------
(* What is drawn stays drawn.                                              *)
LEMMA DrawsKept ==
  ASSUME choice' = choice
  PROVE  /\ Course' = Course /\ CoastalTile' = CoastalTile /\ InlandTile' = InlandTile
         /\ OutletY' = OutletY /\ CoastalY' = CoastalY
         /\ CoastalX' = CoastalX /\ InlandX' = InlandX /\ MiddleX' = MiddleX
         /\ \A t : IsWater(t)' <=> IsWater(t)
         /\ \A t : Apart(X(t), CoastX(WaterWidth(Y(t))))' =
                   Apart(X(t), CoastX(WaterWidth(Y(t))))
<1>1. OutletY' = OutletY
  BY DEF OutletY
<1>2. CoastalY' = CoastalY
  BY <1>1 DEF CoastalY
<1>3. SourceY' = SourceY
  BY <1>1, <1>2 DEF SourceY
<1>4. InlandX' = InlandX /\ SourceX' = SourceX
  BY DEF InlandX, SourceX
<1>5. CoastalX' = CoastalX
  BY DEF CoastalX, CoastX
<1>6. CoastalTile' = CoastalTile
  BY <1>2, <1>5 DEF CoastalTile
<1>7. InlandTile' = InlandTile
  BY <1>4 DEF InlandTile
<1>8. BendX' = BendX
  BY <1>4, <1>5 DEF BendX
<1>9. MiddleX' = MiddleX
  BY <1>4, <1>5 DEF MiddleX
<1>10. \A y : WaterWidth(y)' = WaterWidth(y)
  BY <1>1, <1>2 DEF WaterWidth
<1>11. \A t : IsWater(t)' <=> IsWater(t)
  BY <1>10 DEF IsWater
<1>12. \A t : Apart(X(t), CoastX(WaterWidth(Y(t))))' =
              Apart(X(t), CoastX(WaterWidth(Y(t))))
  BY <1>10 DEF CoastX
<1>13. Course' = Course
  BY <1>1, <1>3, <1>4, <1>5, <1>8 DEF Course
<1> QED
  BY <1>1, <1>2, <1>4, <1>5, <1>6, <1>7, <1>9, <1>11, <1>12, <1>13

(* The bed of the river is land, and high enough to be lowered.            *)
LEMMA BedIsLand ==
  ASSUME choice \in Choices, NEW i \in 1 .. Len(Course)
  PROVE  /\ Course[i] \in Tiles /\ ~IsWater(Course[i])
         /\ i - 1 <= 100 * Apart(X(Course[i]), CoastX(WaterWidth(Y(Course[i]))))
<1> DEFINE t == Course[i]
           k == i - 1
           ww == WaterWidth(Y(t))
           f == FirstLeg
           d == Drop
           l == LastLeg
           b == BaseWater
           a == Amplitude
           x == In(X(t))
<1>1. t \in Tiles /\ x = Along(k) /\ Y(t) = Down(k)
  BY CourseAt
<1>2. k \in 0 .. f + d + l
  BY CourseSize
<1>3. /\ f \in Nat /\ d \in {0, 2, 3} /\ l \in Nat /\ b \in Nat /\ Width \in Nat
      /\ Width <= 2 * f + b + 4
  BY LegsAre
<1>4. 100 * b <= 30 * Width /\ 32 * a <= Width /\ a \in Nat /\ Width >= 32
  BY WaterDrawn, MapSizes
<1>5. /\ Along(k) = IF k <= f THEN b + k ELSE IF k <= f + d THEN b + f ELSE b + k - d
      /\ k <= f => Down(k) = OutletY
  BY DEF Along, Down
<1> HIDE DEF t
<1>6. /\ ww \in b - a .. b + a
      /\ Y(t) = OutletY => ww = b
      /\ IsWater(t) <=> x < ww
      /\ Apart(X(t), CoastX(ww)) = Apart(x, ww)
  BY <1>1, WaterIs
<1> DEFINE p == Apart(X(t), CoastX(ww))
<1> HIDE DEF f, d, l, b, a, x, k, ww, p
<1>7. x = IF k <= f THEN b + k ELSE IF k <= f + d THEN b + f ELSE b + k - d
  BY <1>1, <1>5
<1>8. k <= f => ww = b
  BY <1>1, <1>5, <1>6
<1>9. x >= ww /\ k <= 100 * (x - ww) /\ x \in Int /\ ww \in Int
  <2>0. k \in Int /\ k >= 0 /\ k <= f + d + l
    BY <1>2, <1>3
  <2>1. ww \in Int /\ ww <= b + a /\ ww >= b - a
    BY <1>3, <1>4, <1>6
  <2>2. CASE k <= f
    BY <1>3, <1>7, <1>8, <2>0, <2>1, <2>2
  <2>3. CASE ~(k <= f) /\ k <= f + d
    <3>1. x = b + f
      BY <1>7, <2>3
    <3> QED
      BY <1>3, <1>4, <2>0, <2>1, <2>3, <3>1
  <2>4. CASE ~(k <= f) /\ ~(k <= f + d)
    <3>1. x = b + k - d
      BY <1>7, <2>4
    <3> QED
      BY <1>3, <1>4, <2>0, <2>1, <2>4, <3>1
  <2> QED
    BY <2>2, <2>3, <2>4
<1>10. ~IsWater(t)
  BY <1>6, <1>9
<1>11. p = x - ww
  BY <1>6, <1>9 DEF Apart, p
<1>12. k <= 100 * p
  BY <1>9, <1>11
<1> QED
  BY <1>1, <1>10, <1>12 DEF k, p, ww, t

-----------------------------------------------------------------------------
(* What each phase makes of a candidate's world.  The coast tells water    *)
(* from land, for good.                                                    *)
Charted(w) ==
  /\ w \in Worlds
  /\ \A t \in Tiles : w.terrain[t] \in Terrains /\ (w.terrain[t] = "WATER" <=> IsWater(t))
  /\ \A t \in Tiles : IF IsWater(t) THEN w.elevation[t] = 0 ELSE w.elevation[t] > 0
  /\ w.land_tile_count = Cardinality({t \in Tiles : ~IsWater(t)})
  /\ w.unknown = {} /\ w.soaked = {}
Uncarved(w) ==
  \A t \in Tiles : ~IsWater(t) =>
    w.elevation[t] >= 100 + 100 * Apart(X(t), CoastX(WaterWidth(Y(t))))
Unsettled(w) == \A t \in Tiles : w.terrain[t] # "SETTLEMENT" /\ w.settlement_id[t] = 0

(* The river lies in its bed, lowest at the outlet.                        *)
Carved(w) ==
  /\ w.river = TilesOf(Course) /\ w.outlets = {Course[1]}
  /\ w.river_tile_count = Len(Course)
  /\ \A i \in 1 .. Len(Course) : w.elevation[Course[i]] = RiverElevation(i)
  /\ w.terrain[Course[Len(Course)]] = "HILLS"

(* Wetlands lie by the water.                                              *)
Damp(w) == \A t \in Tiles : ~StrayWetland(w, t)

(* The tiles the last attempt writes itself.                               *)
WetTile == TileAt(MiddleX, CoastalY)
ForestTile == TileAt(InlandX + (IF choice.west THEN -1 ELSE 1), InlandY)
GrassTile == TileAt(InlandX + 2 * (IF choice.west THEN -1 ELSE 1), InlandY)
Supplied(w) ==
  choice.fallback => /\ w.terrain[WetTile] = "WETLANDS"
                     /\ w.terrain[ForestTile] = "FOREST"
                     /\ w.terrain[GrassTile] = "GRASSLAND"

LEMMA CoastCharts ==
  ASSUME choice \in Choices, world = Blank, world \in Worlds, Coast
  PROVE  Charted(world') /\ Uncarved(world') /\ Unsettled(world')
<1> DEFINE terrain == [t \in Tiles |-> IF IsWater(t) THEN "WATER" ELSE "GRASSLAND"]
           land == {t \in Tiles : ~IsWater(t)}
           far(t) == Apart(X(t), CoastX(WaterWidth(Y(t))))
           high(t) == 100 + 100 * far(t)
                        + Addition(1, t) + Addition(2, t) + Addition(3, t)
           e == [t \in Tiles |-> IF IsWater(t) THEN 0 ELSE high(t)]
           count == Cardinality(land)
<1>1. choice \in ChoiceType
  BY ChoiceIs
<1>2. ASSUME NEW t \in Tiles
      PROVE  high(t) \in Int /\ high(t) > 0 /\ high(t) >= 100 + 100 * far(t)
  <2>1. X(t) \in Int /\ CoastX(WaterWidth(Y(t))) \in Int
    BY <1>1, CoastTypes, RowAndColumn, MapIs
  <2>2. far(t) \in Nat
    BY <2>1 DEF Apart
  <2>3. Addition(1, t) \in Nat /\ Addition(2, t) \in Nat /\ Addition(3, t) \in Nat
    BY <1>1, AdditionIs
  <2> HIDE DEF far
  <2> QED
    BY <2>2, <2>3
<1>3. e \in [Tiles -> Int]
  <2> HIDE DEF high
  <2> QED
    BY <1>2
<1>4. terrain \in [Tiles -> Terrains] /\ terrain \in [Tiles -> Terrains \cup {"none"}]
  BY DEF Terrains, Dry
<1>5. count \in Nat
  BY CountIs
<1>6. world' = [world EXCEPT !.terrain = terrain, !.elevation = e,
                             !.land_tile_count = count]
  BY DEF Coast
<1>7. world.unknown = {} /\ world.soaked = {} /\ \A t \in Tiles : world.settlement_id[t] = 0
  BY DEF Blank
<1>8. /\ \A t \in Tiles : terrain[t] \in Terrains /\ (terrain[t] = "WATER" <=> IsWater(t))
      /\ \A t \in Tiles : terrain[t] # "SETTLEMENT"
  BY <1>4
<1>9. \A t \in Tiles : IF IsWater(t) THEN e[t] = 0
                       ELSE e[t] > 0 /\ e[t] >= 100 + 100 * far(t)
  <2> HIDE DEF high, far
  <2> QED
    BY <1>2
<1> HIDE DEF terrain, e, count
<1>10. /\ world' \in Worlds /\ world'.terrain = terrain /\ world'.elevation = e
       /\ world'.land_tile_count = count /\ world'.unknown = world.unknown
       /\ world'.soaked = world.soaked /\ world'.settlement_id = world.settlement_id
  BY <1>3, <1>4, <1>5, <1>6 DEF Worlds
<1> DEFINE v == world'
<1> HIDE DEF v
<1>11. /\ v \in Worlds /\ v.terrain = terrain /\ v.elevation = e
       /\ v.land_tile_count = count /\ v.unknown = {}
       /\ v.soaked = {} /\ \A t \in Tiles : v.settlement_id[t] = 0
  BY <1>7, <1>10 DEF v
<1>12. Charted(v)
  <2>1. v.land_tile_count = Cardinality({t \in Tiles : ~IsWater(t)})
    BY <1>11 DEF count
  <2>2. \A t \in Tiles : v.terrain[t] \in Terrains /\ (v.terrain[t] = "WATER" <=> IsWater(t))
    BY <1>8, <1>11
  <2>3. \A t \in Tiles : IF IsWater(t) THEN v.elevation[t] = 0 ELSE v.elevation[t] > 0
    BY <1>9, <1>11
  <2> QED
    BY <1>11, <2>1, <2>2, <2>3, Zenon DEF Charted
<1>13. Uncarved(v)
  BY <1>9, <1>11 DEF Uncarved
<1>14. Unsettled(v)
  BY <1>8, <1>11 DEF Unsettled
<1> QED
  BY <1>12, <1>13, <1>14 DEF v

(* The river finds its bed, whatever was drawn.                            *)
LEMMA BedIsHigh ==
  ASSUME choice \in Choices, Charted(world), Uncarved(world),
         NEW i \in 1 .. Len(Course)
  PROVE  Carves(Course[i], RiverElevation(i))
<1> DEFINE t == Course[i]
           p == Apart(X(t), CoastX(WaterWidth(Y(t))))
<1>1. t \in Tiles /\ ~IsWater(t) /\ i - 1 <= 100 * p
  BY BedIsLand
<1>2. world.terrain[t] # "WATER"
  BY <1>1 DEF Charted
<1>3. world.elevation[t] >= 100 + 100 * p
  BY <1>1 DEF Uncarved
<1>4. world.elevation \in [Tiles -> Int]
  BY DEF Charted, Worlds
<1>5. CoastX(WaterWidth(Y(t))) \in Int /\ X(t) \in Int
  BY <1>1, ChoiceIs, CoastTypes, RowAndColumn, MapIs
<1>6. p \in Int
  BY <1>5 DEF Apart
<1> DEFINE e == world.elevation[t]
<1>7. e \in Int /\ e >= 100 + 100 * p
  BY <1>1, <1>3, <1>4
<1> HIDE DEF e, p, t
<1>8. RiverElevation(i) <= e
  BY <1>1, <1>6, <1>7, CourseSize DEF RiverElevation
<1> QED
  BY <1>2, <1>8 DEF Carves, e, t

LEMMA RiverCarves ==
  ASSUME choice \in Choices, Charted(world), Uncarved(world), Unsettled(world),
         ConstructRiver
  PROVE  /\ phase' = "biome" /\ UNCHANGED <<report, choice, raised>>
         /\ Charted(world') /\ Carved(world') /\ Unsettled(world')
<1> DEFINE course == Course
           on == {course[i] : i \in 1 .. Len(course)}
           rank == [t \in on |-> CHOOSE i \in 1 .. Len(course) : course[i] = t]
           e == [t \in Tiles |-> IF t \in on THEN RiverElevation(rank[t])
                                 ELSE world.elevation[t]]
           source == course[Len(course)]
           terrain == [t \in Tiles |->
                IF t = source THEN "HILLS"
                ELSE IF t \in on THEN "GRASSLAND" ELSE world.terrain[t]]
           outlets == {course[1]}
           count == Len(course)
<1>1. \A i \in 1 .. Len(course) : Carves(course[i], RiverElevation(i))
  BY BedIsHigh
<1>2. /\ UNCHANGED <<report, choice, raised>> /\ phase' = "biome"
      /\ world' = [world EXCEPT !.terrain = terrain, !.elevation = e,
                                !.river = on, !.outlets = outlets,
                                !.river_tile_count = count]
  BY <1>1 DEF ConstructRiver, course
<1>3. /\ course \in Seq(Tiles) /\ count \in Nat /\ count >= 21
      /\ \A i, j \in 1 .. count : course[i] = course[j] => i = j
  BY CourseIsLine, CourseAt DEF Line
<1>4. \A i \in 1 .. count : course[i] \in Tiles /\ ~IsWater(course[i])
  BY BedIsLand
<1>5. on = TilesOf(Course)
  BY DEF TilesOf
<1> HIDE DEF course
<1>6. on \subseteq Tiles /\ outlets \subseteq Tiles /\ source \in on /\ source = course[count]
      /\ \A t \in on : ~IsWater(t)
  BY <1>3, <1>4
<1>7. ASSUME NEW i \in 1 .. count PROVE rank[course[i]] = i
  <2>1. course[i] \in on
    OBVIOUS
  <2>2. rank[course[i]] \in 1 .. count /\ course[rank[course[i]]] = course[i]
    BY <2>1
  <2> HIDE DEF rank
  <2> QED
    BY <1>3, <2>2
<1>8. ASSUME NEW i \in 1 .. count PROVE e[course[i]] = RiverElevation(i)
  BY <1>4, <1>7, <1>8
<1>9. ASSUME NEW i \in 1 .. count
      PROVE  RiverElevation(i) \in Int /\ RiverElevation(i) > 0
  BY <1>3 DEF RiverElevation
<1>10. ASSUME NEW t \in on PROVE e[t] \in Int /\ e[t] > 0
  <2>1. PICK i \in 1 .. count : t = course[i]
    BY <1>10
  <2>2. e[t] = RiverElevation(i)
    BY <1>8, <2>1
  <2> HIDE DEF e
  <2> QED
    BY <1>9, <2>2
<1>11. ASSUME NEW t \in Tiles, t \notin on PROVE e[t] = world.elevation[t]
  BY <1>11
<1>12. e \in [Tiles -> Int]
  <2>1. world.elevation \in [Tiles -> Int]
    BY DEF Charted, Worlds
  <2>2. \A t \in Tiles : e[t] \in Int
    <3> HIDE DEF e
    <3> QED
      BY <1>10, <1>11, <2>1
  <2>3. e = [t \in Tiles |-> e[t]]
    OBVIOUS
  <2> HIDE DEF e
  <2> QED
    BY <2>2, <2>3
<1>13. ASSUME NEW t \in Tiles
       PROVE  /\ terrain[t] \in Terrains /\ (terrain[t] = "WATER" <=> IsWater(t))
              /\ terrain[t] # "SETTLEMENT" /\ world.settlement_id[t] = 0
  <2>1. /\ world.terrain[t] \in Terrains /\ (world.terrain[t] = "WATER" <=> IsWater(t))
        /\ world.terrain[t] # "SETTLEMENT" /\ world.settlement_id[t] = 0
    BY DEF Charted, Unsettled
  <2>2. terrain[t] = IF t = source THEN "HILLS"
                     ELSE IF t \in on THEN "GRASSLAND" ELSE world.terrain[t]
    OBVIOUS
  <2> HIDE DEF terrain, on, source
  <2> QED
    BY <1>6, <2>1, <2>2 DEF Terrains, Dry
<1>14. terrain \in [Tiles -> Terrains \cup {"none"}] /\ terrain[course[count]] = "HILLS"
  <2>1. terrain = [t \in Tiles |-> terrain[t]]
    OBVIOUS
  <2>2. terrain[course[count]] = "HILLS"
    BY <1>6
  <2> HIDE DEF terrain
  <2> QED
    BY <1>13, <2>1, <2>2
<1> DEFINE v == world'
<1>15. /\ v \in Worlds /\ v.terrain = terrain /\ v.elevation = e /\ v.river = on
       /\ v.outlets = outlets /\ v.river_tile_count = count
       /\ v.settlement_id = world.settlement_id /\ v.unknown = world.unknown
       /\ v.soaked = world.soaked /\ v.land_tile_count = world.land_tile_count
  <2>0. world \in Worlds
    BY DEF Charted
  <2> HIDE DEF terrain, e, on, outlets, count, source
  <2> QED
    BY <1>2, <1>3, <1>6, <1>12, <1>14, <2>0 DEF Worlds
<1>16. ASSUME NEW t \in Tiles
       PROVE  IF IsWater(t) THEN e[t] = 0 ELSE e[t] > 0
  <2>1. IF IsWater(t) THEN world.elevation[t] = 0 ELSE world.elevation[t] > 0
    BY DEF Charted
  <2> HIDE DEF e, on
  <2>2. CASE t \in on
    BY <1>6, <1>10, <2>2
  <2>3. CASE t \notin on
    BY <1>11, <2>1, <2>3
  <2> QED
    BY <2>2, <2>3
<1>17. /\ world.land_tile_count = Cardinality({t \in Tiles : ~IsWater(t)})
       /\ world.unknown = {} /\ world.soaked = {}
  BY DEF Charted
<1>18. \A i \in 1 .. count : e[course[i]] = RiverElevation(i)
  BY <1>8
<1> HIDE DEF v, terrain, e, on, source
<1>19. Charted(v)
  BY <1>13, <1>15, <1>16, <1>17, Zenon DEF Charted
<1>20. Unsettled(v)
  BY <1>13, <1>15 DEF Unsettled
<1>21. Carved(v)
  BY <1>5, <1>14, <1>15, <1>18 DEF Carved, course
<1> QED
  BY <1>2, <1>19, <1>20, <1>21 DEF v

-----------------------------------------------------------------------------
(* The tiles the phases name.                                              *)
SourceTile == Course[Len(Course)]

IsAt(t, i, y) == t \in Tiles /\ In(X(t)) = i /\ Y(t) = y

LEMMA RowsFit ==
  ASSUME choice \in Choices
  PROVE  /\ OutletY \in 0 .. Height - 1 /\ CoastalY \in 0 .. Height - 1
         /\ InlandY \in 0 .. Height - 1 /\ SourceY \in 0 .. Height - 1
         /\ CoastalY = OutletY + 1 /\ OutletY >= 2
         /\ SourceY < InlandY /\ CoastalY < InlandY
         /\ SourceY \in {OutletY, OutletY + 2, OutletY + 3}
<1> DEFINE o == OutletY
           s == SourceY
<1>1. /\ o \in Nat /\ o >= 2 /\ 3 * o <= Height + 3
      /\ CoastalY = o + 1 /\ InlandY = Height - 3 /\ s \in {o, o + 2, o + 3}
  BY RowsDrawn
<1>2. Height \in Nat /\ Height >= 16
  BY MapSizes
<1> HIDE DEF o, s
<1>3. /\ o \in 0 .. Height - 1 /\ CoastalY \in 0 .. Height - 1
      /\ InlandY \in 0 .. Height - 1 /\ s \in 0 .. Height - 1
      /\ s < InlandY /\ CoastalY < InlandY
  BY <1>1, <1>2
<1> QED
  BY <1>1, <1>3 DEF o, s

LEMMA TileIsAt ==
  ASSUME choice \in Choices, NEW x \in 0 .. Width - 1, NEW y \in 0 .. Height - 1
  PROVE  IsAt(TileAt(x, y), In(x), y)
BY TileIs DEF IsAt

LEMMA AtSameTile ==
  ASSUME choice \in Choices, NEW s, NEW t, NEW i, NEW y, IsAt(s, i, y), IsAt(t, i, y)
  PROVE  s = t
<1>1. /\ X(s) \in Int /\ X(t) \in Int
      /\ s = TileAt(X(s), Y(s)) /\ t = TileAt(X(t), Y(t))
  BY RowAndColumn, MapSizes DEF IsAt
<1>2. In(In(X(s))) = X(s) /\ In(In(X(t))) = X(t)
  BY <1>1, InApart
<1> QED
  BY <1>1, <1>2 DEF IsAt

LEMMA TileExists ==
  ASSUME choice \in Choices, NEW i \in 0 .. Width - 1, NEW y \in 0 .. Height - 1
  PROVE  IsAt(TileAt(In(i), y), i, y)
<1>1. i \in Int
  BY MapSizes
<1>2. In(i) \in Int /\ In(In(i)) = i
  BY <1>1, InApart
<1>3. In(i) \in 0 .. Width - 1
  BY <1>2, InMap
<1>4. IsAt(TileAt(In(i), y), In(In(i)), y)
  BY <1>3, TileIsAt
<1> QED
  BY <1>2, <1>4

LEMMA AtIsWater ==
  ASSUME choice \in Choices, NEW t, NEW i, NEW y, IsAt(t, i, y)
  PROVE  /\ i \in 0 .. Width - 1 /\ y \in 0 .. Height - 1
         /\ WaterWidth(y) \in BaseWater - Amplitude .. BaseWater + Amplitude
         /\ y \in {OutletY, CoastalY} => WaterWidth(y) = BaseWater
         /\ IsWater(t) <=> i < WaterWidth(y)
<1>1. t \in Tiles /\ In(X(t)) = i /\ Y(t) = y
  BY DEF IsAt
<1>2. Y(t) \in 0 .. Height - 1
  BY <1>1, RowAndColumn
<1> QED
  BY <1>1, <1>2, WaterIs

LEMMA AtApart ==
  ASSUME choice \in Choices, NEW s, NEW t, NEW i, NEW y, NEW j, NEW z,
         IsAt(s, i, y), IsAt(t, j, z)
  PROVE  Manhattan(s, t) = Apart(i, j) + Apart(y, z)
BY ManhattanIs DEF IsAt

LEMMA TheTilesAre ==
  ASSUME choice \in Choices
  PROVE  /\ IsAt(Course[1], BaseWater, OutletY)
         /\ IsAt(SourceTile, Width - 2, SourceY)
         /\ IsAt(CoastalTile, BaseWater, CoastalY)
         /\ IsAt(InlandTile, Width - 3, InlandY)
         /\ IsAt(WetTile, In(MiddleX), CoastalY)
         /\ IsAt(ForestTile, Width - 4, InlandY)
         /\ IsAt(GrassTile, Width - 5, InlandY)
         /\ SourceTile = Course[Len(Course)] /\ Len(Course) \in 1 .. Len(Course)
<1>1. /\ OutletY \in 0 .. Height - 1 /\ CoastalY \in 0 .. Height - 1
      /\ InlandY \in 0 .. Height - 1 /\ SourceY \in 0 .. Height - 1
  BY RowsFit
<1>2. /\ CoastalX \in 0 .. Width - 1 /\ MiddleX \in 0 .. Width - 1
      /\ InlandX \in 0 .. Width - 1
      /\ In(CoastalX) = BaseWater /\ In(InlandX) = Width - 3
  BY ColumnsDrawn
<1>3. Width \in Nat /\ Width >= 32 /\ choice.west \in BOOLEAN
  BY MapSizes, ChoiceIs
<1>4. IsAt(Course[1], BaseWater, OutletY)
  BY <1>1, <1>2, CourseStarts, TileIsAt
<1>5. IsAt(CoastalTile, BaseWater, CoastalY) /\ IsAt(InlandTile, Width - 3, InlandY)
      /\ IsAt(WetTile, In(MiddleX), CoastalY)
  BY <1>1, <1>2, TileIsAt DEF CoastalTile, InlandTile, WetTile
<1>6. IsAt(ForestTile, Width - 4, InlandY) /\ IsAt(GrassTile, Width - 5, InlandY)
  <2> DEFINE back == IF choice.west THEN -1 ELSE 1
             u == InlandX + back
             v == InlandX + 2 * back
  <2>1. In(u) = Width - 4 /\ In(v) = Width - 5
        /\ u \in 0 .. Width - 1 /\ v \in 0 .. Width - 1
    <3>1. CASE choice.west
      <4>1. In(u) = u /\ In(v) = v /\ InlandX = Width - 3
        BY <3>1 DEF In, InlandX
      <4> QED
        BY <1>3, <3>1, <4>1
    <3>2. CASE ~choice.west
      <4>1. In(u) = Width - 1 - u /\ In(v) = Width - 1 - v /\ InlandX = 2
        BY <3>2 DEF In, InlandX
      <4> QED
        BY <1>3, <3>2, <4>1
    <3> QED
      BY <3>1, <3>2
  <2>2. ForestTile = TileAt(u, InlandY) /\ GrassTile = TileAt(v, InlandY)
    BY DEF ForestTile, GrassTile
  <2> HIDE DEF u, v
  <2> QED
    BY <1>1, <2>1, <2>2, TileIsAt
<1>7. IsAt(SourceTile, Width - 2, SourceY) /\ Len(Course) \in 1 .. Len(Course)
  <2> DEFINE f == FirstLeg
             d == Drop
             l == LastLeg
             b == BaseWater
             n == f + d + l
             k == Len(Course) - 1
  <2>1. /\ Len(Course) = 1 + n /\ f \in Nat /\ d \in {0, 2, 3} /\ l \in Nat
        /\ b \in Nat /\ b + f + l = Width - 2 /\ Width <= 2 * l + b + 3
    BY LegsAre, CourseSize
  <2>2. 100 * b <= 30 * Width
    BY WaterDrawn
  <2>3. Len(Course) \in 1 .. Len(Course) /\ Course \in Seq(Tiles)
    BY <2>1, CourseAt
  <2>4. In(X(SourceTile)) = Along(k) /\ Y(SourceTile) = Down(k)
    BY <2>3, CourseAt DEF SourceTile
  <2>5. SourceTile \in Tiles
    BY <2>3 DEF SourceTile
  <2>6. k = n
    BY <2>1
  <2>7. /\ Along(k) = IF k <= f THEN b + k ELSE IF k <= f + d THEN b + f ELSE b + k - d
        /\ Down(k) = IF k <= f THEN OutletY
                     ELSE IF k <= f + d THEN OutletY + k - f ELSE SourceY
    BY DEF Along, Down
  <2> HIDE DEF f, d, l, b, k, n
  <2>8. n = f + d + l
    BY DEF n
  <2>9. ~(k <= f) /\ ~(k <= f + d) /\ b + k - d = Width - 2
    BY <1>3, <2>1, <2>2, <2>6, <2>8
  <2>10. Along(k) = Width - 2 /\ Down(k) = SourceY
    BY <2>7, <2>9
  <2> QED
    BY <2>3, <2>4, <2>5, <2>10 DEF IsAt
<1> QED
  BY <1>4, <1>5, <1>6, <1>7 DEF SourceTile

LEMMA OnCourse ==
  ASSUME choice \in Choices, NEW t \in TilesOf(Course)
  PROVE  /\ Y(t) \in OutletY .. SourceY
         /\ Y(t) # OutletY => In(X(t)) >= In(BendX)
<1> DEFINE n == FirstLeg + Drop + LastLeg
<1>1. PICK i \in 1 .. Len(Course) : t = Course[i]
  BY DEF TilesOf
<1> DEFINE k == i - 1
<1>2. k \in 0 .. n /\ n \in Nat
  BY CourseSize
<1>3. In(X(t)) = Along(k) /\ Y(t) = Down(k)
  BY <1>1, CourseAt
<1> HIDE DEF k
<1>4. Down(k) \in OutletY .. SourceY
  BY <1>2, LegsOrdered
<1> DEFINE f == FirstLeg
           d == Drop
           l == LastLeg
           b == BaseWater
<1>5. /\ f \in Nat /\ d \in {0, 2, 3} /\ l \in Nat /\ b \in Nat
      /\ In(BendX) = b + f
  BY LegsAre
<1>6. /\ Along(k) = IF k <= f THEN b + k ELSE IF k <= f + d THEN b + f ELSE b + k - d
      /\ k <= f => Down(k) = OutletY
  BY DEF Along, Down
<1>7. k \in Int /\ k <= f + d + l
  BY <1>2, <1>5
<1> HIDE DEF f, d, l, b
<1>8. ~(k <= f) => Along(k) >= b + f
  BY <1>5, <1>6, <1>7
<1> QED
  BY <1>3, <1>4, <1>5, <1>6, <1>8

LEMMA FirstLegIsCourse ==
  ASSUME choice \in Choices, NEW t, NEW i \in Int, IsAt(t, i, OutletY),
         BaseWater <= i, i <= In(BendX)
  PROVE  t \in TilesOf(Course)
<1> DEFINE f == FirstLeg
           b == BaseWater
           k == i - b
           j == 1 + k
<1>1. f \in Nat /\ b \in Nat /\ In(BendX) = b + f /\ Drop \in Nat /\ LastLeg \in Nat
  BY LegsAre
<1>2. Len(Course) = 1 + (f + Drop + LastLeg)
  BY CourseSize
<1>3. k \in 0 .. f /\ i = b + k
  BY <1>1
<1>4. j \in 1 .. Len(Course) /\ j - 1 = k
  BY <1>1, <1>2, <1>3
<1>5. Along(k) = b + k /\ Down(k) = OutletY
  BY <1>3 DEF Along, Down
<1> HIDE DEF f, k, j, b
<1>6. Course[j] \in Tiles /\ In(X(Course[j])) = Along(j - 1) /\ Y(Course[j]) = Down(j - 1)
  BY <1>4, CourseAt
<1>7. In(X(Course[j])) = i /\ Y(Course[j]) = OutletY
  BY <1>3, <1>4, <1>5, <1>6
<1>8. IsAt(Course[j], i, OutletY)
  BY <1>6, <1>7 DEF IsAt
<1>9. t = Course[j]
  BY <1>8, AtSameTile
<1> QED
  BY <1>4, <1>9 DEF TilesOf

(* Where they lie: on land, apart from one another, the settlements off    *)
(* the river, the wetland beside it.                                       *)
Placing ==
  /\ ~IsWater(CoastalTile) /\ ~IsWater(InlandTile)
  /\ ~IsWater(WetTile) /\ ~IsWater(ForestTile) /\ ~IsWater(GrassTile)
  /\ CoastalTile # InlandTile
  /\ CoastalTile \notin TilesOf(Course) /\ InlandTile \notin TilesOf(Course)
  /\ SourceTile \in TilesOf(Course)
  /\ SourceTile \notin {CoastalTile, InlandTile, WetTile, ForestTile, GrassTile}
  /\ {WetTile, ForestTile, GrassTile} \cap {CoastalTile, InlandTile} = {}
  /\ WetTile \notin {ForestTile, GrassTile} /\ ForestTile # GrassTile
  /\ \E s \in Neighbors(WetTile) : s \in TilesOf(Course)

LEMMA TilesPlaced ==
  ASSUME choice \in Choices
  PROVE  Placing
<1> DEFINE b == BaseWater
           a == Amplitude
           m == In(MiddleX)
           i == In(BendX)
<1>1. /\ b \in Nat /\ a \in Nat \ {0} /\ Width \in Nat /\ Width >= 32
      /\ 100 * b <= 30 * Width /\ 32 * a <= Width
  BY WaterDrawn, MapSizes
<1>2. Width + b - 4 <= 2 * m /\ m <= i /\ 2 * i <= Width + b - 1
  BY ColumnsDrawn
<1>3. m \in Int /\ i \in Int
  <2>1. BendX \in 0 .. Width - 1 /\ MiddleX \in 0 .. Width - 1
    BY ColumnsDrawn
  <2> QED
    BY <2>1, MapSizes, InApart
<1>4. /\ OutletY \in Int /\ CoastalY = OutletY + 1 /\ InlandY \in Int
      /\ SourceY < InlandY /\ CoastalY < InlandY /\ SourceY \in Int
      /\ SourceY \in {OutletY, OutletY + 2, OutletY + 3}
  <2>1. Height \in Int
    BY MapSizes
  <2> QED
    BY <2>1, RowsFit
<1>5. /\ IsAt(SourceTile, Width - 2, SourceY)
      /\ IsAt(CoastalTile, b, CoastalY)
      /\ IsAt(InlandTile, Width - 3, InlandY)
      /\ IsAt(WetTile, m, CoastalY)
      /\ IsAt(ForestTile, Width - 4, InlandY)
      /\ IsAt(GrassTile, Width - 5, InlandY)
      /\ SourceTile = Course[Len(Course)] /\ Len(Course) \in 1 .. Len(Course)
  BY TheTilesAre
<1>6. /\ IsWater(CoastalTile) <=> b < WaterWidth(CoastalY)
      /\ IsWater(WetTile) <=> m < WaterWidth(CoastalY)
      /\ WaterWidth(CoastalY) = b
  BY <1>5, AtIsWater
<1>7. /\ IsWater(InlandTile) <=> Width - 3 < WaterWidth(InlandY)
      /\ IsWater(ForestTile) <=> Width - 4 < WaterWidth(InlandY)
      /\ IsWater(GrassTile) <=> Width - 5 < WaterWidth(InlandY)
      /\ WaterWidth(InlandY) \in b - a .. b + a
  BY <1>5, AtIsWater
<1> DEFINE ww == WaterWidth(InlandY)
<1> HIDE DEF b, a, m, i, ww
<1>8. b < m /\ b < i /\ m < Width - 2 /\ b < Width - 5 /\ b + a < Width - 5
  BY <1>1, <1>2, <1>3
<1>9. ww \in Int /\ ww <= b + a
  BY <1>1, <1>7 DEF ww
<1>10. ~IsWater(CoastalTile) /\ ~IsWater(WetTile)
  BY <1>1, <1>3, <1>6, <1>8
<1>11. ~IsWater(InlandTile) /\ ~IsWater(ForestTile) /\ ~IsWater(GrassTile)
  BY <1>1, <1>7, <1>8, <1>9 DEF ww
<1>12. /\ Y(CoastalTile) = CoastalY /\ Y(InlandTile) = InlandY
       /\ Y(WetTile) = CoastalY /\ Y(ForestTile) = InlandY /\ Y(GrassTile) = InlandY
       /\ Y(SourceTile) = SourceY
       /\ In(X(CoastalTile)) = b /\ In(X(WetTile)) = m
       /\ In(X(SourceTile)) = Width - 2
       /\ In(X(InlandTile)) = Width - 3
       /\ In(X(ForestTile)) = Width - 4 /\ In(X(GrassTile)) = Width - 5
  BY <1>5 DEF IsAt
<1>13. CoastalTile # InlandTile
  BY <1>4, <1>12
<1>14. CoastalTile \notin TilesOf(Course)
  <2> SUFFICES ASSUME CoastalTile \in TilesOf(Course) PROVE FALSE
    OBVIOUS
  <2>1. Y(CoastalTile) # OutletY => In(X(CoastalTile)) >= i
    BY OnCourse DEF i
  <2>2. b >= i
    BY <1>4, <1>12, <2>1
  <2> QED
    BY <1>1, <1>3, <1>8, <2>2
<1>15. InlandTile \notin TilesOf(Course)
  <2> SUFFICES ASSUME InlandTile \in TilesOf(Course) PROVE FALSE
    OBVIOUS
  <2>1. Y(InlandTile) \in OutletY .. SourceY
    BY OnCourse
  <2> QED
    BY <1>4, <1>12, <2>1
<1>16. SourceTile \in TilesOf(Course)
  BY <1>5 DEF TilesOf
<1>17. SourceTile \notin {CoastalTile, InlandTile, WetTile, ForestTile, GrassTile}
  <2>1. SourceTile \notin {InlandTile, ForestTile, GrassTile}
    BY <1>4, <1>12
  <2>2. Width - 2 # b /\ Width - 2 # m
    BY <1>1, <1>3, <1>8
  <2> QED
    BY <1>12, <2>1, <2>2
<1>18. {WetTile, ForestTile, GrassTile} \cap {CoastalTile, InlandTile} = {}
  <2>1. WetTile # CoastalTile /\ WetTile # InlandTile
    <3>1. m # b /\ CoastalY # InlandY
      BY <1>1, <1>3, <1>4, <1>8
    <3> QED
      BY <1>12, <3>1
  <2>2. ForestTile # CoastalTile /\ ForestTile # InlandTile
    <3>1. CoastalY # InlandY /\ Width - 4 # Width - 3
      BY <1>1, <1>4
    <3> QED
      BY <1>12, <3>1
  <2>3. GrassTile # CoastalTile /\ GrassTile # InlandTile
    <3>1. CoastalY # InlandY /\ Width - 5 # Width - 3
      BY <1>1, <1>4
    <3> QED
      BY <1>12, <3>1
  <2> QED
    BY <2>1, <2>2, <2>3
<1>19. WetTile \notin {ForestTile, GrassTile} /\ ForestTile # GrassTile
  <2>1. CoastalY # InlandY /\ Width - 4 # Width - 5
    BY <1>1, <1>4
  <2> QED
    BY <1>12, <2>1
<1>20. \E s \in Neighbors(WetTile) : s \in TilesOf(Course)
  <2> DEFINE s == TileAt(In(m), OutletY)
  <2>1. m \in 0 .. Width - 1 /\ OutletY \in 0 .. Height - 1
    BY <1>1, <1>3, <1>8, RowsFit
  <2>2. IsAt(s, m, OutletY)
    BY <2>1, TileExists
  <2> HIDE DEF s
  <2>3. s \in TilesOf(Course)
    <3>1. BaseWater <= m /\ m <= In(BendX)
      BY <1>1, <1>2, <1>3, <1>8 DEF b, i
    <3> QED
      BY <1>3, <2>2, <3>1, FirstLegIsCourse
  <2>4. Manhattan(WetTile, s) = Apart(m, m) + Apart(CoastalY, OutletY)
    BY <1>5, <2>2, AtApart
  <2>5. Manhattan(WetTile, s) = 1
    BY <1>3, <1>4, <2>4 DEF Apart
  <2>6. s \in Neighbors(WetTile)
    BY <1>5, <2>2, <2>5, ManhattanIs DEF IsAt
  <2> QED
    BY <2>3, <2>6
<1> QED
  BY <1>10, <1>11, <1>13, <1>14, <1>15, <1>16, <1>17, <1>18, <1>19, <1>20 DEF Placing

-----------------------------------------------------------------------------
(* Terrain that keeps the sea and the source.                              *)
Paint(terrain) ==
  /\ terrain \in [Tiles -> Terrains]
  /\ \A t \in Tiles : terrain[t] = "WATER" <=> IsWater(t)
  /\ terrain[SourceTile] = "HILLS"

LEMMA PaintIs ==
  ASSUME Charted(world), Carved(world)
  PROVE  Paint(world.terrain)
<1>1. world.terrain \in [Tiles -> Terrains \cup {"none"}]
  BY DEF Charted, Worlds
<1>2. \A t \in Tiles : world.terrain[t] \in Terrains
  BY DEF Charted
<1>3. world.terrain \in [Tiles -> Terrains]
  BY <1>1, <1>2
<1> QED
  BY <1>3 DEF Charted, Carved, Paint, SourceTile

LEMMA Repainted ==
  ASSUME Charted(world), Carved(world), NEW terrain, Paint(terrain),
         world' = [world EXCEPT !.terrain = terrain]
  PROVE  /\ Charted(world') /\ Carved(world')
         /\ world'.terrain = terrain /\ world'.settlement_id = world.settlement_id
<1> DEFINE v == world'
<1>1. world \in Worlds /\ terrain \in [Tiles -> Terrains]
  BY DEF Charted, Paint
<1>2. terrain \in [Tiles -> Terrains \cup {"none"}]
  BY <1>1
<1>3. /\ v \in Worlds /\ v.terrain = terrain /\ v.elevation = world.elevation
      /\ v.river = world.river /\ v.outlets = world.outlets
      /\ v.river_tile_count = world.river_tile_count
      /\ v.settlement_id = world.settlement_id /\ v.unknown = world.unknown
      /\ v.soaked = world.soaked /\ v.land_tile_count = world.land_tile_count
  BY <1>1, <1>2 DEF Worlds
<1> HIDE DEF v
<1>4. Charted(v)
  BY <1>3, Zenon DEF Charted, Paint
<1>5. Carved(v)
  BY <1>3 DEF Carved, Paint, SourceTile
<1> QED
  BY <1>3, <1>4, <1>5 DEF v

(* Where a wetland is no stray one.                                        *)
Wet(t) ==
  t \in TilesOf(Course)
  \/ \E n \in Neighbors(t) : IsWater(n) \/ n \in TilesOf(Course)

LEMMA DampIs ==
  ASSUME NEW w, Charted(w), Carved(w),
         \A t \in Tiles : w.terrain[t] = "WETLANDS" => Wet(t)
  PROVE  Damp(w)
<1> SUFFICES ASSUME NEW t \in Tiles, StrayWetland(w, t) PROVE FALSE
  BY DEF Damp
<1>1. /\ w.terrain[t] = "WETLANDS" /\ ~AdjacentTerrain(w, t, "WATER")
      /\ t \notin w.river /\ Degree(w.river, t) = 0
  BY DEF StrayWetland
<1>2. w.river = TilesOf(Course) /\ w.river \subseteq Tiles
  BY DEF Carved, Charted, Worlds
<1>3. PICK n \in Neighbors(t) : IsWater(n) \/ n \in TilesOf(Course)
  BY <1>1, <1>2 DEF Wet
<1>4. n \in Tiles
  BY NeighborsAre
<1>5. CASE IsWater(n)
  BY <1>1, <1>4, <1>5 DEF Charted, AdjacentTerrain
<1>6. CASE n \in TilesOf(Course)
  <2>1. n \in Beside(w.river, t)
    BY <1>2, <1>6 DEF Beside
  <2>2. IsFiniteSet(Beside(w.river, t)) /\ Cardinality(Beside(w.river, t)) = 0
    BY <1>1, <1>2, DegreeIs
  <2> QED
    BY <2>1, <2>2, FS_EmptySet
<1> QED
  BY <1>3, <1>5, <1>6

LEMMA DampTells ==
  ASSUME NEW w, Charted(w), Carved(w), Damp(w), NEW t \in Tiles,
         w.terrain[t] = "WETLANDS"
  PROVE  Wet(t)
<1>1. ~StrayWetland(w, t)
  BY DEF Damp
<1>2. w.river = TilesOf(Course) /\ w.river \subseteq Tiles
  BY DEF Carved, Charted, Worlds
<1>3. AdjacentTerrain(w, t, "WATER") \/ t \in w.river \/ Degree(w.river, t) # 0
  BY <1>1 DEF StrayWetland
<1>4. CASE AdjacentTerrain(w, t, "WATER")
  <2>1. PICK n \in Neighbors(t) : w.terrain[n] = "WATER"
    BY <1>4 DEF AdjacentTerrain
  <2>2. n \in Tiles
    BY NeighborsAre
  <2> QED
    BY <2>1, <2>2 DEF Charted, Wet
<1>5. CASE t \in w.river
  BY <1>2, <1>5 DEF Wet
<1>6. CASE Degree(w.river, t) # 0
  <2>1. Cardinality(Beside(w.river, t)) # 0
    BY <1>2, <1>6, DegreeIs
  <2>2. Beside(w.river, t) # {}
    BY <2>1, FS_EmptySet
  <2> QED
    BY <1>2, <2>2 DEF Beside, Wet
<1> QED
  BY <1>3, <1>4, <1>5, <1>6

LEMMA BiomesGrow ==
  ASSUME choice \in Choices, Charted(world), Carved(world), Unsettled(world),
         AssignBiomes
  PROVE  /\ phase' = IF choice.fallback THEN "fallback" ELSE "entities"
         /\ UNCHANGED <<report, choice, raised>>
         /\ Charted(world') /\ Carved(world') /\ Unsettled(world') /\ Damp(world')
<1> DEFINE terrain == [t \in Tiles |->
       IF world.terrain[t] = "WATER" \/ t \in world.river THEN world.terrain[t]
       ELSE IF Eligible(t) /\ choice.biome[t] < choice.wetland THEN "WETLANDS"
       ELSE IF choice.biome[t] < choice.hill THEN "HILLS"
       ELSE IF choice.biome[t] < choice.hill + choice.forest THEN "FOREST"
       ELSE "GRASSLAND"]
<1>1. /\ world' = [world EXCEPT !.terrain = terrain]
      /\ phase' = IF choice.fallback THEN "fallback" ELSE "entities"
      /\ UNCHANGED <<report, choice, raised>>
  BY DEF AssignBiomes
<1>2. world.river = TilesOf(Course) /\ Paint(world.terrain)
  BY PaintIs DEF Carved
<1>3. ASSUME NEW t \in Tiles
      PROVE  /\ terrain[t] \in Terrains /\ (terrain[t] = "WATER" <=> IsWater(t))
             /\ t \in TilesOf(Course) => terrain[t] = world.terrain[t]
             /\ terrain[t] # "SETTLEMENT"
             /\ terrain[t] = "WETLANDS" => t \in TilesOf(Course) \/ Eligible(t)
  <2>1. /\ world.terrain[t] \in Terrains /\ (world.terrain[t] = "WATER" <=> IsWater(t))
        /\ world.terrain[t] # "SETTLEMENT"
    BY DEF Charted, Unsettled
  <2>2. CASE world.terrain[t] = "WATER" \/ t \in world.river
    <3>1. terrain[t] = world.terrain[t]
      BY <2>2
    <3> HIDE DEF terrain
    <3>2. world.terrain[t] = "WETLANDS" => t \in TilesOf(Course)
      BY <1>2, <2>2
    <3> QED
      BY <2>1, <3>1, <3>2
  <2>3. CASE ~(world.terrain[t] = "WATER" \/ t \in world.river)
    <3>1. /\ terrain[t] \in {"WETLANDS", "HILLS", "FOREST", "GRASSLAND"}
          /\ terrain[t] = "WETLANDS" => Eligible(t)
      BY <2>3
    <3> HIDE DEF terrain
    <3>2. t \notin TilesOf(Course) /\ ~IsWater(t)
      BY <1>2, <2>1, <2>3
    <3> QED
      BY <3>1, <3>2 DEF Terrains, Dry
  <2> QED
    BY <2>2, <2>3
<1>4. terrain = [t \in Tiles |-> terrain[t]]
  OBVIOUS
<1> HIDE DEF terrain
<1>5. Paint(terrain)
  <2>1. terrain \in [Tiles -> Terrains]
    BY <1>3, <1>4
  <2>2. SourceTile \in TilesOf(Course) /\ SourceTile \in Tiles
    BY TilesPlaced, TheTilesAre DEF Placing, IsAt
  <2>3. terrain[SourceTile] = "HILLS"
    BY <1>2, <1>3, <2>2 DEF Paint
  <2> QED
    BY <1>3, <2>1, <2>3 DEF Paint
<1>6. /\ Charted(world') /\ Carved(world')
      /\ world'.terrain = terrain /\ world'.settlement_id = world.settlement_id
  BY <1>1, <1>5, Repainted
<1> DEFINE v == world'
<1> HIDE DEF v
<1>7. Unsettled(v)
  BY <1>3, <1>6 DEF Unsettled, v
<1>8. ASSUME NEW t \in Tiles, v.terrain[t] = "WETLANDS" PROVE Wet(t)
  <2>1. t \in TilesOf(Course) \/ Eligible(t)
    BY <1>3, <1>6, <1>8 DEF v
  <2>2. CASE Eligible(t)
    <3>1. PICK n \in Neighbors(t) : world.terrain[n] = "WATER" \/ n \in world.river
      BY <2>2 DEF Eligible
    <3>2. n \in Tiles
      BY NeighborsAre
    <3>3. IsWater(n) \/ n \in TilesOf(Course)
      BY <1>2, <3>1, <3>2 DEF Charted
    <3> QED
      BY <3>3 DEF Wet
  <2> QED
    BY <2>1, <2>2 DEF Wet
<1>9. Damp(v)
  <2>1. Charted(v) /\ Carved(v)
    BY <1>6 DEF v
  <2> QED
    BY <1>8, <2>1, DampIs
<1> QED
  BY <1>1, <1>6, <1>7, <1>9 DEF v

LEMMA MissingSupplies ==
  ASSUME choice \in Choices, Charted(world), Carved(world), Unsettled(world),
         Damp(world), ConstructMissing
  PROVE  /\ phase' = "entities" /\ UNCHANGED <<report, choice, raised>>
         /\ Charted(world') /\ Carved(world') /\ Unsettled(world') /\ Damp(world')
         /\ Supplied(world')
<1> DEFINE a == WetTile
           b == ForestTile
           c == GrassTile
           terrain == [[[world.terrain EXCEPT ![a] = "WETLANDS"]
                           EXCEPT ![b] = "FOREST"] EXCEPT ![c] = "GRASSLAND"]
<1>1. /\ world' = [world EXCEPT !.terrain[a] = "WETLANDS", !.terrain[b] = "FOREST",
                                !.terrain[c] = "GRASSLAND"]
      /\ phase' = "entities" /\ UNCHANGED <<report, choice, raised>>
  BY DEF ConstructMissing, WetTile, ForestTile, GrassTile
<1>2. Placing /\ a \in Tiles /\ b \in Tiles /\ c \in Tiles
  BY TilesPlaced, TheTilesAre DEF IsAt
<1>3. Paint(world.terrain) /\ world \in Worlds
  BY PaintIs DEF Charted
<1> HIDE DEF a, b, c
<1>4. world' = [world EXCEPT !.terrain = terrain]
  BY <1>1, <1>3 DEF Worlds
<1>5. world.terrain \in [Tiles -> Terrains]
  BY <1>3 DEF Paint
<1>6. /\ a # b /\ a # c /\ b # c
      /\ ~IsWater(a) /\ ~IsWater(b) /\ ~IsWater(c)
      /\ SourceTile \notin {a, b, c}
  BY <1>2 DEF Placing, a, b, c
<1> DEFINE old == world.terrain
<1> HIDE DEF old
<1>7. /\ terrain \in [Tiles -> Terrains]
      /\ terrain[a] = "WETLANDS" /\ terrain[b] = "FOREST" /\ terrain[c] = "GRASSLAND"
      /\ \A t \in Tiles : t \notin {a, b, c} => terrain[t] = old[t]
  BY <1>2, <1>5, <1>6 DEF old, Terrains, Dry
<1> HIDE DEF terrain
<1>8. Paint(terrain)
  <2>1. \A t \in Tiles : terrain[t] = "WATER" <=> IsWater(t)
    <3> SUFFICES ASSUME NEW t \in Tiles PROVE terrain[t] = "WATER" <=> IsWater(t)
      OBVIOUS
    <3>1. old[t] = "WATER" <=> IsWater(t)
      BY <1>3 DEF Paint, old
    <3> QED
      BY <1>6, <1>7, <3>1
  <2>2. SourceTile \in Tiles /\ old[SourceTile] = "HILLS"
    BY <1>3, TheTilesAre DEF Paint, IsAt, old
  <2> QED
    BY <1>6, <1>7, <2>1, <2>2 DEF Paint
<1> DEFINE v == world'
<1>9. /\ Charted(v) /\ Carved(v)
      /\ v.terrain = terrain /\ v.settlement_id = world.settlement_id
  BY <1>3, <1>4, <1>8, Repainted
<1> HIDE DEF v
<1>10. Unsettled(v)
  <2> SUFFICES ASSUME NEW t \in Tiles
               PROVE  terrain[t] # "SETTLEMENT" /\ world.settlement_id[t] = 0
    BY <1>9 DEF Unsettled
  <2>1. old[t] # "SETTLEMENT" /\ world.settlement_id[t] = 0
    BY DEF Unsettled, old
  <2> QED
    BY <1>7, <2>1
<1>11. ASSUME NEW t \in Tiles, v.terrain[t] = "WETLANDS" PROVE Wet(t)
  <2>1. CASE t = a
    BY <1>2, <2>1 DEF Placing, Wet, a
  <2>2. CASE t # a
    <3>1. old[t] = "WETLANDS"
      BY <1>7, <1>9, <1>11, <2>2
    <3> QED
      BY <3>1, DampTells DEF old
  <2> QED
    BY <2>1, <2>2
<1>12. Damp(v)
  BY <1>9, <1>11, DampIs
<1>13. Supplied(v)
  BY <1>7, <1>9 DEF Supplied, a, b, c
<1> QED
  BY <1>1, <1>9, <1>10, <1>12, <1>13 DEF v

-----------------------------------------------------------------------------
(* The six entities and the region, as they are named.                     *)
Registry ==
  [i \in 1 .. 6 |->
     [id |-> i, kind |-> Kinds[i], region_id |-> 1, named |-> TRUE,
      owner_id |-> IF i \in {5, 6} THEN i ELSE 4,
      at |-> CASE i = 2 -> CoastalTile [] i = 3 -> InlandTile
               [] OTHER -> Nowhere]]
Founded(river_count, road_count) ==
  [id |-> 1, political_owner_id |-> 4, settlement_ids |-> <<2, 3>>,
   foreign_faction_ids |-> <<5, 6>>, river_outlet_tile_id |-> Course[1],
   road_start_tile_id |-> CoastalTile, road_end_tile_id |-> InlandTile,
   river_tile_count |-> river_count, road_tile_count |-> road_count]
Settled(w) ==
  /\ \A t \in Tiles :
       /\ w.terrain[t] = "SETTLEMENT" <=> t \in {CoastalTile, InlandTile}
       /\ w.settlement_id[t] = IF t = CoastalTile THEN 2
                               ELSE IF t = InlandTile THEN 3 ELSE 0
  /\ w.entities = Registry

LEMMA EntitiesSettle ==
  ASSUME choice \in Choices, Charted(world), Carved(world), Unsettled(world),
         Damp(world), Supplied(world), InitializeEntities, TypedIInv
  PROVE  /\ phase' = "road" /\ UNCHANGED <<report, choice, raised>>
         /\ Charted(world') /\ Carved(world') /\ Damp(world') /\ Supplied(world')
         /\ Settled(world') /\ world'.region = Founded(0, 0)
<1> DEFINE a == CoastalTile
           b == InlandTile
           outlet == TileAt(CoastalX, OutletY)
           entities == Registry
           region == [NoRegion EXCEPT
              !.id = 1, !.political_owner_id = 4, !.settlement_ids = <<2, 3>>,
              !.foreign_faction_ids = <<5, 6>>,
              !.river_outlet_tile_id = outlet,
              !.road_start_tile_id = a, !.road_end_tile_id = b]
           terrain == [[world.terrain EXCEPT ![a] = "SETTLEMENT"]
                          EXCEPT ![b] = "SETTLEMENT"]
           ids == [[world.settlement_id EXCEPT ![a] = 2] EXCEPT ![b] = 3]
<1>1. /\ phase' = "road" /\ UNCHANGED <<report, choice, raised>>
      /\ world' = [world EXCEPT !.entities = entities, !.region = region,
                             !.terrain[a] = "SETTLEMENT", !.terrain[b] = "SETTLEMENT",
                             !.settlement_id[a] = 2, !.settlement_id[b] = 3]
  BY DEF InitializeEntities, Registry
<1>2. Placing /\ a \in Tiles /\ b \in Tiles
  BY TilesPlaced, TheTilesAre DEF IsAt
<1>3. Paint(world.terrain) /\ world \in Worlds
  BY PaintIs DEF Charted
<1>4. world' \in Worlds
  BY EntitiesTyped DEF TypedIInv, CandidateTypeOK, ValidateTypeOK
<1>5. region = Founded(0, 0)
  <2>1. NoRegion = [id |-> 0, political_owner_id |-> 0,
                    settlement_ids |-> <<0, 0>>, foreign_faction_ids |-> <<0, 0>>,
                    river_outlet_tile_id |-> Nowhere, road_start_tile_id |-> Nowhere,
                    road_end_tile_id |-> Nowhere, river_tile_count |-> 0,
                    road_tile_count |-> 0]
    BY DEF NoRegion
  <2>2. outlet = Course[1]
    BY CourseStarts
  <2> HIDE DEF region, a, b, outlet
  <2>3. region = [NoRegion EXCEPT
              !.id = 1, !.political_owner_id = 4, !.settlement_ids = <<2, 3>>,
              !.foreign_faction_ids = <<5, 6>>, !.river_outlet_tile_id = outlet,
              !.road_start_tile_id = a, !.road_end_tile_id = b]
    BY Zenon DEF region
  <2> DEFINE r == NoRegion
             p == <<2, 3>>
             q == <<5, 6>>
             z == <<0, 0>>
  <2>4. r = [id |-> 0, political_owner_id |-> 0,
             settlement_ids |-> z, foreign_faction_ids |-> z,
             river_outlet_tile_id |-> Nowhere, road_start_tile_id |-> Nowhere,
             road_end_tile_id |-> Nowhere, river_tile_count |-> 0,
             road_tile_count |-> 0]
    BY <2>1
  <2>5. region = [r EXCEPT
              !.id = 1, !.political_owner_id = 4, !.settlement_ids = p,
              !.foreign_faction_ids = q, !.river_outlet_tile_id = outlet,
              !.road_start_tile_id = a, !.road_end_tile_id = b]
    BY <2>3
  <2>6. region = [id |-> 1, political_owner_id |-> 4,
             settlement_ids |-> p, foreign_faction_ids |-> q,
             river_outlet_tile_id |-> outlet, road_start_tile_id |-> a,
             road_end_tile_id |-> b, river_tile_count |-> 0,
             road_tile_count |-> 0]
    <3> HIDE DEF r, p, q, z
    <3> QED
      BY <2>4, <2>5
  <2> QED
    BY <2>2, <2>6 DEF Founded, a, b
<1> HIDE DEF a, b, outlet, entities, region
<1>6. world' = [world EXCEPT !.entities = entities, !.region = region,
                             !.terrain = terrain, !.settlement_id = ids]
  BY <1>1, <1>3 DEF Worlds
<1> DEFINE old == world.terrain
           oldIds == world.settlement_id
<1>7. old \in [Tiles -> Terrains] /\ oldIds \in [Tiles -> Ids] /\ a # b
      /\ ~IsWater(a) /\ ~IsWater(b) /\ SourceTile \notin {a, b}
  BY <1>2, <1>3 DEF Paint, Worlds, Placing, a, b
<1> HIDE DEF old, oldIds
<1>8. /\ terrain \in [Tiles -> Terrains]
      /\ terrain[a] = "SETTLEMENT" /\ terrain[b] = "SETTLEMENT"
      /\ \A t \in Tiles : t \notin {a, b} => terrain[t] = old[t]
  BY <1>2, <1>7 DEF old, Terrains, Dry
<1>9. /\ ids[a] = 2 /\ ids[b] = 3
      /\ \A t \in Tiles : t \notin {a, b} => ids[t] = oldIds[t]
  BY <1>2, <1>7 DEF oldIds
<1> HIDE DEF terrain, ids
<1>10. Paint(terrain)
  <2>1. \A t \in Tiles : terrain[t] = "WATER" <=> IsWater(t)
    <3> SUFFICES ASSUME NEW t \in Tiles PROVE terrain[t] = "WATER" <=> IsWater(t)
      OBVIOUS
    <3>1. old[t] = "WATER" <=> IsWater(t)
      BY <1>3 DEF Paint, old
    <3> QED
      BY <1>7, <1>8, <3>1
  <2>2. SourceTile \in Tiles /\ old[SourceTile] = "HILLS"
    BY <1>3, TheTilesAre DEF Paint, IsAt, old
  <2> QED
    BY <1>7, <1>8, <2>1, <2>2 DEF Paint
<1> DEFINE v == world'
<1>11. /\ v.terrain = terrain /\ v.settlement_id = ids /\ v.entities = entities
       /\ v.region = region /\ v.elevation = world.elevation
       /\ v.river = world.river /\ v.outlets = world.outlets
       /\ v.river_tile_count = world.river_tile_count
       /\ v.unknown = world.unknown /\ v.soaked = world.soaked
       /\ v.land_tile_count = world.land_tile_count /\ v \in Worlds
  BY <1>3, <1>4, <1>6 DEF Worlds
<1> HIDE DEF v
<1>12. Charted(v)
  BY <1>10, <1>11, Zenon DEF Charted, Paint
<1>13. Carved(v)
  BY <1>10, <1>11 DEF Carved, Paint, SourceTile
<1>14. Settled(v)
  <2>1. ASSUME NEW t \in Tiles
        PROVE  /\ terrain[t] = "SETTLEMENT" <=> t \in {a, b}
               /\ ids[t] = IF t = a THEN 2 ELSE IF t = b THEN 3 ELSE 0
    <3>1. old[t] # "SETTLEMENT" /\ oldIds[t] = 0
      BY DEF Unsettled, old, oldIds
    <3> QED
      BY <1>7, <1>8, <1>9, <3>1
  <2> QED
    BY <1>11, <2>1 DEF Settled, a, b, entities
<1>15. ASSUME NEW t \in Tiles, v.terrain[t] = "WETLANDS" PROVE Wet(t)
  <2>1. old[t] = "WETLANDS"
    BY <1>8, <1>11, <1>15
  <2> QED
    BY <2>1, DampTells DEF old
<1>16. Damp(v)
  BY <1>12, <1>13, <1>15, DampIs
<1>17. Supplied(v)
  <2>1. /\ WetTile \in Tiles /\ ForestTile \in Tiles /\ GrassTile \in Tiles
        /\ WetTile \notin {a, b} /\ ForestTile \notin {a, b} /\ GrassTile \notin {a, b}
    BY <1>2, TheTilesAre DEF IsAt, Placing, a, b
  <2> QED
    BY <1>8, <1>11, <2>1 DEF Supplied, old
<1> QED
  BY <1>1, <1>5, <1>11, <1>12, <1>13, <1>14, <1>16, <1>17 DEF v

-----------------------------------------------------------------------------
(* There is always a way between the settlements: along the row of one and *)
(* down the column of the other.                                           *)
LEMMA StepsGoOn ==
  ASSUME NEW n \in Nat, NEW P, 0 \in P,
         \A k \in 0 .. n : k # n /\ k \in P => k + 1 \in P
  PROVE  n \in P
<1> SUFFICES ASSUME n \notin P PROVE FALSE
  OBVIOUS
<1> DEFINE B == {k \in 0 .. n : k \notin P}
<1>1. B \subseteq Nat /\ n \in B
  OBVIOUS
<1> HIDE DEF B
<1>2. PICK m \in B : \A k \in B : m <= k
  BY <1>1, LeastExists
<1>3. m \in 0 .. n /\ m \notin P
  BY <1>2 DEF B
<1>4. m # 0
  BY <1>3
<1> DEFINE k == m - 1
<1>5. k \in 0 .. n /\ k # n /\ m = k + 1 /\ ~(m <= k)
  BY <1>3, <1>4
<1> HIDE DEF k
<1>6. k \notin B
  BY <1>2, <1>5
<1>7. k \in P
  BY <1>5, <1>6 DEF B
<1> QED
  BY <1>3, <1>5, <1>7

Within(t, m) == t \in Tiles /\ Distances[t] # Unreached /\ Distances[t] <= m

LEMMA OneStepFurther ==
  ASSUME Surveyed, CoastalTile \in Tiles, NEW s, NEW m \in Int, Within(s, m),
         m + 29 < Unreached, NEW t \in Neighbors(s), world.terrain[t] # "WATER"
  PROVE  Within(t, m + 29)
<1>1. s \in Tiles /\ t \in Tiles /\ s \in Neighbors(t)
  BY NeighborsAre DEF Within
<1>2. Distances \in Fields
  BY StartIsNear
<1>3. TerrainCost[t] # Unreached /\ TerrainCost[t] \in 1 .. 29
  BY <1>1, CostsAre
<1>4. Distances[t] <= Distances[s] + TerrainCost[t]
  BY <1>1, <1>3, StartIsNear DEF Within
<1> DEFINE d == Distances[t]
           e == Distances[s]
           c == TerrainCost[t]
<1>5. d \in 0 .. Unreached /\ e \in 0 .. Unreached /\ Unreached \in Nat
  BY <1>1, <1>2, UnreachedIs DEF Fields
<1>6. e <= m
  BY DEF Within
<1>7. d <= e + c /\ c \in 1 .. 29
  BY <1>3, <1>4
<1> HIDE DEF d, e, c
<1>8. d <= m + 29 /\ d # Unreached
  BY <1>5, <1>6, <1>7
<1> QED
  BY <1>1, <1>8 DEF Within, d

LEMMA FarEnough ==
  29 * (Width + Height) < Unreached /\ Unreached \in Nat
<1>1. /\ Width \in Nat /\ Height \in Nat /\ Width >= 32 /\ Height >= 16
  BY MapSizes
<1>2. Unreached \in Nat /\ Unreached > 30 * Width * Height
  BY CandidateAssumption
<1>3. Width * Height \in Nat /\ Width + Height <= Width * Height
  <2> DEFINE w == Width - 2
             h == Height - 2
  <2>1. w \in Nat /\ h \in Nat /\ Width = w + 2 /\ Height = h + 2 /\ w >= 30
    BY <1>1
  <2>2. (w + 2) * (h + 2) = w * h + 2 * w + 2 * h + 4
    BY <2>1
  <2>3. w * h \in Nat
    BY <2>1, NaturalsAre
  <2> HIDE DEF w, h
  <2> DEFINE p == w * h
  <2> HIDE DEF p
  <2>4. Width * Height = p + 2 * w + 2 * h + 4 /\ p \in Nat
    BY <2>1, <2>2, <2>3 DEF p
  <2> QED
    BY <2>1, <2>4
<1> DEFINE n == Width * Height
<1>4. 30 * Width * Height = 30 * n
  BY <1>1
<1> HIDE DEF n
<1> QED
  BY <1>1, <1>2, <1>3, <1>4 DEF n

LEMMA RowIsReached ==
  ASSUME choice \in Choices, Charted(world), Surveyed
  PROVE  \E t : IsAt(t, Width - 3, CoastalY) /\ Within(t, 29 * (Width - 3 - BaseWater))
<1> DEFINE b == BaseWater
           n == Width - 3 - b
           at(k) == TileAt(In(b + k), CoastalY)
           P == {k \in 0 .. n : Within(at(k), 29 * k)}
<1>1. /\ b \in Nat /\ Width \in Nat /\ Width >= 32 /\ 100 * b <= 30 * Width
      /\ Height \in Nat
  BY WaterDrawn, MapSizes
<1>2. CoastalTile \in Tiles /\ IsAt(CoastalTile, b, CoastalY)
  BY TheTilesAre DEF IsAt
<1> HIDE DEF b
<1>3. n \in Nat
  BY <1>1
<1>4. \A k \in 0 .. n : IsAt(at(k), b + k, CoastalY)
  <2> SUFFICES ASSUME NEW k \in 0 .. n PROVE IsAt(at(k), b + k, CoastalY)
    OBVIOUS
  <2>1. b + k \in 0 .. Width - 1
    BY <1>1
  <2>2. CoastalY \in 0 .. Height - 1
    BY RowsFit
  <2> QED
    BY <2>1, <2>2, TileExists
<1>5. 0 \in P
  <2>1. IsAt(at(0), b, CoastalY) /\ 0 \in 0 .. n
    <3>1. 0 \in 0 .. n /\ b + 0 = b
      BY <1>1, <1>3
    <3>2. IsAt(at(0), b + 0, CoastalY)
      BY <1>4, <3>1
    <3> QED
      BY <3>1, <3>2
  <2>2. at(0) = CoastalTile
    BY <1>2, <2>1, AtSameTile
  <2> HIDE DEF at
  <2>3. Distances[CoastalTile] = 0
    BY <1>2, StartIsNear
  <2>4. Unreached # 0
    BY UnreachedIs
  <2>5. 29 * 0 = 0
    OBVIOUS
  <2>6. Within(at(0), 29 * 0)
    BY <1>2, <2>2, <2>3, <2>4, <2>5 DEF Within
  <2> QED
    BY <2>1, <2>6
<1>6. ASSUME NEW k \in 0 .. n, k # n, k \in P PROVE k + 1 \in P
  <2> DEFINE s == at(k)
             t == at(k + 1)
  <2>1. k \in Int /\ k + 1 \in 0 .. n /\ b + (k + 1) = b + k + 1
    BY <1>1, <1>3, <1>6
  <2>2. IsAt(s, b + k, CoastalY) /\ IsAt(t, b + (k + 1), CoastalY)
    BY <1>4, <2>1
  <2>3. Within(s, 29 * k)
    BY <1>6
  <2> HIDE DEF s, t
  <2>4. CoastalY \in Int
    BY <1>1, RowsFit
  <2>5. Manhattan(s, t) = 1
    <3>1. Manhattan(s, t) = Apart(b + k, b + (k + 1)) + Apart(CoastalY, CoastalY)
      BY <2>2, AtApart
    <3> QED
      BY <1>1, <2>1, <2>4, <3>1 DEF Apart
  <2>6. t \in Neighbors(s)
    BY <2>2, <2>5, ManhattanIs DEF IsAt
  <2>7. ~IsWater(t)
    <3>1. WaterWidth(CoastalY) = b /\ (IsWater(t) <=> b + (k + 1) < WaterWidth(CoastalY))
      BY <2>2, AtIsWater DEF b
    <3> QED
      BY <1>1, <2>1, <3>1
  <2>8. world.terrain[t] # "WATER"
    BY <2>2, <2>7 DEF Charted, IsAt
  <2>9. 29 * k \in Int /\ 29 * k + 29 = 29 * (k + 1) /\ 29 * k + 29 < Unreached
    BY <1>1, <2>1, FarEnough
  <2>10. Within(t, 29 * (k + 1))
    <3>1. Within(t, 29 * k + 29)
      BY <1>2, <2>3, <2>6, <2>8, <2>9, OneStepFurther
    <3> QED
      BY <2>9, <3>1
  <2> QED
    BY <2>1, <2>10 DEF t
<1>7. n \in P
  <2> HIDE DEF P, n
  <2> QED
    BY <1>3, <1>5, <1>6, StepsGoOn
<1>8. b + n = Width - 3 /\ n \in 0 .. n
  BY <1>1, <1>3
<1>9. IsAt(at(n), Width - 3, CoastalY) /\ Within(at(n), 29 * n)
  BY <1>4, <1>7, <1>8
<1> QED
  BY <1>9 DEF b

LEMMA InlandIsReached ==
  ASSUME choice \in Choices, Charted(world), Surveyed
  PROVE  Distances[InlandTile] # Unreached
<1> DEFINE b == BaseWater
           c == CoastalY
           m == 29 * (Width - 3 - b)
           n == InlandY - c
           at(k) == TileAt(In(Width - 3), c + k)
           P == {k \in 0 .. n : Within(at(k), m + 29 * k)}
<1>1. /\ b \in Nat /\ Width \in Nat /\ Width >= 32 /\ 100 * b <= 30 * Width
      /\ Height \in Nat /\ Amplitude \in Nat /\ 32 * Amplitude <= Width
  BY WaterDrawn, MapSizes
<1>2. CoastalTile \in Tiles /\ IsAt(InlandTile, Width - 3, InlandY)
  BY TheTilesAre DEF IsAt
<1>3. PICK corner : IsAt(corner, Width - 3, c) /\ Within(corner, m)
  BY RowIsReached
<1> HIDE DEF b, c
<1>4. /\ c \in 0 .. Height - 1 /\ InlandY \in 0 .. Height - 1 /\ c < InlandY
  BY RowsFit DEF c
<1>5. n \in Nat /\ c \in Nat /\ InlandY = c + n /\ m \in Int
  BY <1>1, <1>4
<1>6. \A k \in 0 .. n : IsAt(at(k), Width - 3, c + k)
  <2> SUFFICES ASSUME NEW k \in 0 .. n PROVE IsAt(at(k), Width - 3, c + k)
    OBVIOUS
  <2>1. Width - 3 \in 0 .. Width - 1
    BY <1>1
  <2>2. c + k \in 0 .. Height - 1
    BY <1>1, <1>4, <1>5
  <2> QED
    BY <2>1, <2>2, TileExists
<1> HIDE DEF m
<1>7. 0 \in P
  <2>1. 0 \in 0 .. n /\ c + 0 = c /\ m + 29 * 0 = m
    BY <1>5
  <2>2. IsAt(at(0), Width - 3, c + 0)
    BY <1>6, <2>1
  <2>3. at(0) = corner
    BY <1>3, <2>1, <2>2, AtSameTile
  <2> HIDE DEF at
  <2>4. Within(at(0), m + 29 * 0)
    BY <1>3, <2>1, <2>3
  <2> QED
    BY <2>1, <2>4
<1>8. ASSUME NEW k \in 0 .. n, k # n, k \in P PROVE k + 1 \in P
  <2> DEFINE s == at(k)
             t == at(k + 1)
  <2>1. k \in Int /\ k + 1 \in 0 .. n /\ c + (k + 1) = c + k + 1
    BY <1>5, <1>8
  <2>2. IsAt(s, Width - 3, c + k) /\ IsAt(t, Width - 3, c + (k + 1))
    BY <1>6, <2>1
  <2>3. Within(s, m + 29 * k)
    BY <1>8
  <2> HIDE DEF s, t
  <2>4. Manhattan(s, t) = 1
    <3>1. Manhattan(s, t) = Apart(Width - 3, Width - 3) + Apart(c + k, c + (k + 1))
      BY <2>2, AtApart
    <3> QED
      BY <1>1, <1>5, <2>1, <3>1 DEF Apart
  <2>5. t \in Neighbors(s)
    BY <2>2, <2>4, ManhattanIs DEF IsAt
  <2>6. ~IsWater(t)
    <3> DEFINE ww == WaterWidth(c + (k + 1))
    <3>1. (IsWater(t) <=> Width - 3 < ww) /\ ww \in b - Amplitude .. b + Amplitude
      BY <2>2, AtIsWater DEF b
    <3> HIDE DEF ww
    <3> QED
      BY <1>1, <3>1
  <2>7. world.terrain[t] # "WATER"
    BY <2>2, <2>6 DEF Charted, IsAt
  <2>8. m + 29 * k \in Int /\ m + 29 * k + 29 = m + 29 * (k + 1)
        /\ m + 29 * k + 29 < Unreached
    BY <1>1, <1>4, <1>5, <2>1, FarEnough DEF m
  <2>9. Within(t, m + 29 * (k + 1))
    <3>1. Within(t, m + 29 * k + 29)
      BY <1>2, <2>3, <2>5, <2>7, <2>8, OneStepFurther
    <3> QED
      BY <2>8, <3>1
  <2> QED
    BY <2>1, <2>9 DEF t
<1>9. n \in P
  <2> HIDE DEF P, n
  <2> QED
    BY <1>5, <1>7, <1>8, StepsGoOn
<1>10. IsAt(at(n), Width - 3, c + n) /\ Within(at(n), m + 29 * n)
  BY <1>5, <1>6, <1>9
<1>11. at(n) = InlandTile
  BY <1>2, <1>5, <1>10, AtSameTile
<1> QED
  BY <1>10, <1>11 DEF Within

-----------------------------------------------------------------------------
(* The way back falls from step to step, so that it neither meets nor      *)
(* touches itself and comes to an end.                                     *)
Downward(w) ==
  \A i \in 1 .. Len(w) : i # Len(w) =>
    /\ w[i + 1] \in Neighbors(w[i])
    /\ \A s \in Neighbors(w[i]) : Distances[w[i + 1]] <= Distances[s]
    /\ Distances[w[i + 1]] < Distances[w[i]]
Trod(w) ==
  /\ w \in Ways /\ w[1] = InlandTile /\ Downward(w)
  /\ \A i \in 1 .. Len(w) : Distances[w[i]] # Unreached
  /\ Cardinality(TilesOf(w) \cap world.river) <= 2

LEMMA DownwardFalls ==
  ASSUME Surveyed, CoastalTile \in Tiles, NEW w \in Ways, Downward(w),
         NEW i \in 1 .. Len(w), NEW j \in 1 .. Len(w), i < j
  PROVE  Distances[w[j]] < Distances[w[i]]
<1> DEFINE n == j - i - 1
           P == {k \in 0 .. n : Distances[w[i + 1 + k]] < Distances[w[i]]}
<1>1. w \in Seq(Tiles) /\ Len(w) \in Nat /\ n \in Nat /\ i + 1 + n = j
  BY DEF Ways
<1>2. Distances \in Fields /\ Unreached \in Nat
  BY StartIsNear, UnreachedIs
<1>3. \A k \in 1 .. Len(w) : Distances[w[k]] \in Int
  BY <1>1, <1>2 DEF Fields
<1>4. 0 \in P
  <2>1. i # Len(w) /\ i + 1 + 0 = i + 1 /\ 0 \in 0 .. n
    BY <1>1
  <2> QED
    BY <2>1 DEF Downward
<1>5. ASSUME NEW k \in 0 .. n, k # n, k \in P PROVE k + 1 \in P
  <2> DEFINE h == i + 1 + k
  <2>1. h \in 1 .. Len(w) /\ h + 1 \in 1 .. Len(w) /\ h # Len(w) /\ k + 1 \in 0 .. n
        /\ i + 1 + (k + 1) = h + 1
    BY <1>1, <1>5
  <2>2. Distances[w[h]] < Distances[w[i]]
    BY <1>5
  <2> HIDE DEF h
  <2>3. Distances[w[h + 1]] < Distances[w[h]]
    BY <2>1 DEF Downward
  <2> DEFINE p == Distances[w[h + 1]]
             q == Distances[w[h]]
             r == Distances[w[i]]
  <2>4. p \in Int /\ q \in Int /\ r \in Int
    BY <1>3, <2>1
  <2> HIDE DEF p, q, r
  <2>5. p < r
    BY <2>2, <2>3, <2>4 DEF p, q, r
  <2> QED
    BY <2>1, <2>5 DEF p, r
<1>6. n \in P
  <2> HIDE DEF P, n
  <2> QED
    BY <1>1, <1>4, <1>5, StepsGoOn
<1>7. Distances[w[i + 1 + n]] < Distances[w[i]]
  BY <1>6
<1> HIDE DEF n
<1> QED
  BY <1>1, <1>7

LEMMA EachOnce ==
  ASSUME NEW w \in Seq(Tiles), \A i, j \in 1 .. Len(w) : w[i] = w[j] => i = j
  PROVE  Cardinality(TilesOf(w)) = Len(w) /\ TilesOf(w) \subseteq Tiles
<1> DEFINE n == Len(w)
           on == TilesOf(w)
           g == [i \in 1 .. n |-> w[i]]
<1>0. n \in Nat /\ on = {w[i] : i \in 1 .. n} /\ on \subseteq Tiles
  BY DEF TilesOf
<1> HIDE DEF on, n
<1>1. g \in [1 .. n -> on]
  BY <1>0
<1>2. \A i, j \in 1 .. n : g[i] = g[j] => i = j
  BY DEF n
<1>3. \A e \in on : \E i \in 1 .. n : g[i] = e
  BY <1>0
<1> HIDE DEF g
<1>4. g \in Bijection(1 .. n, on)
  BY <1>1, <1>2, <1>3 DEF Bijection, Injection, Surjection, IsInjective
<1>5. ExistsBijection(1 .. n, on)
  BY <1>4 DEF ExistsBijection
<1>6. IsFiniteSet(1 .. n) /\ Cardinality(1 .. n) = n
  BY <1>0, FS_Interval
<1>7. Cardinality(1 .. n) = Cardinality(on)
  BY <1>5, <1>6, FS_Bijection
<1> QED
  BY <1>0, <1>6, <1>7 DEF n, on

LEMMA DownwardIsLine ==
  ASSUME Surveyed, CoastalTile \in Tiles, NEW w \in Ways, Downward(w)
  PROVE  /\ Line(TilesOf(w), w) /\ TilesOf(w) \subseteq Tiles
         /\ Cardinality(TilesOf(w)) = Len(w) /\ Len(w) <= Width * Height
<1> DEFINE n == Len(w)
           d(i) == Distances[w[i]]
<1>1. w \in Seq(Tiles) /\ n \in Nat
  BY DEF Ways
<1>2. Distances \in Fields /\ Unreached \in Nat
  BY StartIsNear, UnreachedIs
<1>3. \A i \in 1 .. n : d(i) \in Int /\ w[i] \in Tiles
  BY <1>1, <1>2 DEF Fields
<1>4. \A i, j \in 1 .. n : i < j => d(j) < d(i)
  BY DownwardFalls
<1>5. \A i \in 1 .. n : i # n => w[i + 1] \in Neighbors(w[i])
  BY DEF Downward
<1>6. \A i \in 1 .. n : i # n => \A s \in Neighbors(w[i]) : d(i + 1) <= Distances[s]
  BY DEF Downward
<1> HIDE DEF d, n
<1>7. \A i, j \in 1 .. n : w[i] = w[j] => i = j
  <2> SUFFICES ASSUME NEW i \in 1 .. n, NEW j \in 1 .. n, w[i] = w[j] PROVE i = j
    OBVIOUS
  <2>1. d(i) = d(j) /\ d(i) \in Int
    BY <1>3 DEF d
  <2>2. ~(i < j) /\ ~(j < i)
    BY <1>4, <2>1
  <2> QED
    BY <1>1, <2>2
<1>8. ASSUME NEW i \in 1 .. n, NEW j \in 1 .. n, i < j
      PROVE  w[j] \in Neighbors(w[i]) <=> j = i + 1
  <2>1. i # n /\ i + 1 \in 1 .. n
    BY <1>1, <1>8
  <2>2. j = i + 1 => w[j] \in Neighbors(w[i])
    BY <1>5, <2>1
  <2>3. ASSUME w[j] \in Neighbors(w[i]) PROVE j = i + 1
    <3>1. d(i + 1) <= d(j)
      BY <1>6, <2>1, <2>3 DEF d
    <3>2. d(i + 1) \in Int /\ d(j) \in Int
      BY <1>3, <2>1
    <3>3. ~(i + 1 < j)
      <4> SUFFICES ASSUME i + 1 < j PROVE FALSE
        OBVIOUS
      <4>1. d(j) < d(i + 1)
        BY <1>4, <2>1
      <4> QED
        BY <3>1, <3>2, <4>1
    <3> QED
      BY <1>1, <1>8, <3>3
  <2> QED
    BY <2>2, <2>3
<1>9. \A i, j \in 1 .. n : w[j] \in Neighbors(w[i]) <=> j = i + 1 \/ i = j + 1
  <2> SUFFICES ASSUME NEW i \in 1 .. n, NEW j \in 1 .. n
               PROVE  w[j] \in Neighbors(w[i]) <=> j = i + 1 \/ i = j + 1
    OBVIOUS
  <2>0. w[i] \in Tiles /\ w[j] \in Tiles
    BY <1>3
  <2>1. CASE i < j
    <3>1. i # j + 1
      BY <1>1, <2>1
    <3> QED
      BY <1>8, <2>1, <3>1
  <2>2. CASE j < i
    <3>1. j # i + 1
      BY <1>1, <2>2
    <3>2. w[i] \in Neighbors(w[j]) <=> i = j + 1
      BY <1>8, <2>2
    <3>3. w[i] \in Neighbors(w[j]) <=> w[j] \in Neighbors(w[i])
      BY <2>0, NeighborsAre
    <3> QED
      BY <3>1, <3>2, <3>3
  <2>3. CASE i = j
    <3>1. j # i + 1 /\ i # j + 1
      BY <1>1, <2>3
    <3>2. w[j] \notin Neighbors(w[i])
      BY <2>0, <2>3, NeighborsAre
    <3> QED
      BY <3>1, <3>2
  <2>4. i < j \/ j < i \/ i = j
    BY <1>1
  <2> QED
    BY <2>1, <2>2, <2>3, <2>4
<1>10. Cardinality(TilesOf(w)) = n /\ TilesOf(w) \subseteq Tiles
  BY <1>1, <1>7, EachOnce DEF n
<1>11. TilesOf(w) = {w[i] : i \in 1 .. n}
  BY DEF TilesOf, n
<1>12. w \in Seq(TilesOf(w)) /\ \A t \in TilesOf(w) : \E i \in 1 .. n : w[i] = t
  BY <1>1, <1>11 DEF n
<1>13. Line(TilesOf(w), w)
  BY <1>7, <1>9, <1>10, <1>12 DEF Line, n
<1>14. n <= Width * Height
  <2> DEFINE m == Width * Height
  <2>1. IsFiniteSet(Tiles) /\ m \in Nat /\ Tiles = 0 .. m - 1
    BY MapIs
  <2> HIDE DEF m
  <2>2. Cardinality(Tiles) = m
    <3>1. Cardinality(0 .. m - 1) = m
      BY <2>1, FS_Interval
    <3> QED
      BY <2>1, <3>1
  <2>3. Cardinality(TilesOf(w)) <= Cardinality(Tiles)
    BY <1>10, <2>1, SubsetIsSmaller
  <2> QED
    BY <1>10, <2>2, <2>3 DEF m
<1> QED
  BY <1>10, <1>13, <1>14 DEF n

LEMMA PreviousFalls ==
  ASSUME Surveyed, CoastalTile \in Tiles, NEW t \in Tiles, t # CoastalTile,
         Distances[t] # Unreached, NEW p, p = Previous(Distances, t)
  PROVE  /\ p \in Tiles /\ p \in Neighbors(t) /\ Distances[p] # Unreached
         /\ \A s \in Neighbors(t) : Distances[p] <= Distances[s]
         /\ Distances[p] < Distances[t]
<1>1. Distances \in Fields /\ Unreached \in Nat
  BY StartIsNear, UnreachedIs
<1>2. /\ p \in Neighbors(t) /\ p \in Tiles
      /\ \A s \in Neighbors(t) : Distances[p] <= Distances[s]
  BY <1>1, PreviousIs
<1>3. PICK s \in Neighbors(t) :
        Distances[s] # Unreached /\ Distances[t] = Distances[s] + TerrainCost[t]
  BY LastStep
<1>4. s \in Tiles
  BY NeighborsAre
<1>5. TerrainCost[t] \in 1 .. 29
  <2>1. TerrainCost[t] # Unreached
    BY LastStep
  <2> QED
    BY <2>1, CostsAre
<1> DEFINE a == Distances[p]
           b == Distances[t]
           c == Distances[s]
           e == TerrainCost[t]
<1>6. a \in 0 .. Unreached /\ b \in 0 .. Unreached /\ c \in 0 .. Unreached
  BY <1>1, <1>2, <1>4 DEF Fields
<1>7. a <= c /\ b = c + e /\ e \in 1 .. 29
  BY <1>2, <1>3, <1>5
<1> HIDE DEF a, b, c, e
<1>8. a < b /\ a # Unreached
  BY <1>1, <1>6, <1>7
<1> QED
  BY <1>2, <1>8 DEF a, b

Longer(v, w, t) ==
  /\ v \in Seq(Tiles) /\ Len(v) = Len(w) + 1 /\ v[Len(w) + 1] = t
  /\ Len(w) \in Nat /\ \A i \in 1 .. Len(w) : v[i] = w[i]
  /\ TilesOf(v) = TilesOf(w) \cup {t}

LEMMA OneMore ==
  ASSUME NEW w \in Seq(Tiles), NEW t \in Tiles
  PROVE  Longer(Append(w, t), w, t)
<1> DEFINE v == Append(w, t)
<1>1. /\ v \in Seq(Tiles) /\ Len(v) = Len(w) + 1 /\ v[Len(w) + 1] = t
      /\ Len(w) \in Nat /\ \A i \in 1 .. Len(w) : v[i] = w[i]
  OBVIOUS
<1> HIDE DEF v
<1> DEFINE n == Len(w)
<1>2. /\ TilesOf(v) = {v[i] : i \in 1 .. n + 1} /\ TilesOf(w) = {w[i] : i \in 1 .. n}
  BY <1>1 DEF TilesOf
<1>3. n \in Nat /\ v[n + 1] = t /\ \A i \in 1 .. n : v[i] = w[i]
  BY <1>1
<1> HIDE DEF n
<1>4. TilesOf(v) \subseteq TilesOf(w) \cup {t}
  <2> SUFFICES ASSUME NEW i \in 1 .. n + 1 PROVE v[i] \in TilesOf(w) \cup {t}
    BY <1>2
  <2>1. i = n + 1 \/ i \in 1 .. n
    BY <1>3
  <2> QED
    BY <1>2, <1>3, <2>1
<1>5. TilesOf(w) \cup {t} \subseteq TilesOf(v)
  <2>1. n + 1 \in 1 .. n + 1 /\ \A i \in 1 .. n : i \in 1 .. n + 1
    BY <1>3
  <2> QED
    BY <1>2, <1>3, <2>1
<1>6. Longer(v, w, t)
  BY <1>1, <1>4, <1>5 DEF Longer
<1> QED
  BY <1>6 DEF v

LEMMA TrodStep ==
  ASSUME Surveyed, CoastalTile \in Tiles, NEW w, Trod(w),
         NEW v, v = BackStep(Distances, w)
  PROVE  /\ Trod(v)
         /\ Stops(v) \/ Len(v) = Len(w) + 1
<1>1. CASE Stops(w)
  BY <1>1 DEF BackStep
<1>2. CASE ~Stops(w)
  <2> DEFINE n == Len(w)
             t == w[n]
             p == Previous(Distances, t)
  <2>1. v = Append(w, p)
    BY <1>2 DEF BackStep
  <2>2. w \in Seq(Tiles) /\ n \in Nat /\ n >= 1
    BY DEF Trod, Ways
  <2>3. t \in Tiles /\ t # CoastalTile /\ Distances[t] # Unreached
        /\ ~(Cardinality(TilesOf(w) \cap world.river) > 1)
    BY <1>2, <2>2 DEF Trod, Stops
  <2> HIDE DEF p
  <2>4. /\ p \in Tiles /\ p \in Neighbors(t) /\ Distances[p] # Unreached
        /\ \A s \in Neighbors(t) : Distances[p] <= Distances[s]
        /\ Distances[p] < Distances[t]
    BY <2>3, PreviousFalls DEF p
  <2>5. /\ v \in Seq(Tiles) /\ Len(v) = n + 1 /\ v[n + 1] = p
        /\ \A i \in 1 .. n : v[i] = w[i]
        /\ TilesOf(v) = TilesOf(w) \cup {p}
    <3>1. Longer(Append(w, p), w, p)
      BY <2>2, <2>4, OneMore
    <3>2. Longer(v, w, p)
      BY <2>1, <3>1
    <3> QED
      BY <3>2 DEF Longer
  <2>6. v[1] = InlandTile
    <3>1. 1 \in 1 .. n
      BY <2>2
    <3> QED
      BY <2>5, <3>1 DEF Trod
  <2>7. \A i \in 1 .. Len(v) : Distances[v[i]] # Unreached
    <3> SUFFICES ASSUME NEW i \in 1 .. Len(v) PROVE Distances[v[i]] # Unreached
      OBVIOUS
    <3>1. i \in 1 .. n \/ i = n + 1
      BY <2>2, <2>5
    <3>2. CASE i \in 1 .. n
      <4>1. Distances[w[i]] # Unreached
        BY <3>2 DEF Trod
      <4> QED
        BY <2>5, <3>2, <4>1
    <3> QED
      BY <2>4, <2>5, <3>1, <3>2
  <2>8. Downward(v)
    <3> SUFFICES ASSUME NEW i \in 1 .. Len(v), i # Len(v)
                 PROVE  /\ v[i + 1] \in Neighbors(v[i])
                        /\ \A s \in Neighbors(v[i]) : Distances[v[i + 1]] <= Distances[s]
                        /\ Distances[v[i + 1]] < Distances[v[i]]
      BY DEF Downward
    <3>1. i \in 1 .. n
      BY <2>2, <2>5
    <3>2. CASE i = n
      BY <2>4, <2>5, <3>1, <3>2
    <3>3. CASE i # n
      <4>1. i + 1 \in 1 .. n
        BY <2>2, <3>1, <3>3
      <4>2. v[i] = w[i] /\ v[i + 1] = w[i + 1]
        BY <2>5, <3>1, <4>1
      <4>3. Downward(w)
        BY DEF Trod
      <4> QED
        BY <3>1, <3>3, <4>2, <4>3 DEF Downward
    <3> QED
      BY <3>2, <3>3
  <2>9. Cardinality(TilesOf(v) \cap world.river) <= 2
    <3> DEFINE A == TilesOf(w) \cap world.river
               B == TilesOf(v) \cap world.river
    <3>1. TilesOf(w) \subseteq Tiles
      BY <2>2 DEF TilesOf
    <3>2. IsFiniteSet(A) /\ Cardinality(A) \in Nat
      BY <3>1, CountIs
    <3>3. Cardinality(A) <= 1
      BY <2>3, <3>2
    <3>4. B \subseteq A \cup {p}
      BY <2>5
    <3> HIDE DEF A, B
    <3>5. /\ IsFiniteSet(A \cup {p})
          /\ Cardinality(A \cup {p}) = IF p \in A THEN Cardinality(A) ELSE Cardinality(A) + 1
      BY <3>2, FS_AddElement
    <3>6. Cardinality(B) <= Cardinality(A \cup {p}) /\ Cardinality(B) \in Nat
      BY <3>4, <3>5, SubsetIsSmaller
    <3>7. Cardinality(B) <= 2
      BY <3>2, <3>3, <3>5, <3>6
    <3> QED
      BY <3>7 DEF B
  <2>10. v \in Ways
    BY <2>2, <2>5 DEF Ways
  <2> QED
    BY <2>5, <2>6, <2>7, <2>8, <2>9, <2>10 DEF Trod
<1> QED
  BY <1>1, <1>2

LEMMA WayBackEnds ==
  ASSUME Surveyed, CoastalTile \in Tiles, InlandTile \in Tiles,
         Distances[InlandTile] # Unreached
  PROVE  Trod(WayBack(Distances)) /\ Stops(WayBack(Distances))
<1>1. Distances \in Fields
  BY StartIsNear
<1>2. PICK way \in [Nat -> Ways] :
        /\ way[0] = <<InlandTile>>
        /\ \A n \in Nat : way[n + 1] = BackStep(Distances, way[n])
        /\ WayBack(Distances) = way[Width * Height]
  BY <1>1, WayBackIs
<1> DEFINE N == Width * Height
           P == {k \in 0 .. N : Trod(way[k]) /\ (Stops(way[k]) \/ Len(way[k]) = k + 1)}
<1>3. N \in Nat
  BY MapIs
<1>4. 0 \in P
  <2> DEFINE w == <<InlandTile>>
  <2>1. Len(w) = 1 /\ w[1] = InlandTile /\ w \in Ways
    BY DEF Ways
  <2>2. TilesOf(w) = {InlandTile}
    BY DEF TilesOf
  <2> HIDE DEF w
  <2>3. \A i \in 1 .. Len(w) : i = 1
    BY <2>1
  <2>4. Downward(w)
    BY <2>1, <2>3 DEF Downward
  <2>5. \A i \in 1 .. Len(w) : Distances[w[i]] # Unreached
    BY <2>1, <2>3
  <2>6. Cardinality(TilesOf(w) \cap world.river) <= 2
    <3>1. IsFiniteSet({InlandTile}) /\ Cardinality({InlandTile}) = 1
      BY FS_Singleton
    <3>2. TilesOf(w) \cap world.river \in SUBSET {InlandTile}
      BY <2>2
    <3>3. /\ Cardinality(TilesOf(w) \cap world.river) \in Nat
          /\ Cardinality(TilesOf(w) \cap world.river) <= Cardinality({InlandTile})
      BY <3>1, <3>2, SubsetIsSmaller
    <3> QED
      BY <3>1, <3>3
  <2>7. Trod(w)
    BY <2>1, <2>4, <2>5, <2>6 DEF Trod
  <2>8. way[0] = w
    BY <1>2 DEF w
  <2>9. 0 \in 0 .. N /\ Len(way[0]) = 0 + 1
    BY <1>3, <2>1, <2>8
  <2> QED
    BY <2>7, <2>8, <2>9
<1>5. ASSUME NEW k \in 0 .. N, k # N, k \in P PROVE k + 1 \in P
  <2> DEFINE w == way[k]
             v == way[k + 1]
  <2>1. k \in Nat /\ k + 1 \in 0 .. N
    BY <1>3, <1>5
  <2>2. v = BackStep(Distances, w)
    BY <1>2, <2>1
  <2>3. Trod(w) /\ (Stops(w) \/ Len(w) = k + 1)
    BY <1>5
  <2> HIDE DEF w, v
  <2>4. Trod(v) /\ (Stops(v) \/ Len(v) = Len(w) + 1)
    BY <2>2, <2>3, TrodStep
  <2>5. Stops(w) => v = w
    BY <2>2 DEF BackStep
  <2>6. Stops(v) \/ Len(v) = k + 1 + 1
    BY <2>3, <2>4, <2>5
  <2> QED
    BY <2>1, <2>4, <2>6 DEF v
<1>6. N \in P
  <2> HIDE DEF P, N
  <2> QED
    BY <1>3, <1>4, <1>5, StepsGoOn
<1> DEFINE w == way[N]
<1>7. Trod(w) /\ (Stops(w) \/ Len(w) = N + 1) /\ WayBack(Distances) = w
  BY <1>2, <1>6
<1> HIDE DEF w, P
<1>8. Len(w) <= N /\ Len(w) \in Nat
  <2>1. w \in Ways /\ Downward(w)
    BY <1>7 DEF Trod
  <2>2. Len(w) <= Width * Height
    BY <2>1, DownwardIsLine
  <2> QED
    BY <2>1, <2>2 DEF Ways
<1> HIDE DEF N
<1>9. Len(w) # N + 1
  BY <1>3, <1>8
<1> QED
  BY <1>7, <1>9

(* The road, laid along the way back.                                      *)
RoadLine(w, p) ==
  /\ Line(w.road, p) /\ Len(p) \in Nat /\ Len(p) >= 2
  /\ p[1] = InlandTile /\ p[Len(p)] = CoastalTile
Roaded(w) ==
  /\ w.road \subseteq Tiles /\ \E p : RoadLine(w, p)
  /\ \A t \in w.road : ~IsWater(t)
  /\ Cardinality(w.road \cap w.river) <= 1 /\ w.crossings = w.road \cap w.river
  /\ w.road_tile_count = Cardinality(w.road)
  /\ w.region = Founded(w.river_tile_count, w.road_tile_count)
Mature(w) ==
  Charted(w) /\ Carved(w) /\ Damp(w) /\ Supplied(w) /\ Settled(w)

SameLand(v, w) ==
  /\ v.terrain = w.terrain /\ v.elevation = w.elevation
  /\ v.river = w.river /\ v.outlets = w.outlets
  /\ v.river_tile_count = w.river_tile_count
  /\ v.settlement_id = w.settlement_id /\ v.entities = w.entities
  /\ v.unknown = w.unknown /\ v.soaked = w.soaked
  /\ v.land_tile_count = w.land_tile_count

LEMMA LandKept ==
  ASSUME NEW w, Mature(w), NEW v, v \in Worlds, SameLand(v, w)
  PROVE  Mature(v)
<1>1. Charted(v)
  BY Zenon DEF Mature, Charted, SameLand
<1>2. Carved(v)
  BY DEF Mature, Carved, SameLand
<1>3. Supplied(v)
  BY DEF Mature, Supplied, SameLand
<1>4. Settled(v)
  BY Zenon DEF Mature, Settled, SameLand
<1>5. Damp(v)
  <2> SUFFICES ASSUME NEW t \in Tiles, StrayWetland(v, t) PROVE FALSE
    BY DEF Damp
  <2>1. StrayWetland(w, t)
    <3>1. v.terrain = w.terrain /\ v.river = w.river
      BY DEF SameLand
    <3> QED
      BY <3>1 DEF StrayWetland, AdjacentTerrain
  <2> QED
    BY <2>1 DEF Mature, Damp
<1> QED
  BY <1>1, <1>2, <1>3, <1>4, <1>5 DEF Mature

(* A tile the search has reached is land.                                  *)
LEMMA ReachedIsLand ==
  ASSUME choice \in Choices, Charted(world), Surveyed, NEW t \in Tiles,
         Distances[t] # Unreached
  PROVE  ~IsWater(t)
<1>1. Placing /\ CoastalTile \in Tiles
  BY TilesPlaced, TheTilesAre DEF IsAt
<1>2. CASE t = CoastalTile
  BY <1>1, <1>2 DEF Placing
<1>3. CASE t # CoastalTile
  <2>1. TerrainCost[t] # Unreached
    BY <1>1, <1>3, LastStep
  <2>2. world.terrain[t] # "WATER"
    BY <2>1, CostsAre
  <2> QED
    BY <2>2 DEF Charted
<1> QED
  BY <1>2, <1>3

LEMMA RoadRuns ==
  ASSUME choice \in Choices, Mature(world), world.region = Founded(0, 0), Surveyed,
         ConstructRoad
  PROVE  /\ UNCHANGED <<report, choice, raised>>
         /\ \/ /\ phase' = "ROAD_CORRIDOR"
               /\ Cardinality(world'.road \cap world'.river) = 2
            \/ phase' = "validate" /\ Mature(world') /\ Roaded(world')
<1> DEFINE way == WayBack(Distances)
           on == TilesOf(way)
           count == Len(way)
           crossings == on \cap world.river
           region == [[world.region EXCEPT
                         !.river_tile_count = world.river_tile_count]
                       EXCEPT !.road_tile_count = count]
<1>1. Charted(world) /\ world \in Worlds /\ Placing
  BY TilesPlaced DEF Mature, Charted
<1>2. CoastalTile \in Tiles /\ InlandTile \in Tiles
  BY TheTilesAre DEF IsAt
<1>3. Distances[InlandTile] # Unreached
  BY <1>1, InlandIsReached
<1>4. Trod(way) /\ Stops(way)
  BY <1>2, <1>3, WayBackEnds
<1>5. way \in Ways /\ Downward(way)
  BY <1>4 DEF Trod
<1>6. /\ Line(on, way) /\ on \subseteq Tiles
      /\ Cardinality(on) = count
  BY <1>2, <1>5, DownwardIsLine
<1>7. way \in Seq(Tiles) /\ count \in Nat /\ count >= 1
  BY <1>5 DEF Ways
<1>8. \A t \in on : ~IsWater(t)
  <2> SUFFICES ASSUME NEW t \in on PROVE ~IsWater(t)
    OBVIOUS
  <2>1. PICK i \in 1 .. count : t = way[i]
    BY DEF TilesOf
  <2>2. Distances[t] # Unreached
    BY <1>4, <2>1 DEF Trod
  <2> QED
    BY <1>1, <1>6, <2>2, ReachedIsLand
<1>9. Cardinality(crossings) \in Nat /\ Cardinality(crossings) <= 2
  BY <1>4, <1>6, CountIs DEF Trod
<1>10. /\ UNCHANGED <<report, choice, raised>>
       /\ \/ /\ Cardinality(crossings) > 1
             /\ phase' = "ROAD_CORRIDOR" /\ world' = [world EXCEPT !.road = on]
          \/ /\ ~(Cardinality(crossings) > 1) /\ phase' = "validate"
             /\ world' = [world EXCEPT
                  !.road = on, !.crossings = crossings,
                  !.road_tile_count = count,
                  !.region.river_tile_count = world.river_tile_count,
                  !.region.road_tile_count = count]
  BY <1>3 DEF ConstructRoad
<1>11. CASE /\ Cardinality(crossings) > 1
            /\ phase' = "ROAD_CORRIDOR" /\ world' = [world EXCEPT !.road = on]
  <2> HIDE DEF on
  <2>1. world'.road = on /\ world'.river = world.river
    BY <1>1, <1>11 DEF Worlds
  <2>2. Cardinality(crossings) = 2
    <3> DEFINE n == Cardinality(crossings)
    <3>1. n \in Nat /\ n <= 2 /\ n > 1
      BY <1>9, <1>11
    <3> HIDE DEF n
    <3>2. n = 2
      BY <3>1
    <3> QED
      BY <3>2 DEF n
  <2> QED
    BY <1>10, <1>11, <2>1, <2>2
<1>12. CASE /\ ~(Cardinality(crossings) > 1) /\ phase' = "validate"
            /\ world' = [world EXCEPT
                 !.road = on, !.crossings = crossings,
                 !.road_tile_count = count,
                 !.region.river_tile_count = world.river_tile_count,
                 !.region.road_tile_count = count]
  <2>1. way[count] = CoastalTile
    BY <1>4, <1>12 DEF Stops
  <2>2. way[1] = InlandTile
    BY <1>4 DEF Trod
  <2>3. CoastalTile # InlandTile
    BY <1>1 DEF Placing
  <2>4. count >= 2
    <3>1. count # 1
      BY <2>1, <2>2, <2>3
    <3>2. count \in Nat /\ count >= 1
      BY <1>7
    <3> HIDE DEF count
    <3> QED
      BY <3>1, <3>2
  <2>5. Cardinality(crossings) <= 1
    <3> DEFINE n == Cardinality(crossings)
    <3>1. n \in Nat /\ ~(n > 1)
      BY <1>9, <1>12
    <3> HIDE DEF n
    <3>2. n <= 1
      BY <3>1
    <3> QED
      BY <3>2 DEF n
  <2> DEFINE v == world'
             rivers == world.river_tile_count
  <2>6. crossings \subseteq Tiles /\ region \in Regions /\ region = Founded(rivers, count)
    <3>1. crossings \subseteq Tiles
      BY <1>6
    <3>2. world.region \in Regions /\ rivers \in Nat
      BY <1>1 DEF Worlds
    <3>3. region \in Regions
      <4> HIDE DEF count, rivers
      <4> QED
        BY <1>7, <3>2 DEF Regions, rivers
    <3>4. region = Founded(rivers, count)
      <4> DEFINE p == <<2, 3>>
                 q == <<5, 6>>
                 a == Course[1]
                 c == CoastalTile
                 d == InlandTile
                 r == world.region
      <4>1. r = [id |-> 1, political_owner_id |-> 4, settlement_ids |-> p,
                 foreign_faction_ids |-> q, river_outlet_tile_id |-> a,
                 road_start_tile_id |-> c, road_end_tile_id |-> d,
                 river_tile_count |-> 0, road_tile_count |-> 0]
        BY DEF Founded
      <4>2. region = [[r EXCEPT !.river_tile_count = rivers]
                        EXCEPT !.road_tile_count = count]
        OBVIOUS
      <4>3. Founded(rivers, count) =
              [id |-> 1, political_owner_id |-> 4, settlement_ids |-> p,
               foreign_faction_ids |-> q, river_outlet_tile_id |-> a,
               road_start_tile_id |-> c, road_end_tile_id |-> d,
               river_tile_count |-> rivers, road_tile_count |-> count]
        BY DEF Founded
      <4> DEFINE r1 == [r EXCEPT !.river_tile_count = rivers]
                 r2 == [r1 EXCEPT !.road_tile_count = count]
      <4> HIDE DEF p, q, a, c, d, r, rivers, count
      <4>4. r1 = [id |-> 1, political_owner_id |-> 4, settlement_ids |-> p,
                  foreign_faction_ids |-> q, river_outlet_tile_id |-> a,
                  road_start_tile_id |-> c, road_end_tile_id |-> d,
                  river_tile_count |-> rivers, road_tile_count |-> 0]
        BY <4>1
      <4>5. region = r2
        BY <4>2
      <4> HIDE DEF r1
      <4>6. r2 = [id |-> 1, political_owner_id |-> 4, settlement_ids |-> p,
                  foreign_faction_ids |-> q, river_outlet_tile_id |-> a,
                  road_start_tile_id |-> c, road_end_tile_id |-> d,
                  river_tile_count |-> rivers, road_tile_count |-> count]
        BY <4>4
      <4> HIDE DEF r2
      <4> QED
        BY <4>3, <4>5, <4>6
    <3> QED
      BY <3>1, <3>3, <3>4
  <2> HIDE DEF on, count, way
  <2>7. world' = [world EXCEPT !.road = on, !.crossings = crossings,
                               !.road_tile_count = count, !.region = region]
    BY <1>1, <1>12 DEF Worlds
  <2> HIDE DEF crossings, region
  <2>8. /\ v \in Worlds /\ SameLand(v, world)
        /\ v.road = on /\ v.crossings = crossings /\ v.road_tile_count = count
        /\ v.region = region
    BY <1>1, <1>6, <1>7, <2>6, <2>7 DEF Worlds, SameLand
  <2> HIDE DEF v
  <2>9. Mature(v)
    BY <2>8, LandKept
  <2>10. v.river = world.river /\ v.river_tile_count = rivers
    BY <2>8 DEF SameLand
  <2>11. RoadLine(v, way)
    BY <1>6, <1>7, <2>1, <2>2, <2>4, <2>8 DEF RoadLine, count
  <2>12. Roaded(v)
    <3>1. v.crossings = v.road \cap v.river /\ Cardinality(v.road \cap v.river) <= 1
      BY <2>5, <2>8, <2>10 DEF crossings
    <3>2. v.region = Founded(v.river_tile_count, v.road_tile_count)
      BY <2>6, <2>8, <2>10
    <3> QED
      BY <1>6, <1>8, <2>8, <2>11, <3>1, <3>2 DEF Roaded
  <2> QED
    BY <1>10, <1>12, <2>9, <2>12 DEF v
<1> QED
  BY <1>10, <1>11, <1>12

-----------------------------------------------------------------------------
(* What fd_world_validate finds of such a world.                           *)
LEMMA RegistryIs ==
  ASSUME NEW w, Settled(w)
  PROVE  /\ Coastal(w).at = CoastalTile /\ Inland(w).at = InlandTile
         /\ Coastal(w).kind = Kinds[2] /\ Inland(w).kind = Kinds[3]
         /\ Coastal(w).id = 2 /\ Inland(w).id = 3
         /\ \A i \in 1 .. 6 :
              /\ w.entities[i].id = i /\ w.entities[i].named
              /\ w.entities[i].region_id = 1
              /\ w.entities[i].owner_id = IF i \in {5, 6} THEN i ELSE 4
              /\ w.entities[i].kind = Kinds[i]
              /\ w.entities[i].at = IF i = 2 THEN CoastalTile
                                    ELSE IF i = 3 THEN InlandTile ELSE Nowhere
<1> DEFINE a == CoastalTile
           b == InlandTile
           owner(i) == IF i \in {5, 6} THEN i ELSE 4
           place(i) == CASE i = 2 -> a [] i = 3 -> b [] OTHER -> Nowhere
<1>1. w.entities = [i \in 1 .. 6 |->
        [id |-> i, kind |-> Kinds[i], region_id |-> 1, named |-> TRUE,
         owner_id |-> owner(i), at |-> place(i)]]
  BY DEF Settled, Registry
<1>2. ASSUME NEW i \in 1 .. 6
      PROVE  place(i) = IF i = 2 THEN a ELSE IF i = 3 THEN b ELSE Nowhere
  <2> HIDE DEF a, b
  <2>1. CASE i = 2
    BY <2>1
  <2>2. CASE i = 3
    BY <2>2
  <2>3. CASE i # 2 /\ i # 3
    BY <2>3
  <2> QED
    BY <2>1, <2>2, <2>3
<1> HIDE DEF a, b, owner, place
<1>3. ASSUME NEW i \in 1 .. 6
      PROVE  /\ w.entities[i].id = i /\ w.entities[i].named
             /\ w.entities[i].region_id = 1 /\ w.entities[i].owner_id = owner(i)
             /\ w.entities[i].kind = Kinds[i] /\ w.entities[i].at = place(i)
  BY <1>1
<1>4. ASSUME NEW i \in 1 .. 6
      PROVE  w.entities[i].at = IF i = 2 THEN CoastalTile
                                ELSE IF i = 3 THEN InlandTile ELSE Nowhere
  BY <1>2, <1>3 DEF a, b
<1>5. 2 \in 1 .. 6 /\ 3 \in 1 .. 6 /\ 3 # 2
  OBVIOUS
<1>6. /\ Coastal(w).at = CoastalTile /\ Inland(w).at = InlandTile
      /\ Coastal(w).kind = Kinds[2] /\ Inland(w).kind = Kinds[3]
      /\ Coastal(w).id = 2 /\ Inland(w).id = 3
  BY <1>3, <1>4, <1>5 DEF Coastal, Inland
<1> QED
  BY <1>3, <1>4, <1>6 DEF owner

LEMMA RoadHolds ==
  ASSUME choice \in Choices, NEW w, Mature(w), Roaded(w)
  PROVE  Road(w)
<1>1. PICK p : RoadLine(w, p)
  BY DEF Roaded
<1>2. /\ Line(w.road, p) /\ Len(p) \in Nat /\ Len(p) >= 2
      /\ p[1] = InlandTile /\ p[Len(p)] = CoastalTile
  BY <1>1 DEF RoadLine
<1>3. /\ w.road \subseteq Tiles /\ w.river = TilesOf(Course) /\ w.river \subseteq Tiles
  BY DEF Roaded, Mature, Carved, Charted, Worlds
<1>4. Coastal(w).at = CoastalTile /\ Inland(w).at = InlandTile
  BY RegistryIs DEF Mature
<1>5. Placing /\ CoastalTile \in Tiles /\ InlandTile \in Tiles
  BY TilesPlaced, TheTilesAre DEF IsAt
<1>6. /\ p \in Seq(w.road) /\ \A t \in w.road : \E i \in 1 .. Len(p) : p[i] = t
      /\ \A i, j \in 1 .. Len(p) : p[i] = p[j] => i = j
  BY <1>2 DEF Line
<1>7. 1 \in 1 .. Len(p) /\ Len(p) \in 1 .. Len(p)
  BY <1>2
<1>8. CoastalTile \in w.road /\ InlandTile \in w.road
  BY <1>2, <1>6, <1>7
<1>9. /\ \A i \in 1 .. Len(p) :
           Degree(w.road, p[i]) = IF i \in {1, Len(p)} THEN 1 ELSE 2
      /\ Ends(w.road) = {p[1], p[Len(p)]}
  BY <1>2, <1>3, LineDegrees
<1>10. Reach(CoastalTile, w.road) = w.road
  BY <1>2, <1>3, <1>8, LineIsReached
<1>11. ASSUME NEW t \in w.road
       PROVE  /\ Cardinality(Neighbors(t) \cap w.road) =
                   IF t \in {CoastalTile, InlandTile} THEN 1 ELSE 2
              /\ w.terrain[t] # "WATER"
  <2>1. PICK i \in 1 .. Len(p) : p[i] = t
    BY <1>6
  <2>2. t \in {CoastalTile, InlandTile} <=> i \in {1, Len(p)}
    BY <1>2, <1>6, <1>7, <2>1
  <2>3. Degree(w.road, t) = Cardinality(Neighbors(t) \cap w.road)
    BY <1>3, DegreeIs DEF Beside
  <2>4. Degree(w.road, t) = IF i \in {1, Len(p)} THEN 1 ELSE 2
    BY <1>9, <2>1
  <2>5. t \in Tiles /\ ~IsWater(t)
    BY <1>3 DEF Roaded
  <2>6. w.terrain[t] # "WATER"
    BY <2>5 DEF Mature, Charted
  <2> QED
    BY <2>2, <2>3, <2>4, <2>6
<1>12. OneRoad(w)
  <2>1. CoastalTile # InlandTile
    BY <1>5 DEF Placing
  <2>2. Cardinality(w.road \cap w.river) <= 1 /\ w.crossings = w.road \cap w.river
    BY DEF Roaded
  <2> QED
    BY <1>4, <1>8, <1>10, <1>11, <2>1, <2>2, Zenon DEF OneRoad
<1>13. OffTheRiver(w)
  <2>1. Ends(w.road) # {}
    BY <1>9
  <2>2. FirstEnd(w) \in {InlandTile, CoastalTile}
    BY <1>2, <1>3, <1>9, <2>1, FirstEndIs
  <2>3. FirstEnd(w) \notin w.river
    BY <1>3, <1>5, <2>2 DEF Placing
  <2> QED
    BY <2>3 DEF OffTheRiver, Roaded
<1>14. Mapped(w)
  BY <1>3, <1>4, <1>5 DEF Mapped
<1> QED
  BY <1>12, <1>13, <1>14, OneIsRoad

(* The nearest water: one column from the outlet and the settlement.       *)
LEMMA SeaIsBeside ==
  ASSUME choice \in Choices, NEW w, Charted(w),
         NEW t, NEW y \in {OutletY, CoastalY}, IsAt(t, BaseWater, y)
  PROVE  AdjacentTerrain(w, t, "WATER")
<1> DEFINE b == BaseWater
           s == TileAt(In(b - 1), y)
<1>1. b \in Nat /\ 30 * Width < 100 * b + 100 /\ Width \in Nat /\ Width >= 32
      /\ 100 * b <= 30 * Width /\ Height \in Nat
  BY WaterDrawn, MapSizes
<1> HIDE DEF b
<1>2. b - 1 \in 0 .. Width - 1 /\ b \in Int /\ b - 1 \in Int
  BY <1>1
<1>3. y \in 0 .. Height - 1 /\ y \in Int
  BY <1>1, RowsFit
<1>4. IsAt(s, b - 1, y) /\ IsAt(t, b, y)
  BY <1>2, <1>3, TileExists DEF b
<1> HIDE DEF s
<1>5. Manhattan(t, s) = Apart(b, b - 1) + Apart(y, y)
  BY <1>4, AtApart
<1>6. Manhattan(t, s) = 1
  BY <1>2, <1>3, <1>5 DEF Apart
<1>7. s \in Neighbors(t) /\ s \in Tiles
  BY <1>4, <1>6, ManhattanIs DEF IsAt
<1>8. WaterWidth(y) = b /\ (IsWater(s) <=> b - 1 < WaterWidth(y))
  BY <1>4, AtIsWater DEF b
<1>9. IsWater(s)
  BY <1>2, <1>8
<1> QED
  BY <1>7, <1>9 DEF AdjacentTerrain, Charted

(* The open land: no sea within reach of the columns on the far side.      *)
LEMMA SeaIsFar ==
  ASSUME choice \in Choices, NEW w, Charted(w), NEW t, NEW y \in 0 .. Height - 1,
         NEW i, i \in {Width - 2, Width - 3}, IsAt(t, i, y), NEW s \in Sea(w)
  PROVE  Manhattan(t, s) >= 8
<1> DEFINE j == In(X(s))
           z == Y(s)
           ww == WaterWidth(z)
           b == BaseWater
           a == Amplitude
<1>1. s \in Tiles /\ IsWater(s)
  BY DEF Sea, Land, Charted
<1>2. IsAt(s, j, z)
  BY <1>1 DEF IsAt
<1>3. j \in 0 .. Width - 1 /\ z \in 0 .. Height - 1 /\ ww \in b - a .. b + a /\ j < ww
  BY <1>1, <1>2, AtIsWater
<1>4. b \in Nat /\ a \in Nat /\ 100 * b <= 30 * Width /\ 32 * a <= Width
      /\ Width \in Nat /\ Width >= 32 /\ Height \in Nat
  BY WaterDrawn, MapSizes
<1>5. Manhattan(t, s) = Apart(i, j) + Apart(y, z)
  BY <1>2, AtApart
<1> HIDE DEF j, z, ww, b, a
<1>6. j \in Int /\ y \in Int /\ z \in Int /\ i \in Int /\ i - j >= 8
  BY <1>3, <1>4
<1>7. Apart(i, j) >= 8 /\ Apart(y, z) >= 0 /\ Apart(i, j) \in Int /\ Apart(y, z) \in Int
  BY <1>6 DEF Apart
<1> DEFINE p == Apart(i, j)
           q == Apart(y, z)
<1>8. p >= 8 /\ q >= 0 /\ p \in Int /\ q \in Int
  BY <1>7
<1> HIDE DEF p, q
<1>9. p + q >= 8
  BY <1>8
<1> QED
  BY <1>5, <1>9 DEF p, q

LEMMA RiverHolds ==
  ASSUME choice \in Choices, NEW w, Mature(w)
  PROVE  /\ River(w) /\ Outlet(w) = Course[1]
         /\ w.river_tile_count = Cardinality(w.river) /\ w.outlets \subseteq Tiles
<1> DEFINE p == Course
           n == Len(p)
<1>1. /\ Charted(w) /\ Carved(w) /\ Settled(w) /\ w \in Worlds /\ Placing
  BY TilesPlaced DEF Mature, Charted
<1>2. /\ w.river = TilesOf(p) /\ w.outlets = {p[1]} /\ w.river_tile_count = n
      /\ \A i \in 1 .. n : w.elevation[p[i]] = RiverElevation(i)
      /\ w.terrain[p[n]] = "HILLS"
  BY <1>1 DEF Carved
<1>3. Line(w.river, p) /\ n >= 21
  BY <1>2, CourseIsLine
<1>4. /\ IsAt(p[1], BaseWater, OutletY) /\ IsAt(p[n], Width - 2, SourceY)
  BY TheTilesAre
<1>5. Watered(w)
  BY <1>1 DEF Worlds, Watered
<1>6. Rising(w, p)
  <2> SUFFICES ASSUME NEW i \in 1 .. n, NEW j \in 1 .. n, i < j
               PROVE  w.elevation[p[i]] < w.elevation[p[j]]
    BY DEF Rising
  <2>1. w.elevation[p[i]] = RiverElevation(i) /\ w.elevation[p[j]] = RiverElevation(j)
    BY <1>2
  <2>2. RiverElevation(i) < RiverElevation(j)
    BY CourseSize DEF RiverElevation
  <2> QED
    BY <2>1, <2>2
<1>7. n >= MinRiver
  <2>1. MinRiver <= 9 /\ MinRiver \in Nat
    BY CandidateAssumption, DistanceAssumption
  <2>2. n \in Int
    BY CourseSize
  <2> HIDE DEF n
  <2> QED
    BY <1>3, <2>1, <2>2
<1>8. AdjacentTerrain(w, p[1], "WATER")
  BY <1>1, <1>4, SeaIsBeside
<1>9. \A t \in w.river : w.terrain[t] \notin {"WATER", "SETTLEMENT"}
  <2> SUFFICES ASSUME NEW t \in w.river PROVE w.terrain[t] \notin {"WATER", "SETTLEMENT"}
    OBVIOUS
  <2>1. PICK i \in 1 .. n : t = p[i]
    BY <1>2 DEF TilesOf
  <2>2. t \in Tiles /\ ~IsWater(t)
    BY <2>1, BedIsLand
  <2>3. t \notin {CoastalTile, InlandTile}
    BY <1>1, <1>2 DEF Placing
  <2> QED
    BY <1>1, <2>2, <2>3 DEF Charted, Settled
<1>10. \A t \in Sea(w) : Manhattan(p[n], t) >= SourceDistance
  <2> SUFFICES ASSUME NEW t \in Sea(w) PROVE Manhattan(p[n], t) >= SourceDistance
    OBVIOUS
  <2>1. SourceY \in 0 .. Height - 1
    BY RowsFit
  <2>2. Manhattan(p[n], t) >= 8
    BY <1>1, <1>4, <2>1, SeaIsFar
  <2>3. SourceDistance <= 8 /\ SourceDistance \in Nat
    BY CandidateAssumption, DistanceAssumption
  <2>4. Manhattan(p[n], t) \in Nat
    <3>1. p[n] \in Tiles /\ t \in Tiles
      BY <1>4 DEF IsAt, Sea
    <3> QED
      BY <3>1, ManhattanIs
  <2> DEFINE m == Manhattan(p[n], t)
  <2>5. m \in Nat /\ m >= 8
    BY <2>2, <2>4
  <2> HIDE DEF m
  <2>6. m >= SourceDistance
    BY <2>3, <2>5
  <2> QED
    BY <2>6 DEF m
<1>11. Falls(w, p)
  BY <1>2, <1>3, <1>6, <1>7, <1>8, <1>9, <1>10 DEF Falls
<1>12. River(w)
  BY <1>5, <1>11, FallsIsRiver
<1>13. Outlet(w) = p[1]
  <2>1. (CHOOSE t \in w.outlets : TRUE) = p[1]
    BY <1>2
  <2> QED
    BY <1>12, <2>1 DEF Outlet
<1>14. w.river_tile_count = Cardinality(w.river)
  <2>1. Len(p) = Cardinality(w.river)
    BY <1>3 DEF Line
  <2> QED
    BY <1>2, <2>1
<1>15. w.outlets \subseteq Tiles
  BY <1>1 DEF Worlds
<1> QED
  BY <1>12, <1>13, <1>14, <1>15

LEMMA SettlementsHold ==
  ASSUME choice \in Choices, NEW w, Mature(w)
  PROVE  Settlements(w, Course[1])
<1> DEFINE a == CoastalTile
           c == InlandTile
           b == BaseWater
<1>1. /\ Charted(w) /\ Settled(w) /\ Placing
  BY TilesPlaced DEF Mature
<1>2. /\ Coastal(w).at = a /\ Inland(w).at = c
      /\ Coastal(w).kind = Kinds[2] /\ Inland(w).kind = Kinds[3]
      /\ Coastal(w).id = 2 /\ Inland(w).id = 3
  BY <1>1, RegistryIs
<1>3. /\ IsAt(Course[1], b, OutletY) /\ IsAt(a, b, CoastalY)
      /\ IsAt(c, Width - 3, InlandY)
  BY TheTilesAre
<1>4. a \in Tiles /\ c \in Tiles /\ a # c /\ a # Nowhere /\ c # Nowhere
  BY <1>1, <1>3, NowhereAssumption DEF IsAt, Placing
<1>5. /\ b \in Nat /\ Width \in Nat /\ Width >= 32 /\ 100 * b <= 30 * Width
      /\ Height \in Nat
  BY WaterDrawn, MapSizes
<1>6. /\ OutletY \in 0 .. Height - 1 /\ CoastalY = OutletY + 1
      /\ InlandY \in 0 .. Height - 1
  BY RowsFit
<1> HIDE DEF a, b, c
<1>7. \A e \in {Coastal(w), Inland(w)} :
        w.terrain[e.at] = "SETTLEMENT" /\ w.settlement_id[e.at] = e.id
  <2>1. w.terrain[a] = "SETTLEMENT" /\ w.terrain[c] = "SETTLEMENT"
    BY <1>1, <1>4 DEF Settled, a, c
  <2>2. w.settlement_id[a] = 2 /\ w.settlement_id[c] = 3
    BY <1>1, <1>4 DEF Settled, a, c
  <2> QED
    BY <1>2, <2>1, <2>2
<1>8. AdjacentTerrain(w, a, "WATER")
  BY <1>1, <1>3, SeaIsBeside DEF b
<1>9. Manhattan(a, Course[1]) = 1
  <2>1. Manhattan(a, Course[1]) = Apart(b, b) + Apart(CoastalY, OutletY)
    BY <1>3, AtApart
  <2> QED
    BY <1>5, <1>6, <2>1 DEF Apart
<1>10. Manhattan(a, c) >= TownDistance
  <2>1. Manhattan(a, c) = Apart(b, Width - 3) + Apart(CoastalY, InlandY)
    BY <1>3, AtApart
  <2>2. TownDistance <= 12 /\ TownDistance \in Nat
    BY CandidateAssumption, DistanceAssumption
  <2> DEFINE p == Apart(b, Width - 3)
             q == Apart(CoastalY, InlandY)
  <2>3. CoastalY \in Int /\ InlandY \in Int
    BY <1>5, <1>6
  <2>4. p \in Int /\ p >= 12
    BY <1>5 DEF Apart
  <2>5. q \in Int /\ q >= 0
    BY <2>3 DEF Apart
  <2> HIDE DEF p, q
  <2>6. p + q >= TownDistance
    BY <2>2, <2>4, <2>5
  <2> QED
    BY <2>1, <2>6 DEF p, q
<1>11. \A t \in Tiles : w.terrain[t] # "SETTLEMENT" => w.settlement_id[t] = 0
  BY <1>1 DEF Settled
<1>12. Cardinality({t \in Tiles : w.terrain[t] = "SETTLEMENT"}) = 2
  <2>1. {t \in Tiles : w.terrain[t] = "SETTLEMENT"} = {a, c}
    BY <1>1, <1>4 DEF Settled, a, c
  <2> QED
    BY <1>4, <2>1, PairIs
<1>13. \A t \in Sea(w) : Manhattan(c, t) >= SeaDistance
  <2> SUFFICES ASSUME NEW t \in Sea(w) PROVE Manhattan(c, t) >= SeaDistance
    OBVIOUS
  <2>1. Manhattan(c, t) >= 8
    BY <1>1, <1>3, <1>6, SeaIsFar
  <2>2. SeaDistance <= 4 /\ SeaDistance \in Nat
    BY CandidateAssumption, DistanceAssumption
  <2>3. Manhattan(c, t) \in Nat
    BY <1>4, ManhattanIs DEF Sea
  <2> DEFINE m == Manhattan(c, t)
  <2>4. m \in Nat /\ m >= 8
    BY <2>1, <2>3
  <2> HIDE DEF m
  <2>5. m >= SeaDistance
    BY <2>2, <2>4
  <2> QED
    BY <2>5 DEF m
<1> QED
  BY <1>2, <1>4, <1>7, <1>8, <1>9, <1>10, <1>11, <1>12, <1>13 DEF Settlements

LEMMA OwnershipHolds ==
  ASSUME choice \in Choices, NEW w, Mature(w), Roaded(w)
  PROVE  OwnershipGraph(w, w.river_tile_count, w.road_tile_count, Course[1])
<1>1. Settled(w) /\ w.region = Founded(w.river_tile_count, w.road_tile_count)
  BY DEF Mature, Roaded
<1>2. \A i \in 1 .. 6 :
        /\ w.entities[i].id = i /\ w.entities[i].named
        /\ w.entities[i].region_id = 1
        /\ w.entities[i].owner_id = IF i \in {5, 6} THEN i ELSE 4
        /\ w.entities[i].kind = Kinds[i]
        /\ w.entities[i].at = IF i = 2 THEN CoastalTile
                              ELSE IF i = 3 THEN InlandTile ELSE Nowhere
  BY <1>1, RegistryIs
<1>3. Coastal(w).at = CoastalTile /\ Inland(w).at = InlandTile
  BY <1>1, RegistryIs
<1>4. CoastalTile # Nowhere /\ InlandTile # Nowhere
  BY TheTilesAre, NowhereAssumption DEF IsAt
<1>5. \A i \in 1 .. 6 :
        LET e == w.entities[i]
        IN  /\ e.id = i /\ e.named /\ e.region_id = 1
            /\ e.owner_id = IF i \in {5, 6} THEN i ELSE 4
            /\ IF i \in {2, 3} THEN e.at # Nowhere
               ELSE e.at = Nowhere /\ e.kind = Kinds[i]
  BY <1>2, <1>4
<1>6. w.region = [id |-> 1, political_owner_id |-> 4,
                  settlement_ids |-> <<2, 3>>, foreign_faction_ids |-> <<5, 6>>,
                  river_outlet_tile_id |-> Course[1],
                  road_start_tile_id |-> Coastal(w).at,
                  road_end_tile_id |-> Inland(w).at,
                  river_tile_count |-> w.river_tile_count,
                  road_tile_count |-> w.road_tile_count]
  BY <1>1, <1>3 DEF Founded
<1> QED
  BY <1>5, <1>6, Zenon DEF OwnershipGraph

(* The coast leaves enough land, each row one stretch of it, and every row *)
(* the far side of the map.                                                *)
LEMMA StretchEnds ==
  ASSUME NEW p \in Int, NEW q \in Int, p <= q, NEW row, row = p .. q
  PROVE  Westmost(row) = p /\ Eastmost(row) = q
<1>1. p \in row /\ q \in row /\ \A x \in row : p <= x /\ q >= x /\ x \in Int
  OBVIOUS
<1>2. /\ Westmost(row) \in row /\ \A z \in row : Westmost(row) <= z
  BY <1>1 DEF Westmost
<1>3. /\ Eastmost(row) \in row /\ \A z \in row : Eastmost(row) >= z
  BY <1>1 DEF Eastmost
<1>4. Westmost(row) = p
  <2>1. Westmost(row) <= p /\ p <= Westmost(row) /\ Westmost(row) \in Int
    BY <1>1, <1>2
  <2> QED
    BY <2>1
<1>5. Eastmost(row) = q
  <2>1. Eastmost(row) >= q /\ q >= Eastmost(row) /\ Eastmost(row) \in Int
    BY <1>1, <1>3
  <2> QED
    BY <2>1
<1> QED
  BY <1>4, <1>5

LEMMA WestCut ==
  ASSUME NEW n \in Nat, NEW c \in Nat, NEW row, row \subseteq 0 .. n - 1,
         \A x \in 0 .. n - 1 : x \in row <=> x >= c
  PROVE  row = c .. n - 1
<1>1. ASSUME NEW x, x \in row PROVE x \in c .. n - 1
  <2>1. x \in 0 .. n - 1
    BY <1>1
  <2>2. x >= c
    BY <1>1, <2>1
  <2> QED
    BY <2>1, <2>2
<1>2. ASSUME NEW x, x \in c .. n - 1 PROVE x \in row
  <2>1. x \in 0 .. n - 1 /\ x >= c
    BY <1>2
  <2> QED
    BY <2>1
<1> QED
  BY <1>1, <1>2, Zenon

LEMMA EastCut ==
  ASSUME NEW n \in Nat, NEW c \in Int, c <= n - 1, NEW row, row \subseteq 0 .. n - 1,
         \A x \in 0 .. n - 1 : x \in row <=> x <= c
  PROVE  row = 0 .. c
<1>1. ASSUME NEW x, x \in row PROVE x \in 0 .. c
  <2>1. x \in 0 .. n - 1
    BY <1>1
  <2>2. x <= c
    BY <1>1, <2>1
  <2> QED
    BY <2>1, <2>2
<1>2. ASSUME NEW x, x \in 0 .. c PROVE x \in row
  <2>1. x \in 0 .. n - 1 /\ x <= c
    BY <1>2
  <2> QED
    BY <2>1
<1> QED
  BY <1>1, <1>2, Zenon

LEMMA RowOfLand ==
  ASSUME choice \in Choices, NEW w, Charted(w), NEW y \in 0 .. Height - 1
  PROVE  /\ Row(w, y) # {} /\ Row(w, y) = Westmost(Row(w, y)) .. Eastmost(Row(w, y))
         /\ IF choice.west
            THEN Westmost(Row(w, y)) <= Width - 1 /\ Eastmost(Row(w, y)) = Width - 1
            ELSE Westmost(Row(w, y)) = 0 /\ Eastmost(Row(w, y)) >= 0
<1> DEFINE ww == WaterWidth(y)
           row == Row(w, y)
           p == IF choice.west THEN ww ELSE 0
           q == IF choice.west THEN Width - 1 ELSE Width - 1 - ww
<1>1. /\ BaseWater \in Nat /\ Amplitude \in Nat /\ 100 * BaseWater <= 30 * Width
      /\ 32 * Amplitude <= Width /\ Width \in Nat /\ Width >= 32
      /\ 30 * Width < 100 * BaseWater + 100 /\ choice.west \in BOOLEAN
  BY WaterDrawn, MapSizes, ChoiceIs
<1>2. ASSUME NEW x \in 0 .. Width - 1
      PROVE  /\ ww \in BaseWater - Amplitude .. BaseWater + Amplitude
             /\ x \in row <=> ~(In(x) < ww)
  <2>1. IsAt(TileAt(x, y), In(x), y)
    BY TileIsAt
  <2>2. /\ ww \in BaseWater - Amplitude .. BaseWater + Amplitude
        /\ IsWater(TileAt(x, y)) <=> In(x) < ww
    BY <2>1, AtIsWater
  <2>3. w.terrain[TileAt(x, y)] # "WATER" <=> ~IsWater(TileAt(x, y))
    BY <2>1 DEF IsAt, Charted
  <2> HIDE DEF ww
  <2>4. x \in row <=> w.terrain[TileAt(x, y)] # "WATER"
    BY DEF Row
  <2> QED
    BY <2>2, <2>3, <2>4
<1>3. ww \in Int /\ ww >= 0 /\ ww <= Width - 1
  <2>1. 0 \in 0 .. Width - 1
    BY <1>1
  <2>2. ww \in BaseWater - Amplitude .. BaseWater + Amplitude
    BY <1>2, <2>1
  <2> HIDE DEF ww
  <2> QED
    BY <1>1, <2>2
<1>4. row \subseteq 0 .. Width - 1
  BY DEF Row
<1> HIDE DEF ww, row
<1>5. row = p .. q
  <2>1. CASE choice.west
    <3>1. \A x \in 0 .. Width - 1 : x \in row <=> x >= ww
      <4> SUFFICES ASSUME NEW x \in 0 .. Width - 1 PROVE x \in row <=> x >= ww
        OBVIOUS
      <4>1. In(x) = x
        BY <2>1 DEF In
      <4>2. x \in row <=> ~(x < ww)
        BY <1>2, <4>1
      <4> QED
        BY <1>3, <4>2
    <3>2. row = ww .. Width - 1
      <4>1. Width \in Nat /\ ww \in Nat
        BY <1>1, <1>3
      <4> QED
        BY <1>4, <3>1, <4>1, WestCut, Zenon
    <3> QED
      BY <2>1, <3>2
  <2>2. CASE ~choice.west
    <3>1. \A x \in 0 .. Width - 1 : x \in row <=> x <= Width - 1 - ww
      <4> SUFFICES ASSUME NEW x \in 0 .. Width - 1 PROVE x \in row <=> x <= Width - 1 - ww
        OBVIOUS
      <4>1. In(x) = Width - 1 - x
        BY <2>2 DEF In
      <4>2. x \in row <=> ~(Width - 1 - x < ww)
        BY <1>2, <4>1
      <4> QED
        BY <1>1, <1>3, <4>2
    <3>2. row = 0 .. Width - 1 - ww
      <4>1. /\ Width \in Nat /\ Width - 1 - ww \in Int
            /\ Width - 1 - ww <= Width - 1
        BY <1>1, <1>3
      <4> QED
        BY <1>4, <3>1, <4>1, EastCut, Zenon
    <3> QED
      BY <2>2, <3>2
  <2> QED
    BY <2>1, <2>2
<1>6. p \in Int /\ q \in Int /\ p <= q /\ p <= Width - 1 /\ q >= 0
  BY <1>1, <1>3
<1>7. choice.west => q = Width - 1
  OBVIOUS
<1>8. ~choice.west => p = 0
  OBVIOUS
<1> HIDE DEF p, q
<1>9. Westmost(row) = p /\ Eastmost(row) = q
  BY <1>5, <1>6, StretchEnds
<1>10. row # {}
  BY <1>5, <1>6
<1> QED
  BY <1>5, <1>6, <1>7, <1>8, <1>9, <1>10 DEF row

LEMMA ColumnsCount ==
  ASSUME choice \in Choices, NEW c \in 0 .. Width
  PROVE  Cardinality({t \in Tiles : In(X(t)) >= c}) = (Width - c) * Height
<1> DEFINE A == c .. Width - 1
           B == 0 .. Height - 1
           T == {t \in Tiles : In(X(t)) >= c}
           g == [e \in A \X B |-> TileAt(In(e[1]), e[2])]
<1>1. Width \in Nat /\ Height \in Nat /\ c \in Nat /\ c <= Width
  BY MapSizes
<1>2. IsFiniteSet(A) /\ Cardinality(A) = Width - c
  <2>1. /\ IsFiniteSet(A)
        /\ Cardinality(A) = IF c > Width - 1 THEN 0 ELSE Width - 1 - c + 1
    BY <1>1, FS_Interval
  <2> HIDE DEF A
  <2>2. CASE c > Width - 1
    BY <1>1, <2>1, <2>2
  <2>3. CASE ~(c > Width - 1)
    BY <1>1, <2>1, <2>3
  <2> QED
    BY <2>2, <2>3
<1>3. IsFiniteSet(B) /\ Cardinality(B) = Height
  <2>1. /\ IsFiniteSet(B)
        /\ Cardinality(B) = IF 0 > Height - 1 THEN 0 ELSE Height - 1 - 0 + 1
    BY <1>1, FS_Interval
  <2> HIDE DEF B
  <2> QED
    BY <1>1, <2>1
<1>4. IsFiniteSet(A \X B) /\ Cardinality(A \X B) = (Width - c) * Height
  <2> HIDE DEF A, B
  <2>1. IsFiniteSet(A \X B) /\ Cardinality(A \X B) = Cardinality(A) * Cardinality(B)
    BY <1>2, <1>3, FS_Product
  <2> QED
    BY <1>2, <1>3, <2>1
<1>5. ASSUME NEW e \in A \X B
      PROVE  IsAt(g[e], e[1], e[2]) /\ g[e] \in T /\ e = <<e[1], e[2]>>
  <2>1. e[1] \in 0 .. Width - 1 /\ e[2] \in B /\ e[1] >= c /\ e = <<e[1], e[2]>>
    BY <1>1
  <2>2. g[e] = TileAt(In(e[1]), e[2])
    OBVIOUS
  <2> HIDE DEF g
  <2>3. IsAt(g[e], e[1], e[2])
    BY <2>1, <2>2, TileExists
  <2> QED
    BY <2>1, <2>3 DEF IsAt
<1>6. g \in [A \X B -> T]
  <2>1. g = [e \in A \X B |-> g[e]]
    OBVIOUS
  <2> HIDE DEF g, T
  <2> QED
    BY <1>5, <2>1
<1>7. \A e, f \in A \X B : g[e] = g[f] => e = f
  <2> SUFFICES ASSUME NEW e \in A \X B, NEW f \in A \X B, g[e] = g[f] PROVE e = f
    OBVIOUS
  <2>1. /\ IsAt(g[e], e[1], e[2]) /\ IsAt(g[f], f[1], f[2])
        /\ e = <<e[1], e[2]>> /\ f = <<f[1], f[2]>>
    BY <1>5
  <2> HIDE DEF g
  <2>2. e[1] = f[1] /\ e[2] = f[2]
    BY <2>1 DEF IsAt
  <2> QED
    BY <2>1, <2>2
<1>8. \A t \in T : \E e \in A \X B : g[e] = t
  <2> SUFFICES ASSUME NEW t \in T PROVE \E e \in A \X B : g[e] = t
    OBVIOUS
  <2> DEFINE i == In(X(t))
             y == Y(t)
             e == <<i, y>>
  <2>1. t \in Tiles /\ i >= c /\ IsAt(t, i, y)
    BY DEF IsAt
  <2>2. i \in 0 .. Width - 1 /\ y \in 0 .. Height - 1
    BY <2>1, AtIsWater
  <2> HIDE DEF i, y
  <2>3. e \in A \X B /\ e[1] = i /\ e[2] = y
    BY <1>1, <2>1, <2>2
  <2> HIDE DEF e
  <2>4. IsAt(g[e], i, y)
    BY <1>5, <2>3
  <2>5. g[e] = t
    BY <2>1, <2>4, AtSameTile
  <2> QED
    BY <2>3, <2>5
<1> DEFINE P == A \X B
<1> HIDE DEF g, T, A, B
<1>9. g \in Bijection(P, T)
  BY <1>6, <1>7, <1>8 DEF Bijection, Injection, Surjection, IsInjective
<1>10. ExistsBijection(P, T)
  BY <1>9 DEF ExistsBijection
<1>11. Cardinality(P) = Cardinality(T)
  BY <1>4, <1>10, FS_Bijection
<1> QED
  BY <1>4, <1>11 DEF T

LEMMA LargerTimes ==
  ASSUME NEW m \in Int, NEW n \in Int, NEW h \in Nat, m <= n
  PROVE  m * h <= n * h
<1>1. (n - m) * h >= 0
  OBVIOUS
<1>2. (n - m) * h = n * h - m * h
  OBVIOUS
<1> DEFINE p == n * h
           q == m * h
<1>3. p \in Int /\ q \in Int
  OBVIOUS
<1>4. p - q >= 0
  BY <1>1, <1>2
<1> HIDE DEF p, q
<1>5. q <= p
  BY <1>3, <1>4
<1> QED
  BY <1>5 DEF p, q

LEMMA SharesCount ==
  ASSUME NEW n \in Int, NEW m \in Int, NEW v \in Nat, NEW h \in Nat, NEW c \in Int,
         c \in n * h .. m * h,
         v * 55 <= n * 100, m * 100 <= v * 80
  PROVE  c * 100 >= v * h * 55 /\ c * 100 <= v * h * 80
<1>1. (v * 55) * h <= (n * 100) * h /\ (m * 100) * h <= (v * 80) * h
  BY LargerTimes
<1> DEFINE a == n * h
           b == m * h
           d == v * h
<1>2. a \in Int /\ b \in Int /\ d \in Int /\ a <= c /\ c <= b
  OBVIOUS
<1>3. /\ (v * 55) * h = d * 55 /\ (n * 100) * h = a * 100
      /\ (m * 100) * h = b * 100 /\ (v * 80) * h = d * 80
  OBVIOUS
<1>4. d * 55 <= a * 100 /\ b * 100 <= d * 80
  BY <1>1, <1>3
<1> HIDE DEF a, b, d
<1>5. c * 100 >= d * 55 /\ c * 100 <= d * 80
  BY <1>2, <1>4
<1> QED
  BY <1>5 DEF d

LEMMA CoastHolds ==
  ASSUME choice \in Choices, NEW w, Charted(w)
  PROVE  CoastLand(w) /\ w.land_tile_count = Cardinality(Land(w))
<1> DEFINE b == BaseWater
           a == Amplitude
           dry == {t \in Tiles : ~IsWater(t)}
           Beyond(c) == {t \in Tiles : In(X(t)) >= c}
           count == Cardinality(Land(w))
<1>1. /\ b \in Nat /\ a \in Nat /\ 100 * b <= 30 * Width
      /\ 32 * a <= Width /\ Width \in Nat /\ Width >= 32
      /\ 30 * Width < 100 * b + 100 /\ Height \in Nat /\ choice.west \in BOOLEAN
  BY WaterDrawn, MapSizes, ChoiceIs
<1> HIDE DEF b, a
<1>2. Land(w) = dry
  BY DEF Charted, Land
<1>3. ASSUME NEW t \in Tiles
      PROVE  /\ In(X(t)) >= b + a => ~IsWater(t)
             /\ ~IsWater(t) => In(X(t)) >= b - a
  <2> DEFINE i == In(X(t))
             ww == WaterWidth(Y(t))
  <2>1. IsAt(t, i, Y(t))
    BY DEF IsAt
  <2>2. i \in 0 .. Width - 1 /\ ww \in b - a .. b + a /\ (IsWater(t) <=> i < ww)
    BY <2>1, AtIsWater DEF b, a
  <2> HIDE DEF i, ww
  <2>3. (i >= b + a => ~IsWater(t)) /\ (~IsWater(t) => i >= b - a)
    BY <1>1, <2>2
  <2> QED
    BY <2>3 DEF i
<1>4. Beyond(b + a) \subseteq dry /\ dry \subseteq Beyond(b - a)
  BY <1>3
<1>5. IsFiniteSet(Tiles) /\ Beyond(b - a) \subseteq Tiles /\ dry \subseteq Tiles
  BY MapIs
<1>6. b + a \in 0 .. Width /\ b - a \in 0 .. Width
  BY <1>1
<1>7. /\ Cardinality(Beyond(b + a)) = (Width - (b + a)) * Height
      /\ Cardinality(Beyond(b - a)) = (Width - (b - a)) * Height
  BY <1>6, ColumnsCount
<1>8. /\ Cardinality(Beyond(b + a)) <= Cardinality(dry)
      /\ Cardinality(dry) <= Cardinality(Beyond(b - a))
      /\ Cardinality(dry) \in Nat
  <2> HIDE DEF Beyond, dry
  <2>1. IsFiniteSet(Beyond(b - a)) /\ IsFiniteSet(dry)
    BY <1>5, FS_Subset
  <2> QED
    BY <1>4, <2>1, SubsetIsSmaller
<1> DEFINE n == Width - (b + a)
           m == Width - (b - a)
<1>9. n \in Int /\ m \in Int /\ Width * 55 <= n * 100 /\ m * 100 <= Width * 80
  BY <1>1
<1>10. count \in Int /\ n * Height <= count /\ count <= m * Height
  BY <1>2, <1>7, <1>8
<1>11. n * Height \in Int /\ m * Height \in Int
  BY <1>1, <1>9
<1> HIDE DEF n, m, count
<1>12. count \in n * Height .. m * Height
  BY <1>10, <1>11
<1>13. count * 100 >= Width * Height * 55 /\ count * 100 <= Width * Height * 80
  BY <1>1, <1>9, <1>10, <1>12, SharesCount
<1>14. \A y \in 0 .. Height - 1 :
         LET row == Row(w, y) IN row # {} /\ row = Westmost(row) .. Eastmost(row)
  BY RowOfLand
<1>15. \A y \in 1 .. Height - 1 : Meets(w, y)
  <2> SUFFICES ASSUME NEW y \in 1 .. Height - 1 PROVE Meets(w, y)
    OBVIOUS
  <2> DEFINE p == Westmost(Row(w, y))
             q == Eastmost(Row(w, y))
             r == Westmost(Row(w, y - 1))
             s == Eastmost(Row(w, y - 1))
  <2>1. y \in 0 .. Height - 1 /\ y - 1 \in 0 .. Height - 1
    BY <1>1
  <2>2. IF choice.west
        THEN p <= Width - 1 /\ q = Width - 1 ELSE p = 0 /\ q >= 0
    BY <2>1, RowOfLand
  <2>3. IF choice.west
        THEN r <= Width - 1 /\ s = Width - 1 ELSE r = 0 /\ s >= 0
    BY <2>1, RowOfLand
  <2>4. q >= r /\ p <= s
    <3> HIDE DEF p, q, r, s
    <3> QED
      BY <2>2, <2>3
  <2> QED
    BY <2>4 DEF Meets
<1> QED
  BY <1>2, <1>13, <1>14, <1>15 DEF CoastLand, count, Charted

LEMMA NoTileFails ==
  ASSUME NEW w, Charted(w), Damp(w)
  PROVE  FirstFailed(w) = Nowhere
<1>1. ASSUME NEW t \in Tiles
      PROVE  /\ t \notin w.unknown /\ t \notin w.soaked
             /\ ~WrongElevation(w, t) /\ ~StrayWetland(w, t) /\ w.terrain[t] # "none"
  <2>1. t \notin w.unknown /\ t \notin w.soaked /\ w.terrain[t] # "none"
    BY DEF Charted, Terrains, Dry
  <2>2. ~StrayWetland(w, t)
    BY DEF Damp
  <2>3. ~WrongElevation(w, t)
    <3>1. w.elevation[t] \in Int
      BY DEF Charted, Worlds
    <3>2. /\ w.terrain[t] = "WATER" <=> IsWater(t)
          /\ IF IsWater(t) THEN w.elevation[t] = 0 ELSE w.elevation[t] > 0
      BY DEF Charted
    <3> DEFINE e == w.elevation[t]
    <3> HIDE DEF e
    <3> QED
      BY <3>1, <3>2 DEF WrongElevation, e
  <2> QED
    BY <2>1, <2>2, <2>3
<1>2. FaultyTiles(w) = {}
  BY <1>1, Zenon DEF FaultyTiles, Overwriting, NotATerrain
<1> QED
  BY <1>2, FirstFailedIs

(* What the last attempt writes covers every terrain.                      *)
LEMMA TerrainsAreThere ==
  ASSUME choice \in Choices, NEW w, Mature(w), choice.fallback
  PROVE  Coverage(w)
<1>1. /\ Charted(w) /\ Carved(w) /\ Supplied(w) /\ Settled(w) /\ Placing
  BY TilesPlaced DEF Mature
<1>2. /\ CoastalTile \in Tiles /\ InlandTile \in Tiles /\ WetTile \in Tiles
      /\ ForestTile \in Tiles /\ GrassTile \in Tiles /\ SourceTile \in Tiles
      /\ IsAt(CoastalTile, BaseWater, CoastalY)
      /\ SourceTile = Course[Len(Course)]
  BY TheTilesAre DEF IsAt
<1>3. AdjacentTerrain(w, CoastalTile, "WATER")
  BY <1>1, <1>2, SeaIsBeside
<1>4. PICK s \in Neighbors(CoastalTile) : w.terrain[s] = "WATER"
  BY <1>3 DEF AdjacentTerrain
<1>5. s \in Tiles
  BY <1>2, NeighborsAre
<1>6. /\ w.terrain[CoastalTile] = "SETTLEMENT" /\ w.terrain[SourceTile] = "HILLS"
      /\ w.terrain[WetTile] = "WETLANDS" /\ w.terrain[ForestTile] = "FOREST"
      /\ w.terrain[GrassTile] = "GRASSLAND"
  BY <1>1, <1>2 DEF Settled, Carved, Supplied
<1>7. \A terrain \in Terrains : \E t \in Tiles : w.terrain[t] = terrain
  BY <1>2, <1>4, <1>5, <1>6 DEF Terrains, Dry
<1>8. {t \in Tiles : w.terrain[t] = "SETTLEMENT"} = {CoastalTile, InlandTile}
  BY <1>1, <1>2 DEF Settled
<1>9. CoastalTile # InlandTile
  BY <1>1 DEF Placing
<1>10. Cardinality({CoastalTile, InlandTile}) = 2
  BY <1>9, PairIs
<1> QED
  BY <1>7, <1>8, <1>10 DEF Coverage

-----------------------------------------------------------------------------
(* The verdict on a candidate that has its road.                           *)
LEMMA VerdictIs ==
  ASSUME NEW w, Outlet(w) # Nowhere, River(w), Road(w),
         w.river_tile_count = Cardinality(w.river),
         w.road_tile_count = Cardinality(w.road),
         FirstFailed(w) = Nowhere, CoastLand(w),
         w.land_tile_count = Cardinality(Land(w)),
         Settlements(w, Outlet(w)),
         OwnershipGraph(w, w.river_tile_count, w.road_tile_count, Outlet(w))
  PROVE  /\ Invariants \ {"TERRAIN_COVERAGE"} \subseteq Passed(w)
         /\ "TERRAIN_COVERAGE" \in Passed(w) <=> Coverage(w)
         /\ Passed(w) \subseteq Invariants
<1> DEFINE outlet == Outlet(w)
           river_count == IF outlet = Nowhere THEN 0 ELSE Cardinality(w.river)
           road_holds == Road(w)
           road_count == IF road_holds THEN Cardinality(w.road) ELSE 0
           graph == /\ outlet # Nowhere
                    /\ OwnershipGraph(w, river_count, road_count, outlet)
           reachable == road_holds /\ w.road_tile_count = road_count
           verdict(i) ==
             CASE i = "BOUNDS" -> TRUE
               [] i = "LAND_COAST" ->
                    /\ FirstFailed(w) = Nowhere /\ CoastLand(w)
                    /\ w.land_tile_count = Cardinality(Land(w))
               [] i = "TERRAIN_COVERAGE" -> Coverage(w)
               [] i = "HYDROLOGY" ->
                    outlet # Nowhere /\ w.river_tile_count = river_count
               [] i = "SETTLEMENTS" -> outlet # Nowhere /\ Settlements(w, outlet)
               [] i \in {"ROAD_CORRIDOR", "OBJECTIVE_REACHABLE"} -> reachable
               [] i \in {"OWNERSHIP", "GRAPH_TILE_AGREEMENT"} -> graph
<1>1. Passed(w) = {i \in Invariants : [j \in Invariants |-> verdict(j)][i]}
  BY Zenon DEF Passed
<1>2. /\ Passed(w) \subseteq Invariants
      /\ \A i \in Invariants : i \in Passed(w) <=> verdict(i)
  <2> HIDE DEF verdict
  <2> QED
    BY <1>1
<1>3. /\ outlet # Nowhere /\ river_count = Cardinality(w.river)
      /\ road_holds /\ road_count = Cardinality(w.road)
      /\ Settlements(w, outlet)
  OBVIOUS
<1>4. OwnershipGraph(w, river_count, road_count, outlet)
  <2>1. river_count = w.river_tile_count /\ road_count = w.road_tile_count
    BY <1>3
  <2> HIDE DEF river_count, road_count
  <2> QED
    BY <2>1, Zenon
<1>5. w.river_tile_count = river_count /\ w.road_tile_count = road_count
  BY <1>3
<1> HIDE DEF outlet, river_count, road_holds, road_count
<1>6. graph /\ reachable
  BY <1>3, <1>4, <1>5
<1> HIDE DEF graph, reachable
<1>7. verdict("BOUNDS") /\ verdict("LAND_COAST") /\ verdict("HYDROLOGY")
  BY <1>3, <1>5
<1>8. verdict("SETTLEMENTS") /\ verdict("ROAD_CORRIDOR")
      /\ verdict("OBJECTIVE_REACHABLE")
  BY <1>3, <1>6
<1>9. verdict("OWNERSHIP") /\ verdict("GRAPH_TILE_AGREEMENT")
  BY <1>6
<1>10. verdict("TERRAIN_COVERAGE") <=> Coverage(w)
  OBVIOUS
<1> HIDE DEF verdict
<1> QED
  BY <1>2, <1>7, <1>8, <1>9, <1>10 DEF Invariants

LEMMA VerdictFalls ==
  ASSUME choice \in Choices, NEW w, Mature(w), Roaded(w)
  PROVE  /\ Passed(w) # Invariants => Report(w).failed = {"TERRAIN_COVERAGE"}
         /\ choice.fallback => Passed(w) = Invariants
<1>1. Charted(w) /\ Damp(w)
  BY DEF Mature
<1>2. /\ River(w) /\ Outlet(w) = Course[1] /\ Road(w)
      /\ w.river_tile_count = Cardinality(w.river)
  BY RiverHolds, RoadHolds
<1>3. Outlet(w) # Nowhere
  <2>1. Course[1] \in Tiles
    BY TheTilesAre DEF IsAt
  <2> QED
    BY <1>2, <2>1, NowhereAssumption
<1>4. w.road_tile_count = Cardinality(w.road)
  BY DEF Roaded
<1>5. /\ FirstFailed(w) = Nowhere /\ CoastLand(w)
      /\ w.land_tile_count = Cardinality(Land(w))
  BY <1>1, CoastHolds, NoTileFails
<1>6. Settlements(w, Outlet(w))
  BY <1>2, SettlementsHold
<1>7. OwnershipGraph(w, w.river_tile_count, w.road_tile_count, Outlet(w))
  BY <1>2, OwnershipHolds
<1>8. /\ Invariants \ {"TERRAIN_COVERAGE"} \subseteq Passed(w)
      /\ "TERRAIN_COVERAGE" \in Passed(w) <=> Coverage(w)
      /\ Passed(w) \subseteq Invariants
  BY <1>2, <1>3, <1>4, <1>5, <1>6, <1>7, VerdictIs
<1>9. Report(w).failed = Invariants \ Passed(w)
  BY DEF Report
<1>10. "TERRAIN_COVERAGE" \in Invariants
  BY DEF Invariants
<1> DEFINE p == Passed(w)
           all == Invariants
<1>11. choice.fallback => Coverage(w)
  BY TerrainsAreThere
<1>12. choice.fallback => p = all
  <2> HIDE DEF all
  <2> QED
    BY <1>8, <1>11 DEF all
<1>13. p # all => all \ p = {"TERRAIN_COVERAGE"}
  <2> HIDE DEF all, p
  <2>1. all \ {"TERRAIN_COVERAGE"} \subseteq p /\ p \subseteq all
        /\ "TERRAIN_COVERAGE" \in all
    BY <1>8, <1>10 DEF all, p
  <2> QED
    BY <2>1
<1> QED
  BY <1>9, <1>12, <1>13

(* The draws stay, and with them all that a phase has told of its world.   *)
LEMMA ToldStays ==
  ASSUME choice' = choice
  PROVE  /\ Charted(world') => Charted(world)'
         /\ Uncarved(world') => Uncarved(world)'
         /\ Unsettled(world') => Unsettled(world)'
         /\ Carved(world') => Carved(world)'
         /\ Damp(world') => Damp(world)'
         /\ Supplied(world') => Supplied(world)'
         /\ Settled(world') => Settled(world)'
         /\ Roaded(world') => Roaded(world)'
         /\ Founded(0, 0)' = Founded(0, 0)
<1>1. /\ Course' = Course /\ CoastalTile' = CoastalTile /\ InlandTile' = InlandTile
      /\ CoastalY' = CoastalY /\ InlandX' = InlandX /\ MiddleX' = MiddleX
      /\ \A t : IsWater(t)' <=> IsWater(t)
      /\ \A t : Apart(X(t), CoastX(WaterWidth(Y(t))))' =
                Apart(X(t), CoastX(WaterWidth(Y(t))))
  BY DrawsKept
<1>2. WetTile' = WetTile /\ ForestTile' = ForestTile /\ GrassTile' = GrassTile
  BY <1>1 DEF WetTile, ForestTile, GrassTile
<1>3. Registry' = Registry
  BY <1>1 DEF Registry
<1>4. \A m, n : Founded(m, n)' = Founded(m, n)
  BY <1>1 DEF Founded
<1>5. Charted(world') => Charted(world)'
  BY <1>1 DEF Charted
<1>6. Uncarved(world') => Uncarved(world)'
  BY <1>1 DEF Uncarved
<1>7. Unsettled(world') => Unsettled(world)'
  BY DEF Unsettled
<1>8. Carved(world') => Carved(world)'
  BY <1>1 DEF Carved
<1>9. Damp(world') => Damp(world)'
  BY DEF Damp
<1>10. Supplied(world') => Supplied(world)'
  BY <1>2 DEF Supplied
<1>11. Settled(world') => Settled(world)'
  BY <1>1, <1>3 DEF Settled
<1>12. Roaded(world') => Roaded(world)'
  BY <1>1, <1>4 DEF Roaded, RoadLine
<1> QED
  BY <1>4, <1>5, <1>6, <1>7, <1>8, <1>9, <1>10, <1>11, <1>12

-----------------------------------------------------------------------------
(* What each phase finds: the invariant of the generation.                 *)
FoundIInv ==
  /\ phase = "coast" => world = Blank
  /\ phase = "river" => Charted(world) /\ Uncarved(world) /\ Unsettled(world)
  /\ phase \in {"biome", "fallback", "entities"} =>
       Charted(world) /\ Carved(world) /\ Unsettled(world)
  /\ phase \in {"fallback", "entities"} => Damp(world)
  /\ phase = "entities" => Supplied(world)
  /\ phase \in {"road", "validate"} => Mature(world)
  /\ phase = "road" => world.region = Founded(0, 0)
  /\ phase = "validate" => Roaded(world)
  /\ phase # "HYDROLOGY"
  /\ phase = "ROAD_CORRIDOR" => Cardinality(world.road \cap world.river) = 2
  /\ phase = "INVARIANT" =>
       report.failed = {"TERRAIN_COVERAGE"} /\ ~choice.fallback

LEMMA FoundStarts == CandidateInit => FoundIInv
BY DEF CandidateInit, GeneratedInit, LoadedInit, FoundIInv

LEMMA CoastFinds == TypedIInv /\ FoundIInv /\ Coast => FoundIInv'
<1> SUFFICES ASSUME TypedIInv, FoundIInv, Coast PROVE FoundIInv'
  OBVIOUS
<1>1. /\ phase = "coast" /\ phase' = "river" /\ choice' = choice /\ world = Blank
      /\ choice \in Choices /\ world \in Worlds
  BY DEF Coast, FoundIInv, TypedIInv, CandidateTypeOK, ValidateTypeOK
<1>2. Charted(world') /\ Uncarved(world') /\ Unsettled(world')
  BY <1>1, CoastCharts
<1>3. Charted(world)' /\ Uncarved(world)' /\ Unsettled(world)'
  BY <1>1, <1>2, ToldStays
<1> QED
  BY <1>1, <1>3 DEF FoundIInv

LEMMA RiverFinds == TypedIInv /\ FoundIInv /\ ConstructRiver => FoundIInv'
<1> SUFFICES ASSUME TypedIInv, FoundIInv, ConstructRiver PROVE FoundIInv'
  OBVIOUS
<1>1. /\ phase = "river" /\ choice \in Choices
      /\ Charted(world) /\ Uncarved(world) /\ Unsettled(world)
  BY DEF ConstructRiver, FoundIInv, TypedIInv
<1>2. /\ phase' = "biome" /\ choice' = choice
      /\ Charted(world') /\ Carved(world') /\ Unsettled(world')
  BY <1>1, RiverCarves
<1>3. Charted(world)' /\ Carved(world)' /\ Unsettled(world)'
  BY <1>2, ToldStays
<1> QED
  BY <1>2, <1>3 DEF FoundIInv

LEMMA BiomesFind == TypedIInv /\ FoundIInv /\ AssignBiomes => FoundIInv'
<1> SUFFICES ASSUME TypedIInv, FoundIInv, AssignBiomes PROVE FoundIInv'
  OBVIOUS
<1>1. /\ phase = "biome" /\ choice \in Choices
      /\ Charted(world) /\ Carved(world) /\ Unsettled(world)
  BY DEF AssignBiomes, FoundIInv, TypedIInv
<1>2. /\ phase' = (IF choice.fallback THEN "fallback" ELSE "entities")
      /\ choice' = choice
      /\ Charted(world') /\ Carved(world') /\ Unsettled(world') /\ Damp(world')
  BY <1>1, BiomesGrow
<1>3. Charted(world)' /\ Carved(world)' /\ Unsettled(world)' /\ Damp(world)'
  BY <1>2, ToldStays
<1>4. phase' = "entities" => Supplied(world)'
  BY <1>2 DEF Supplied
<1>5. phase' \in {"fallback", "entities"}
  BY <1>2
<1> QED
  BY <1>3, <1>4, <1>5 DEF FoundIInv

LEMMA MissingFinds == TypedIInv /\ FoundIInv /\ ConstructMissing => FoundIInv'
<1> SUFFICES ASSUME TypedIInv, FoundIInv, ConstructMissing PROVE FoundIInv'
  OBVIOUS
<1>1. /\ phase = "fallback" /\ choice \in Choices
      /\ Charted(world) /\ Carved(world) /\ Unsettled(world) /\ Damp(world)
  BY DEF ConstructMissing, FoundIInv, TypedIInv
<1>2. /\ phase' = "entities" /\ choice' = choice
      /\ Charted(world') /\ Carved(world') /\ Unsettled(world') /\ Damp(world')
      /\ Supplied(world')
  BY <1>1, MissingSupplies
<1>3. /\ Charted(world)' /\ Carved(world)' /\ Unsettled(world)' /\ Damp(world)'
      /\ Supplied(world)'
  BY <1>2, ToldStays
<1> QED
  BY <1>2, <1>3 DEF FoundIInv

LEMMA EntitiesFind == TypedIInv /\ FoundIInv /\ InitializeEntities => FoundIInv'
<1> SUFFICES ASSUME TypedIInv, FoundIInv, InitializeEntities PROVE FoundIInv'
  OBVIOUS
<1>1. /\ phase = "entities" /\ choice \in Choices
      /\ Charted(world) /\ Carved(world) /\ Unsettled(world) /\ Damp(world)
      /\ Supplied(world)
  BY DEF InitializeEntities, FoundIInv, TypedIInv
<1>2. /\ phase' = "road" /\ choice' = choice
      /\ Charted(world') /\ Carved(world') /\ Damp(world') /\ Supplied(world')
      /\ Settled(world') /\ world'.region = Founded(0, 0)
  BY <1>1, EntitiesSettle
<1>3. /\ Charted(world)' /\ Carved(world)' /\ Damp(world)' /\ Supplied(world)'
      /\ Settled(world)' /\ Founded(0, 0)' = Founded(0, 0)
  BY <1>2, ToldStays
<1>4. Mature(world)' /\ world'.region = Founded(0, 0)'
  BY <1>2, <1>3 DEF Mature
<1> QED
  BY <1>2, <1>4 DEF FoundIInv

LEMMA RoadFinds == TypedIInv /\ FoundIInv /\ ConstructRoad => FoundIInv'
<1> SUFFICES ASSUME TypedIInv, FoundIInv, ConstructRoad PROVE FoundIInv'
  OBVIOUS
<1>1. /\ phase = "road" /\ choice \in Choices /\ Surveyed
      /\ Mature(world) /\ world.region = Founded(0, 0)
  BY DEF ConstructRoad, FoundIInv, TypedIInv
<1>2. /\ choice' = choice
      /\ \/ /\ phase' = "ROAD_CORRIDOR"
            /\ Cardinality(world'.road \cap world'.river) = 2
         \/ phase' = "validate" /\ Mature(world') /\ Roaded(world')
  BY <1>1, RoadRuns
<1>3. CASE /\ phase' = "ROAD_CORRIDOR"
           /\ Cardinality(world'.road \cap world'.river) = 2
  BY <1>3 DEF FoundIInv
<1>4. CASE phase' = "validate" /\ Mature(world') /\ Roaded(world')
  <2>1. /\ Charted(world') /\ Carved(world') /\ Damp(world') /\ Supplied(world')
        /\ Settled(world') /\ Roaded(world')
    BY <1>4 DEF Mature
  <2>2. /\ Charted(world)' /\ Carved(world)' /\ Damp(world)' /\ Supplied(world)'
        /\ Settled(world)' /\ Roaded(world)'
    BY <1>2, <2>1, ToldStays
  <2>3. Mature(world)'
    BY <2>2 DEF Mature
  <2> QED
    BY <1>4, <2>2, <2>3 DEF FoundIInv
<1> QED
  BY <1>2, <1>3, <1>4

LEMMA VerdictFinds == TypedIInv /\ FoundIInv /\ ValidateCandidate => FoundIInv'
<1> SUFFICES ASSUME TypedIInv, FoundIInv, ValidateCandidate PROVE FoundIInv'
  OBVIOUS
<1>1. /\ phase = "validate" /\ choice \in Choices /\ choice' = choice
      /\ Mature(world) /\ Roaded(world)
      /\ report' = Report(world)
      /\ phase' = IF report'.passed = Invariants THEN "OK" ELSE "INVARIANT"
  BY DEF ValidateCandidate, FoundIInv, TypedIInv
<1>2. report'.passed = Passed(world) /\ report'.failed = Report(world).failed
  BY <1>1 DEF Report
<1>3. /\ Passed(world) # Invariants => Report(world).failed = {"TERRAIN_COVERAGE"}
      /\ choice.fallback => Passed(world) = Invariants
  BY <1>1, VerdictFalls
<1>4. phase' \in {"OK", "INVARIANT"}
  BY <1>1
<1>5. phase' = "INVARIANT" =>
        report'.failed = {"TERRAIN_COVERAGE"} /\ ~choice'.fallback
  BY <1>1, <1>2, <1>3
<1> QED
  BY <1>4, <1>5 DEF FoundIInv

LEMMA FoundStepKeeps ==
  TypedIInv /\ FoundIInv /\ [CandidateNext]_candidateVars => FoundIInv'
<1> SUFFICES ASSUME TypedIInv, FoundIInv, [CandidateNext]_candidateVars
             PROVE  FoundIInv'
  OBVIOUS
<1>1. CASE ValidateLoaded
  BY <1>1 DEF ValidateLoaded, FoundIInv
<1>2. CASE UNCHANGED candidateVars
  <2>1. /\ phase' = phase /\ world' = world /\ choice' = choice /\ report' = report
    BY <1>2 DEF candidateVars
  <2>2. /\ Charted(world) => Charted(world)'
        /\ Uncarved(world) => Uncarved(world)'
        /\ Unsettled(world) => Unsettled(world)'
        /\ Carved(world) => Carved(world)'
        /\ Damp(world) => Damp(world)'
        /\ Supplied(world) => Supplied(world)'
        /\ Settled(world) => Settled(world)'
        /\ Roaded(world) => Roaded(world)'
        /\ Founded(0, 0)' = Founded(0, 0)
    BY <2>1, ToldStays
  <2>3. Mature(world) => Mature(world)'
    BY <2>2 DEF Mature
  <2>4. (world = Blank)' <=> world = Blank
    BY <2>1 DEF Blank, NoEntity, NoRegion
  <2> QED
    BY <2>1, <2>2, <2>3, <2>4 DEF FoundIInv
<1> QED
  BY <1>1, <1>2, CoastFinds, RiverFinds, BiomesFind, MissingFinds, EntitiesFind,
     RoadFinds, VerdictFinds DEF CandidateNext

LEMMA AlwaysFound == CandidateSpec => [](TypedIInv /\ FoundIInv)
<1>1. CandidateInit => TypedIInv /\ FoundIInv
  BY TypedStarts, FoundStarts
<1>2. TypedIInv /\ FoundIInv /\ [CandidateNext]_candidateVars
        => (TypedIInv /\ FoundIInv)'
  BY TypedStepKeeps, FoundStepKeeps
<1> QED
  BY <1>1, <1>2, PTL DEF CandidateSpec

(* fd_generate_candidate: whatever it draws, the river finds its bed, and  *)
(* the only candidates refused are those whose road crosses the river a    *)
(* second time and those without one of the terrains.                      *)
THEOREM RejectsAreTold == CandidateSpec => []OnlyCoverageOrRoadRejects
<1>1. TypedIInv /\ FoundIInv => OnlyCoverageOrRoadRejects
  BY DEF TypedIInv, FoundIInv, OnlyCoverageOrRoadRejects
<1> QED
  BY <1>1, AlwaysFound, PTL

(* constructive_fallback of fd_generate_candidate: the last attempt writes *)
(* the terrains it may lack, so that one that has found its road is never  *)
(* refused by fd_world_validate.                                           *)
THEOREM FallbackIsTold == CandidateSpec => []FallbackHasItsTerrain
<1>1. TypedIInv /\ FoundIInv => FallbackHasItsTerrain
  BY DEF FoundIInv, FallbackHasItsTerrain
<1> QED
  BY <1>1, AlwaysFound, PTL
=============================================================================
