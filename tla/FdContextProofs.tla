-------------------------- MODULE FdContextProofs --------------------------
(***************************************************************************)
(* Proofs about FdContext for any set of threads, any finite set of        *)
(* handles and any block sizes.  The invariant is the conjunction IInv: it *)
(* ties each thread's place in a call to the handle the call works on, and *)
(* from there to the context's counters; BytesInv counts, byte by byte,    *)
(* what live_bytes stands for.                                             *)
(***************************************************************************)
EXTENDS FdContext, FiniteSetTheorems, TLAPS

MakingPCs == {"alloc", "count_alloc", "add_live", "load_peak", "raise_peak", "built"}
FreeingPCs == {"free", "count_free", "sub_live"}

(* A thread outside a call has no handle; inside, the handle's status and  *)
(* number of blocks fit the thread's place.                                *)
CallOK(t) ==
  LET h == target[t] IN
  /\ pc[t] \in {"idle", "destroy_context"} <=> h = NoHandle
  /\ pc[t] \in MakingPCs => status[h] = "making"
  /\ pc[t] \in FreeingPCs => status[h] \in {"making", "dying"}
  /\ pc[t] = "release" => status[h] = "dying" /\ blocks[h] = 0
  /\ pc[t] = "alloc" => blocks[h] < Len(Layout[h])
  /\ pc[t] \in {"count_alloc", "add_live", "load_peak", "raise_peak", "free"}
       => blocks[h] >= 1
  /\ pc[t] = "built" => blocks[h] = Len(Layout[h])
  /\ pc[t] \in {"count_free", "sub_live"} => blocks[h] < Len(Layout[h])

(* A handle at rest has none or all of its blocks; one that is being made  *)
(* or destroyed is some thread's; a snapshot is made of a live world.      *)
HandleOK(h) ==
  /\ status[h] = "live" => blocks[h] = Len(Layout[h])
  /\ status[h] = "none" => blocks[h] = 0
  /\ status[h] \in {"making", "dying"} => \E t \in Threads : target[t] = h
  /\ status[h] = "making" /\ Parent[h] # NoHandle => status[Parent[h]] = "live"

(* No two calls work on one handle. *)
OneCallPerHandle ==
  \A t, u \in Threads : target[t] = target[u] /\ target[t] # NoHandle => t = u

(* The thread that is about to free the context is alone with it. *)
DestroyerAlone ==
  \A t \in Threads : pc[t] = "destroy_context" =>
    /\ context = "live"
    /\ \A h \in Handles : status[h] = "none"
    /\ \A u \in Threads : u # t => pc[u] = "idle"

CallsInv ==
  /\ \A t \in Threads : CallOK(t)
  /\ \A h \in Handles : HandleOK(h)
  /\ OneCallPerHandle
  /\ DestroyerAlone
  /\ ContextOutlivesUse
  /\ HandleCountExact

(* What a thread in the loop knows of the peak. *)
PeakInv ==
  /\ PeakIsHighWater
  /\ live_bytes <= maxLive
  /\ \A value \in peakPast : value <= peak_live_bytes
  /\ \A t \in Threads :
       /\ pc[t] \in {"load_peak", "raise_peak"} => live[t] <= maxLive
       /\ pc[t] = "raise_peak" => peak[t] <= peak_live_bytes

IInv == TypeOK /\ CallsInv /\ PeakInv

-----------------------------------------------------------------------------
(* The sizes of a handle's blocks are positive. *)
LEMMA BlockSizes ==
  ASSUME NEW h \in Handles
  PROVE  /\ Len(Layout[h]) \in Nat \ {0}
         /\ \A i \in 1 .. Len(Layout[h]) : Layout[h][i] \in Nat \ {0}
BY LayoutAssumption

(* A thread inside a call works on a handle. *)
LEMMA InCall ==
  ASSUME TypeOK, CallsInv, NEW t \in Threads,
         pc[t] \notin {"idle", "destroy_context"}
  PROVE  target[t] \in Handles /\ CallOK(t)
BY DEF TypeOK, CallsInv, CallOK

(* A call that returns leaves well-typed locals. *)
LEMMA ReturnType ==
  ASSUME TypeOK, NEW t \in Threads, Return(t)
  PROVE  /\ target' \in [Threads -> Handles \cup {NoHandle}]
         /\ live' \in [Threads -> Int] /\ peak' \in [Threads -> Nat]
         /\ pc' \in [Threads -> PCs]
BY DEF Return, Goto, TypeOK, PCs

(* Every step keeps the types: what a thread adds to or subtracts from a   *)
(* counter is the size of a block its handle really has.                   *)
LEMMA TypeStep == TypeOK /\ CallsInv /\ [Next]_vars => TypeOK'
<1> SUFFICES ASSUME TypeOK, CallsInv, [Next]_vars
             PROVE  TypeOK'
  OBVIOUS
<1>1. ASSUME NEW t \in Threads, NEW h \in Handles, BeginCreate(t, h)
      PROVE  TypeOK'
  BY <1>1 DEF BeginCreate, Goto, TypeOK, PCs, counters, history
<1>2. ASSUME NEW t \in Threads, NEW h \in Handles, BeginDestroy(t, h)
      PROVE  TypeOK'
  BY <1>2 DEF BeginDestroy, Goto, TypeOK, PCs, counters, history
<1>3. ASSUME NEW t \in Threads, ContextCreate(t)
      PROVE  TypeOK'
  BY <1>3 DEF ContextCreate, TypeOK, PCs, counters, history
<1>4. ASSUME NEW t \in Threads, ContextDestroyLoad(t)
      PROVE  TypeOK'
  BY <1>4 DEF ContextDestroyLoad, Goto, TypeOK, PCs, counters, history
<1>5. ASSUME NEW t \in Threads, ContextDestroyFree(t)
      PROVE  TypeOK'
  BY <1>5 DEF ContextDestroyFree, Goto, TypeOK, PCs, counters, history
<1>6. ASSUME NEW t \in Threads, AllocateBlock(t)
      PROVE  TypeOK'
  <2>1. target[t] \in Handles /\ CallOK(t)
    BY <1>6, InCall DEF AllocateBlock
  <2>2. Len(Layout[target[t]]) \in Nat
    BY <2>1, BlockSizes
  <2>. QED
    BY <1>6, <2>1, <2>2 DEF AllocateBlock, Goto, TypeOK, PCs, counters, history, CallOK
<1>7. ASSUME NEW t \in Threads, AllocateFails(t)
      PROVE  TypeOK'
  <2>2. /\ status' \in [Handles -> {"none", "making", "live", "dying"}]
        /\ target' \in [Threads -> Handles \cup {NoHandle}]
        /\ live' \in [Threads -> Int] /\ peak' \in [Threads -> Nat]
        /\ pc' \in [Threads -> PCs]
    <3>1. CASE blocks[target[t]] = 0
      BY <1>7, <3>1, ReturnType DEF AllocateFails, TypeOK
    <3>2. CASE blocks[target[t]] # 0
      BY <1>7, <3>2 DEF AllocateFails, Goto, TypeOK, PCs
    <3>. QED
      BY <3>1, <3>2
  <2>. QED
    BY <1>7, <2>2 DEF AllocateFails, TypeOK, counters, history
<1>8. ASSUME NEW t \in Threads, CountAllocation(t)
      PROVE  TypeOK'
  BY <1>8 DEF CountAllocation, Goto, TypeOK, PCs, counters, history
<1>9. ASSUME NEW t \in Threads, AddLiveBytes(t)
      PROVE  TypeOK'
  <2>1. target[t] \in Handles /\ CallOK(t)
    BY <1>9, InCall DEF AddLiveBytes
  <2>2. blocks[target[t]] \in 1 .. Len(Layout[target[t]])
    BY <1>9, <2>1, BlockSizes DEF AddLiveBytes, CallOK, TypeOK
  <2>3. Layout[target[t]][blocks[target[t]]] \in Nat
    BY <2>1, <2>2, BlockSizes
  <2>. QED
    BY <1>9, <2>1, <2>3 DEF AddLiveBytes, Goto, TypeOK, PCs, counters, history
<1>10. ASSUME NEW t \in Threads, LoadPeak(t)
      PROVE  TypeOK'
  BY <1>10 DEF LoadPeak, Goto, TypeOK, PCs, counters, history
<1>11. ASSUME NEW t \in Threads, PeakHighEnough(t)
      PROVE  TypeOK'
  BY <1>11 DEF PeakHighEnough, Goto, AfterAlloc, TypeOK, PCs, counters, history
<1>12. ASSUME NEW t \in Threads, RaisePeak(t)
      PROVE  TypeOK'
  <2>1. AfterAlloc(t) \in PCs
    BY DEF AfterAlloc, PCs
  <2>2. live[t] \in Nat
    BY <1>12 DEF RaisePeak, TypeOK
  <2>. QED
    BY <1>12, <2>1, <2>2 DEF RaisePeak, Goto, TypeOK, counters, history
<1>13. ASSUME NEW t \in Threads, RaisePeakRetry(t)
      PROVE  TypeOK'
  BY <1>13 DEF RaisePeakRetry, TypeOK, PCs, counters, history
<1>14. ASSUME NEW t \in Threads, Publish(t)
      PROVE  TypeOK'
  <2>1. /\ Return(t) /\ UNCHANGED <<context, counters, blocks, history>>
        /\ status' = [status EXCEPT ![target[t]] = "live"]
        /\ live_handles' = live_handles + 1
    BY <1>14 DEF Publish
  <2>2. status' \in [Handles -> {"none", "making", "live", "dying"}]
    BY <2>1 DEF TypeOK
  <2>3. live_handles' \in Int
    BY <2>1 DEF TypeOK
  <2>. QED
    BY <2>1, <2>2, <2>3, ReturnType DEF TypeOK, counters, history
<1>15. ASSUME NEW t \in Threads, Refuse(t)
      PROVE  TypeOK'
  BY <1>15 DEF Refuse, Goto, TypeOK, PCs, counters, history
<1>16. ASSUME NEW t \in Threads, FreeBlock(t)
      PROVE  TypeOK'
  <2>1. target[t] \in Handles /\ CallOK(t)
    BY <1>16, InCall DEF FreeBlock
  <2>2. blocks[target[t]] - 1 \in Nat
    BY <1>16, <2>1 DEF FreeBlock, CallOK, TypeOK
  <2>3. blocks' \in [Handles -> Nat] /\ \A h \in Handles : blocks'[h] <= blocks[h]
    BY <1>16, <2>1, <2>2 DEF FreeBlock, TypeOK
  <2>4. \A h \in Handles : blocks'[h] <= Len(Layout[h])
    BY <2>3, BlockSizes DEF TypeOK
  <2>. QED
    BY <1>16, <2>3, <2>4 DEF FreeBlock, Goto, TypeOK, PCs, counters, history
<1>17. ASSUME NEW t \in Threads, CountDeallocation(t)
      PROVE  TypeOK'
  BY <1>17 DEF CountDeallocation, Goto, TypeOK, PCs, counters, history
<1>18. ASSUME NEW t \in Threads, SubLiveBytes(t)
      PROVE  TypeOK'
  <2>1. target[t] \in Handles /\ CallOK(t)
    BY <1>18, InCall DEF SubLiveBytes
  <2>2. blocks[target[t]] + 1 \in 1 .. Len(Layout[target[t]])
    BY <1>18, <2>1, BlockSizes DEF SubLiveBytes, CallOK, TypeOK
  <2>3. Layout[target[t]][blocks[target[t]] + 1] \in Nat
    BY <2>1, <2>2, BlockSizes
  <2>4. live_bytes' \in Int
    BY <1>18, <2>3 DEF SubLiveBytes, TypeOK
  <2>5. /\ status' \in [Handles -> {"none", "making", "live", "dying"}]
        /\ target' \in [Threads -> Handles \cup {NoHandle}]
        /\ live' \in [Threads -> Int] /\ peak' \in [Threads -> Nat]
        /\ pc' \in [Threads -> PCs]
    <3>1. CASE blocks[target[t]] > 0 \/ status[target[t]] = "dying"
      BY <1>18, <3>1 DEF SubLiveBytes, Goto, TypeOK, PCs
    <3>2. CASE ~ (blocks[target[t]] > 0 \/ status[target[t]] = "dying")
      BY <1>18, <3>2, ReturnType DEF SubLiveBytes, TypeOK
    <3>. QED
      BY <3>1, <3>2
  <2>. QED
    BY <1>18, <2>4, <2>5 DEF SubLiveBytes, TypeOK, counters, history
<1>19. ASSUME NEW t \in Threads, ReleaseHandle(t)
      PROVE  TypeOK'
  <2>1. /\ Return(t) /\ UNCHANGED <<context, counters, blocks, history>>
        /\ status' = [status EXCEPT ![target[t]] = "none"]
        /\ live_handles' = live_handles - 1
    BY <1>19 DEF ReleaseHandle
  <2>2. status' \in [Handles -> {"none", "making", "live", "dying"}]
    BY <2>1 DEF TypeOK
  <2>3. live_handles' \in Int
    BY <2>1 DEF TypeOK
  <2>. QED
    BY <2>1, <2>2, <2>3, ReturnType DEF TypeOK, counters, history
<1>20. CASE UNCHANGED vars
  BY <1>20 DEF vars, TypeOK, counters, history
<1>21. QED
  BY <1>1, <1>2, <1>3, <1>4, <1>5, <1>6, <1>7, <1>8, <1>9, <1>10, <1>11, <1>12, <1>13, <1>14, <1>15, <1>16, <1>17, <1>18, <1>19, <1>20 DEF Next, HostCall, CallStep

-----------------------------------------------------------------------------
(* A step in the middle of a call: thread t moves on, the only handle      *)
(* whose blocks may change is the one it works on, and no status does.     *)
InnerStep(t) ==
  /\ pc[t] \notin {"idle", "destroy_context"}
  /\ pc' = [pc EXCEPT ![t] = pc'[t]]
  /\ pc'[t] \notin {"idle", "destroy_context"}
  /\ UNCHANGED <<context, live_handles, status, target>>
  /\ \A h \in Handles : h # target[t] => blocks'[h] = blocks[h]
  /\ CallOK(t)'

(* Such a step keeps the invariant of the calls. *)
LEMMA InnerStepCalls ==
  ASSUME TypeOK, CallsInv, NEW t \in Threads, InnerStep(t)
  PROVE  CallsInv'
<1>1. target[t] \in Handles /\ CallOK(t)
  BY InCall DEF InnerStep
<1>2. ASSUME NEW u \in Threads
      PROVE  CallOK(u)'
  <2>1. CASE u = t
    BY <2>1 DEF InnerStep
  <2>2. CASE u # t
    <3>1. pc'[u] = pc[u] /\ target'[u] = target[u] /\ CallOK(u)
      BY <2>2 DEF InnerStep, TypeOK, CallsInv
    <3>2. CASE target[u] = NoHandle
      BY <3>1, <3>2 DEF CallOK, MakingPCs, FreeingPCs
    <3>3. CASE target[u] # NoHandle
      <4>1. target[u] \in Handles /\ target[u] # target[t]
        BY <2>2, <3>3 DEF TypeOK, CallsInv, OneCallPerHandle
      <4>2. blocks'[target[u]] = blocks[target[u]] /\ status' = status
        BY <4>1 DEF InnerStep
      <4>. QED
        BY <3>1, <4>2 DEF CallOK
    <3>. QED
      BY <3>2, <3>3
  <2>. QED
    BY <2>1, <2>2
<1>3. ASSUME NEW h \in Handles
      PROVE  HandleOK(h)'
  <2>1. HandleOK(h) /\ status' = status /\ target' = target
    BY DEF CallsInv, InnerStep
  <2>2. CASE h = target[t]
    <3>1. status[h] \in {"making", "dying"}
      BY <1>1, <2>2 DEF CallOK, InnerStep, MakingPCs, FreeingPCs, TypeOK, PCs
    <3>. QED
      BY <2>1, <3>1 DEF HandleOK
  <2>3. CASE h # target[t]
    BY <2>1, <2>3 DEF HandleOK, InnerStep
  <2>. QED
    BY <2>2, <2>3
<1>4. OneCallPerHandle'
  BY DEF CallsInv, OneCallPerHandle, InnerStep
<1>5. DestroyerAlone'
  BY DEF CallsInv, DestroyerAlone, InnerStep, TypeOK
<1>6. ContextOutlivesUse'
  BY DEF CallsInv, ContextOutlivesUse, InnerStep
<1>7. HandleCountExact'
  BY DEF CallsInv, HandleCountExact, Counted, InnerStep
<1>. QED
  BY <1>2, <1>3, <1>4, <1>5, <1>6, <1>7 DEF CallsInv

(* Most actions of a call are such steps. *)
LEMMA InnerActions ==
  ASSUME TypeOK, CallsInv, NEW t \in Threads,
         \/ AllocateBlock(t)
         \/ CountAllocation(t)
         \/ AddLiveBytes(t)
         \/ LoadPeak(t)
         \/ PeakHighEnough(t)
         \/ RaisePeak(t)
         \/ RaisePeakRetry(t)
         \/ Refuse(t)
         \/ FreeBlock(t)
         \/ CountDeallocation(t)
  PROVE  InnerStep(t)
<1>1. pc[t] \notin {"idle", "destroy_context"}
  BY DEF AllocateBlock, CountAllocation, AddLiveBytes, LoadPeak, PeakHighEnough, RaisePeak, RaisePeakRetry, Refuse, FreeBlock, CountDeallocation
<1>2. target[t] \in Handles /\ CallOK(t)
  BY <1>1, InCall
<1>3. Len(Layout[target[t]]) \in Nat \ {0} /\ blocks[target[t]] \in Nat
      /\ blocks[target[t]] <= Len(Layout[target[t]])
  BY <1>2, BlockSizes DEF TypeOK
<1> USE DEF InnerStep, CallOK, MakingPCs, FreeingPCs, Goto, TypeOK
<1>4. CASE AllocateBlock(t)
  BY <1>4, <1>2, <1>3 DEF AllocateBlock
<1>5. CASE CountAllocation(t)
  BY <1>5, <1>2, <1>3 DEF CountAllocation
<1>6. CASE AddLiveBytes(t)
  BY <1>6, <1>2, <1>3 DEF AddLiveBytes
<1>7. CASE LoadPeak(t)
  BY <1>7, <1>2, <1>3 DEF LoadPeak
<1>8. CASE PeakHighEnough(t)
  BY <1>8, <1>2, <1>3 DEF PeakHighEnough, AfterAlloc
<1>9. CASE RaisePeak(t)
  BY <1>9, <1>2, <1>3 DEF RaisePeak, AfterAlloc
<1>10. CASE RaisePeakRetry(t)
  BY <1>10, <1>2, <1>3 DEF RaisePeakRetry
<1>11. CASE Refuse(t)
  BY <1>11, <1>2, <1>3 DEF Refuse
<1>12. CASE FreeBlock(t)
  BY <1>12, <1>2, <1>3 DEF FreeBlock
<1>13. CASE CountDeallocation(t)
  BY <1>13, <1>2, <1>3 DEF CountDeallocation
<1>. QED
  BY <1>4, <1>5, <1>6, <1>7, <1>8, <1>9, <1>10, <1>11, <1>12, <1>13

-----------------------------------------------------------------------------
(* The last step of a call: thread t returns, its handle h reaches rest,   *)
(* and live_handles follows.                                               *)
LastStep(t, h) ==
  /\ pc[t] \notin {"idle", "destroy_context"} /\ h = target[t]
  /\ Return(t)
  /\ UNCHANGED <<context, blocks>>
  /\ \/ /\ status' = [status EXCEPT ![h] = "none"] /\ blocks[h] = 0
        /\ \/ status[h] = "making" /\ live_handles' = live_handles
           \/ status[h] = "dying" /\ live_handles' = live_handles - 1
     \/ /\ status' = [status EXCEPT ![h] = "live"] /\ blocks[h] = Len(Layout[h])
        /\ status[h] = "making" /\ live_handles' = live_handles + 1

(* The count of handles follows their statuses through such a step. *)
LEMMA LastStepCount ==
  ASSUME TypeOK, CallsInv, NEW t \in Threads, NEW h \in Handles, LastStep(t, h)
  PROVE  HandleCountExact'
<1>1. IsFiniteSet(Counted)
  BY FS_Subset, HandleAssumption DEF Counted
<1>2. live_handles = Cardinality(Counted) /\ Cardinality(Counted) \in Nat
  BY <1>1, FS_CardinalityType DEF CallsInv, HandleCountExact
<1>3. CASE /\ status' = [status EXCEPT ![h] = "none"]
           /\ status[h] = "making" /\ live_handles' = live_handles
  <2>1. Counted' = Counted
    BY <1>3 DEF Counted, TypeOK
  <2>. QED
    BY <1>2, <1>3, <2>1 DEF HandleCountExact
<1>4. CASE /\ status' = [status EXCEPT ![h] = "none"]
           /\ status[h] = "dying" /\ live_handles' = live_handles - 1
  <2>1. Counted' = Counted \ {h} /\ h \in Counted
    BY <1>4 DEF Counted, TypeOK
  <2>2. Cardinality(Counted \ {h}) = Cardinality(Counted) - 1
    BY <1>1, <2>1, FS_RemoveElement
  <2>. QED
    BY <1>2, <1>4, <2>1, <2>2 DEF HandleCountExact
<1>5. CASE /\ status' = [status EXCEPT ![h] = "live"]
           /\ status[h] = "making" /\ live_handles' = live_handles + 1
  <2>1. Counted' = Counted \cup {h} /\ h \notin Counted
    BY <1>5 DEF Counted, TypeOK
  <2>2. Cardinality(Counted \cup {h}) = Cardinality(Counted) + 1
    BY <1>1, <2>1, FS_AddElement
  <2>. QED
    BY <1>2, <1>5, <2>1, <2>2 DEF HandleCountExact
<1>. QED
  BY <1>3, <1>4, <1>5 DEF LastStep

(* Such a step keeps the invariant of the calls. *)
LEMMA LastStepCalls ==
  ASSUME TypeOK, CallsInv, NEW t \in Threads, NEW h \in Handles, LastStep(t, h)
  PROVE  CallsInv'
<1>1. /\ target' = [target EXCEPT ![t] = NoHandle] /\ pc' = [pc EXCEPT ![t] = "idle"]
      /\ blocks' = blocks /\ context' = context /\ target[t] = h
  BY DEF LastStep, Return, Goto
<1>2. status[h] \in {"making", "dying"} /\ \A g \in Handles : g # h => status'[g] = status[g]
  BY DEF LastStep, TypeOK
<1>3. status'[h] \in {"none", "live"}
  BY DEF LastStep, TypeOK
<1>4. ASSUME NEW u \in Threads
      PROVE  CallOK(u)'
  <2>1. CASE u = t
    BY <1>1, <2>1 DEF CallOK, TypeOK, MakingPCs, FreeingPCs
  <2>2. CASE u # t
    <3>1. pc'[u] = pc[u] /\ target'[u] = target[u] /\ CallOK(u) /\ blocks' = blocks
      BY <1>1, <2>2 DEF TypeOK, CallsInv
    <3>2. CASE target[u] = NoHandle
      BY <3>1, <3>2 DEF CallOK, MakingPCs, FreeingPCs
    <3>3. CASE target[u] # NoHandle
      <4>1. target[u] \in Handles /\ target[u] # h
        BY <1>1, <2>2, <3>3 DEF TypeOK, CallsInv, OneCallPerHandle
      <4>. QED
        BY <1>2, <3>1, <4>1 DEF CallOK
    <3>. QED
      BY <3>2, <3>3
  <2>. QED
    BY <2>1, <2>2
<1>5. ASSUME NEW g \in Handles
      PROVE  HandleOK(g)'
  <2>1. HandleOK(g) /\ blocks' = blocks
    BY <1>1 DEF CallsInv
  <2>2. CASE g = h
    BY <1>1, <1>3, <2>2 DEF LastStep, HandleOK, TypeOK
  <2>3. CASE g # h
    <3>1. status'[g] = status[g]
      BY <1>2, <2>3
    <3>2. status[g] \in {"making", "dying"} => \E u \in Threads : target'[u] = g
      BY <1>1, <2>1, <2>3 DEF HandleOK, TypeOK
    <3>3. status[g] = "making" /\ Parent[g] # NoHandle => status'[Parent[g]] = "live"
      BY <1>2, <2>1, HandleAssumption DEF HandleOK
    <3>. QED
      BY <2>1, <3>1, <3>2, <3>3 DEF HandleOK
  <2>. QED
    BY <2>2, <2>3
<1>6. OneCallPerHandle'
  BY <1>1 DEF CallsInv, OneCallPerHandle, TypeOK
<1>7. DestroyerAlone'
  <2>1. pc'[t] = "idle" /\ pc[t] \notin {"idle", "destroy_context"}
        /\ \A u \in Threads : u # t => pc'[u] = pc[u]
    BY <1>1 DEF LastStep, TypeOK
  <2>. QED
    BY <2>1 DEF CallsInv, DestroyerAlone
<1>8. ContextOutlivesUse'
  BY <1>1 DEF CallsInv, ContextOutlivesUse, LastStep
<1>. QED
  BY <1>4, <1>5, <1>6, <1>7, <1>8, LastStepCount DEF CallsInv

(* A call that fails, publishes or finishes a destruction ends so; the     *)
(* frees in between are inner steps.                                       *)
LEMMA EndingActions ==
  ASSUME TypeOK, CallsInv, NEW t \in Threads,
         AllocateFails(t) \/ SubLiveBytes(t) \/ Publish(t) \/ ReleaseHandle(t)
  PROVE  InnerStep(t) \/ \E h \in Handles : LastStep(t, h)
<1>1. pc[t] \notin {"idle", "destroy_context"}
  BY DEF AllocateFails, SubLiveBytes, Publish, ReleaseHandle
<1>2. target[t] \in Handles /\ CallOK(t)
  BY <1>1, InCall
<1>3. blocks[target[t]] \in Nat
  BY <1>2 DEF TypeOK
<1>4. CASE AllocateFails(t)
  <2>1. CASE blocks[target[t]] = 0
    BY <1>1, <1>2, <1>4, <2>1 DEF AllocateFails, LastStep, CallOK, MakingPCs
  <2>2. CASE blocks[target[t]] # 0
    BY <1>1, <1>2, <1>3, <1>4, <2>2
    DEF AllocateFails, InnerStep, CallOK, Goto, MakingPCs, FreeingPCs, TypeOK
  <2>. QED
    BY <2>1, <2>2
<1>5. CASE SubLiveBytes(t)
  <2>1. CASE blocks[target[t]] > 0 \/ status[target[t]] = "dying"
    BY <1>1, <1>2, <1>3, <1>5, <2>1
    DEF SubLiveBytes, InnerStep, CallOK, Goto, MakingPCs, FreeingPCs, TypeOK
  <2>2. CASE ~ (blocks[target[t]] > 0 \/ status[target[t]] = "dying")
    BY <1>1, <1>2, <1>3, <1>5, <2>2 DEF SubLiveBytes, LastStep, CallOK, FreeingPCs
  <2>. QED
    BY <2>1, <2>2
<1>6. CASE Publish(t)
  BY <1>1, <1>2, <1>6 DEF Publish, LastStep, CallOK, MakingPCs
<1>7. CASE ReleaseHandle(t)
  BY <1>1, <1>2, <1>7 DEF ReleaseHandle, LastStep, CallOK
<1>. QED
  BY <1>4, <1>5, <1>6, <1>7

-----------------------------------------------------------------------------
(* A call begins on handle h: its status becomes "making" or "dying".      *)
LEMMA BeginCalls ==
  ASSUME TypeOK, CallsInv, NEW t \in Threads, NEW h \in Handles,
         BeginCreate(t, h) \/ BeginDestroy(t, h)
  PROVE  CallsInv'
<1>1. /\ pc[t] = "idle" /\ target[t] = NoHandle
      /\ target' = [target EXCEPT ![t] = h]
      /\ UNCHANGED <<context, blocks, live_handles>>
  BY DEF BeginCreate, BeginDestroy, CallsInv, CallOK
<1>2. \A g \in Handles : g # h => status'[g] = status[g]
  BY DEF BeginCreate, BeginDestroy, TypeOK
<1>3. \A u \in Threads : target[u] # h
  <2>1. ASSUME NEW u \in Threads, target[u] = h
        PROVE  FALSE
    <3>1. CallOK(u) /\ h # NoHandle /\ pc[u] \in PCs
      BY HandleAssumption DEF CallsInv, TypeOK
    <3>2. status[h] \in {"making", "dying"}
      BY <2>1, <3>1 DEF CallOK, MakingPCs, FreeingPCs, PCs
    <3>. QED
      BY <3>2 DEF BeginCreate, BeginDestroy
  <2>. QED
    BY <2>1
<1>4. ASSUME NEW u \in Threads
      PROVE  CallOK(u)'
  <2>1. CASE u = t
    <3>1. h # NoHandle /\ Len(Layout[h]) \in Nat \ {0} /\ HandleOK(h)
      BY HandleAssumption, BlockSizes DEF CallsInv
    <3>2. CASE BeginCreate(t, h)
      BY <1>1, <2>1, <3>1, <3>2
      DEF BeginCreate, CallOK, HandleOK, Goto, MakingPCs, FreeingPCs, TypeOK
    <3>3. CASE BeginDestroy(t, h)
      BY <1>1, <2>1, <3>1, <3>3
      DEF BeginDestroy, CallOK, HandleOK, Goto, MakingPCs, FreeingPCs, TypeOK
    <3>. QED
      BY <3>2, <3>3
  <2>2. CASE u # t
    <3>1. pc'[u] = pc[u] /\ target'[u] = target[u] /\ CallOK(u) /\ blocks' = blocks
      BY <1>1, <2>2 DEF BeginCreate, BeginDestroy, Goto, TypeOK, CallsInv
    <3>2. CASE target[u] = NoHandle
      BY <3>1, <3>2 DEF CallOK, MakingPCs, FreeingPCs
    <3>3. CASE target[u] # NoHandle
      BY <1>2, <1>3, <3>1, <3>3 DEF CallOK, TypeOK
    <3>. QED
      BY <3>2, <3>3
  <2>. QED
    BY <2>1, <2>2
<1>5. ASSUME NEW g \in Handles
      PROVE  HandleOK(g)'
  <2>1. HandleOK(g) /\ blocks' = blocks
    BY <1>1 DEF CallsInv
  <2>2. status'[g] \in {"making", "dying"} => \E u \in Threads : target'[u] = g
    <3>1. CASE g = h
      BY <1>1, <3>1 DEF TypeOK
    <3>2. CASE g # h
      <4>1. ASSUME NEW u \in Threads, target[u] = g
            PROVE  target'[u] = g
        BY <1>1, <4>1, HandleAssumption DEF TypeOK
      <4>. QED
        BY <1>2, <2>1, <3>2, <4>1 DEF HandleOK
    <3>. QED
      BY <3>1, <3>2
  <2>3. CASE BeginCreate(t, h)
    <3>1. status'[h] = "making" /\ (Parent[h] # NoHandle => status[Parent[h]] = "live")
          /\ status[h] = "none"
      BY <2>3 DEF BeginCreate, TypeOK
    <3>2. ASSUME status'[g] = "making", Parent[g] # NoHandle
          PROVE  status'[Parent[g]] = "live"
      <4>1. status[Parent[g]] = "live"
        BY <1>2, <2>1, <3>1, <3>2 DEF HandleOK
      <4>. QED
        BY <1>2, <3>1, <3>2, <4>1, HandleAssumption
    <3>. QED
      BY <1>2, <2>1, <2>2, <3>1, <3>2 DEF HandleOK
  <2>4. CASE BeginDestroy(t, h)
    <3>1. status'[h] = "dying" /\ \A s \in Handles : Parent[s] = h => status[s] # "making"
      BY <2>4 DEF BeginDestroy, TypeOK
    <3>2. ASSUME status'[g] = "making", Parent[g] # NoHandle
          PROVE  status'[Parent[g]] = "live"
      <4>1. g # h /\ status[g] = "making"
        BY <1>2, <3>1, <3>2
      <4>. QED
        BY <1>2, <2>1, <3>1, <3>2, <4>1, HandleAssumption DEF HandleOK
    <3>. QED
      BY <1>2, <2>1, <2>2, <3>1, <3>2 DEF HandleOK
  <2>. QED
    BY <2>3, <2>4
<1>6. OneCallPerHandle'
  BY <1>1, <1>3 DEF CallsInv, OneCallPerHandle, TypeOK
<1>7. DestroyerAlone' /\ ContextOutlivesUse'
  <2>1. \A u \in Threads : pc[u] # "destroy_context"
    <3>1. CASE BeginCreate(t, h)
      <4>1. ASSUME NEW u \in Threads, pc[u] = "destroy_context"
            PROVE  FALSE
        BY <3>1, <4>1, HandleAssumption DEF BeginCreate, CallsInv, DestroyerAlone
      <4>. QED
        BY <4>1
    <3>2. CASE BeginDestroy(t, h)
      BY <3>2 DEF BeginDestroy, CallsInv, DestroyerAlone
    <3>. QED
      BY <3>1, <3>2
  <2>2. \A u \in Threads : pc'[u] # "destroy_context"
    BY <2>1 DEF BeginCreate, BeginDestroy, Goto, TypeOK
  <2>3. context' # "none"
    BY <1>1 DEF BeginCreate, BeginDestroy, CallsInv, ContextOutlivesUse, TypeOK
  <2>. QED
    BY <2>2, <2>3 DEF DestroyerAlone, ContextOutlivesUse
<1>8. HandleCountExact'
  <2>1. Counted' = Counted
    BY DEF BeginCreate, BeginDestroy, Counted, TypeOK
  <2>. QED
    BY <1>1, <2>1 DEF CallsInv, HandleCountExact
<1>. QED
  BY <1>4, <1>5, <1>6, <1>7, <1>8 DEF CallsInv

(* The context is created, and destroyed with no handle and no other call. *)
LEMMA ContextCalls ==
  ASSUME TypeOK, CallsInv, NEW t \in Threads,
         ContextCreate(t) \/ ContextDestroyLoad(t) \/ ContextDestroyFree(t)
  PROVE  CallsInv'
<1>1. UNCHANGED <<status, blocks, target>> /\ \A u \in Threads : u # t => pc'[u] = pc[u]
  BY DEF ContextCreate, ContextDestroyLoad, ContextDestroyFree, Goto, TypeOK
<1>2. /\ pc[t] \in {"idle", "destroy_context"} /\ pc'[t] \in {"idle", "destroy_context"}
  BY DEF ContextCreate, ContextDestroyLoad, ContextDestroyFree, Goto, TypeOK
<1>3. \A u \in Threads : CallOK(u)'
  <2>1. ASSUME NEW u \in Threads
        PROVE  CallOK(u)'
    <3>1. CallOK(u) /\ status' = status /\ blocks' = blocks /\ target' = target
      BY <1>1 DEF CallsInv
    <3>2. CASE u = t
      BY <1>2, <3>1, <3>2 DEF CallOK, MakingPCs, FreeingPCs
    <3>3. CASE u # t
      BY <1>1, <3>1, <3>3 DEF CallOK
    <3>. QED
      BY <3>2, <3>3
  <2>. QED
    BY <2>1
<1>4. \A h \in Handles : HandleOK(h)'
  BY <1>1 DEF CallsInv, HandleOK
<1>5. OneCallPerHandle'
  BY <1>1 DEF CallsInv, OneCallPerHandle
<1>6. CASE ContextCreate(t)
  <2>1. /\ context' = "live" /\ live_handles' = 0 /\ pc' = pc /\ context = "none"
        /\ \A h \in Handles : status[h] = "none"
        /\ \A u \in Threads : pc[u] = "idle"
    BY <1>6 DEF ContextCreate, CallsInv, ContextOutlivesUse
  <2>2. Counted' = {}
    BY <1>1, <2>1 DEF Counted
  <2>3. HandleCountExact'
    BY <2>1, <2>2, FS_EmptySet DEF HandleCountExact
  <2>4. DestroyerAlone' /\ ContextOutlivesUse'
    BY <2>1 DEF DestroyerAlone, ContextOutlivesUse
  <2>. QED
    BY <1>3, <1>4, <1>5, <2>3, <2>4 DEF CallsInv
<1>7. CASE ContextDestroyLoad(t)
  <2>1. /\ context' = "live" /\ context = "live" /\ live_handles = 0 /\ live_handles' = 0
        /\ pc' = [pc EXCEPT ![t] = "destroy_context"]
        /\ \A u \in Threads : pc[u] # "destroy_context"
        /\ \A h \in Handles : status[h] = "making" => Parent[h] # NoHandle
    BY <1>7 DEF ContextDestroyLoad, Goto
  <2>2. Counted = {}
    <3>1. IsFiniteSet(Counted)
      BY FS_Subset, HandleAssumption DEF Counted
    <3>. QED
      BY <2>1, <3>1, FS_EmptySet DEF CallsInv, HandleCountExact
  <2>3. ASSUME NEW h \in Handles
        PROVE  status[h] = "none"
    <3>1. \A g \in Handles : status[g] \in {"none", "making"}
      BY <2>2 DEF Counted, TypeOK
    <3>2. status[h] # "making"
      BY <2>1, <3>1, HandleAssumption DEF CallsInv, HandleOK
    <3>. QED
      BY <3>1, <3>2
  <2>4. ASSUME NEW u \in Threads
        PROVE  pc[u] = "idle"
    <3>1. CallOK(u) /\ pc[u] \in PCs /\ target[u] \in Handles \cup {NoHandle}
      BY DEF CallsInv, TypeOK
    <3>. QED
      BY <2>1, <2>3, <3>1 DEF CallOK, MakingPCs, FreeingPCs, PCs
  <2>5. DestroyerAlone'
    BY <1>1, <2>1, <2>3, <2>4 DEF DestroyerAlone, TypeOK
  <2>6. HandleCountExact' /\ ContextOutlivesUse'
    BY <1>1, <2>1 DEF CallsInv, HandleCountExact, Counted, ContextOutlivesUse
  <2>. QED
    BY <1>3, <1>4, <1>5, <2>5, <2>6 DEF CallsInv
<1>8. CASE ContextDestroyFree(t)
  <2>1. /\ pc' = [pc EXCEPT ![t] = "idle"] /\ live_handles' = live_handles
        /\ \A h \in Handles : status[h] = "none"
        /\ \A u \in Threads : u # t => pc[u] = "idle"
    BY <1>8 DEF ContextDestroyFree, Goto, CallsInv, DestroyerAlone
  <2>2. \A u \in Threads : pc'[u] = "idle"
    BY <2>1 DEF TypeOK
  <2>3. DestroyerAlone' /\ ContextOutlivesUse'
    BY <1>1, <2>1, <2>2 DEF DestroyerAlone, ContextOutlivesUse
  <2>4. HandleCountExact'
    BY <1>1, <2>1 DEF CallsInv, HandleCountExact, Counted
  <2>. QED
    BY <1>3, <1>4, <1>5, <2>3, <2>4 DEF CallsInv
<1>. QED
  BY <1>6, <1>7, <1>8

(* Every step keeps the invariant of the calls.                            *)
LEMMA CallsStep == TypeOK /\ CallsInv /\ [Next]_vars => CallsInv'
<1> SUFFICES ASSUME TypeOK, CallsInv, [Next]_vars
             PROVE  CallsInv'
  OBVIOUS
<1>1. CASE UNCHANGED vars
  BY <1>1 DEF vars, CallsInv, CallOK, HandleOK, OneCallPerHandle, DestroyerAlone,
       ContextOutlivesUse, HandleCountExact, Counted
<1>2. ASSUME NEW t \in Threads, HostCall(t)
      PROVE  CallsInv'
  BY <1>2, BeginCalls, ContextCalls DEF HostCall
<1>3. ASSUME NEW t \in Threads, CallStep(t) \/ RaisePeakRetry(t)
      PROVE  CallsInv'
  BY <1>3, InnerActions, EndingActions, InnerStepCalls, LastStepCalls, ContextCalls
  DEF CallStep
<1>. QED
  BY <1>1, <1>2, <1>3 DEF Next

-----------------------------------------------------------------------------
(* Every step keeps the high-water mark.  The one subtle case is the       *)
(* successful compare-and-swap: it moves the peak up, because the value    *)
(* compared with was the current one, and never above maxLive.             *)
LEMMA PeakStep == TypeOK /\ CallsInv /\ PeakInv /\ [Next]_vars => PeakInv'
<1> SUFFICES ASSUME TypeOK, CallsInv, PeakInv, [Next]_vars
             PROVE  PeakInv'
  OBVIOUS
<1> DEFINE InLoop(u) == pc[u] \in {"load_peak", "raise_peak"}
<1>1. CASE UNCHANGED vars
  BY <1>1 DEF vars, PeakInv, PeakIsHighWater, counters, history
<1>2. ASSUME NEW t \in Threads, ContextCreate(t)
      PROVE  PeakInv'
  BY <1>2 DEF ContextCreate, CallsInv, ContextOutlivesUse, PeakInv, PeakIsHighWater
<1>3. ASSUME NEW t \in Threads, AddLiveBytes(t)
      PROVE  PeakInv'
  <2>1. live_bytes' \in Int /\ live' = [live EXCEPT ![t] = live_bytes']
        /\ maxLive' = (IF maxLive < live_bytes' THEN live_bytes' ELSE maxLive)
        /\ pc' = [pc EXCEPT ![t] = "load_peak"] /\ pc[t] = "add_live"
        /\ UNCHANGED <<peak_live_bytes, peakPast, peak>>
    BY <1>3, TypeStep DEF AddLiveBytes, Goto, TypeOK
  <2>2. maxLive' >= maxLive /\ maxLive' >= live_bytes' /\ maxLive' \in Int
    BY <2>1 DEF TypeOK
  <2>3. \A u \in Threads : u # t => live'[u] = live[u] /\ pc'[u] = pc[u]
    BY <2>1 DEF TypeOK
  <2>4. live'[t] = live_bytes' /\ pc'[t] = "load_peak"
    BY <2>1 DEF TypeOK
  <2>5. PeakIsHighWater'
    <3>1. CASE maxLive' = live_bytes'
      BY <2>1, <2>2, <2>4, <3>1 DEF PeakInv, PeakIsHighWater, TypeOK
    <3>2. CASE maxLive' = maxLive
      BY <2>1, <2>3, <3>2 DEF PeakInv, PeakIsHighWater, TypeOK
    <3>. QED
      BY <2>1, <3>1, <3>2
  <2>. QED
    BY <2>1, <2>2, <2>3, <2>4, <2>5 DEF PeakInv, TypeOK
<1>4. ASSUME NEW t \in Threads, LoadPeak(t)
      PROVE  PeakInv'
  BY <1>4 DEF LoadPeak, Goto, PeakInv, PeakIsHighWater, TypeOK, counters, history
<1>5. ASSUME NEW t \in Threads, PeakHighEnough(t)
      PROVE  PeakInv'
  <2>1. AfterAlloc(t) \in {"alloc", "built"}
    BY DEF AfterAlloc
  <2>. QED
    BY <1>5, <2>1 DEF PeakHighEnough, Goto, PeakInv, PeakIsHighWater, TypeOK, counters, history
<1>6. ASSUME NEW t \in Threads, RaisePeak(t)
      PROVE  PeakInv'
  <2>1. AfterAlloc(t) \in {"alloc", "built"}
    BY DEF AfterAlloc
  <2>. QED
    BY <1>6, <2>1 DEF RaisePeak, Goto, PeakInv, PeakIsHighWater, TypeOK
<1>7. ASSUME NEW t \in Threads, RaisePeakRetry(t)
      PROVE  PeakInv'
  BY <1>7 DEF RaisePeakRetry, PeakInv, PeakIsHighWater, TypeOK, counters, history
<1>8. ASSUME NEW t \in Threads, SubLiveBytes(t)
      PROVE  PeakInv'
  <2>1. target[t] \in Handles /\ CallOK(t)
    BY <1>8, InCall DEF SubLiveBytes
  <2>2. blocks[target[t]] + 1 \in 1 .. Len(Layout[target[t]])
    BY <1>8, <2>1, BlockSizes DEF SubLiveBytes, CallOK, TypeOK
  <2>3. live_bytes' <= live_bytes
    BY <1>8, <2>1, <2>2, BlockSizes DEF SubLiveBytes, TypeOK
  <2>4. /\ pc[t] = "sub_live" /\ pc'[t] \in {"free", "release", "idle"}
        /\ \A u \in Threads : u # t => pc'[u] = pc[u] /\ live'[u] = live[u] /\ peak'[u] = peak[u]
        /\ UNCHANGED <<peak_live_bytes, peakPast, maxLive>>
    BY <1>8 DEF SubLiveBytes, Return, Goto, TypeOK, history
  <2>5. PeakIsHighWater'
    BY <2>4 DEF PeakInv, PeakIsHighWater
  <2>6. live_bytes' <= maxLive'
    <3>1. live_bytes \in Int /\ maxLive \in Int /\ live_bytes' \in Int
      BY TypeStep DEF TypeOK
    <3>. QED
      BY <2>3, <2>4, <3>1 DEF PeakInv
  <2>. QED
    BY <2>4, <2>5, <2>6 DEF PeakInv
<1>9. ASSUME NEW t \in Threads, pc[t] \notin {"load_peak", "raise_peak"},
             pc'[t] \notin {"load_peak", "raise_peak"},
             \A u \in Threads : u # t => pc'[u] = pc[u] /\ live'[u] = live[u] /\ peak'[u] = peak[u],
             UNCHANGED <<live_bytes, peak_live_bytes, peakPast, maxLive>>
      PROVE  PeakInv'
  BY <1>9 DEF PeakInv, PeakIsHighWater
<1>10. ASSUME NEW t \in Threads, NEW h \in Handles, BeginCreate(t, h) \/ BeginDestroy(t, h)
       PROVE  PeakInv'
  BY <1>10, <1>9 DEF BeginCreate, BeginDestroy, Goto, TypeOK, counters, history
<1>11. ASSUME NEW t \in Threads,
              \/ ContextDestroyLoad(t) \/ ContextDestroyFree(t)
              \/ AllocateBlock(t) \/ CountAllocation(t) \/ Refuse(t)
              \/ FreeBlock(t) \/ CountDeallocation(t)
       PROVE  PeakInv'
  BY <1>11, <1>9 DEF ContextDestroyLoad, ContextDestroyFree, AllocateBlock,
       CountAllocation, Refuse, FreeBlock, CountDeallocation, Goto, TypeOK,
       counters, history
<1>12. ASSUME NEW t \in Threads, AllocateFails(t) \/ Publish(t) \/ ReleaseHandle(t)
       PROVE  PeakInv'
  BY <1>12, <1>9 DEF AllocateFails, Publish, ReleaseHandle, Return, Goto, TypeOK,
       counters, history
<1>. QED
  BY <1>1, <1>2, <1>3, <1>4, <1>5, <1>6, <1>7, <1>8, <1>10, <1>11, <1>12
  DEF Next, HostCall, CallStep

-----------------------------------------------------------------------------
(* The whole invariant: types, calls and peak are kept together, because   *)
(* the types need the calls (a block freed exists) and the calls need the  *)
(* types.                                                                  *)
THEOREM Invariance == Spec => []IInv
<1>1. Init => IInv
  <2> SUFFICES ASSUME Init
               PROVE  IInv
    OBVIOUS
  <2>1. TypeOK
    BY BlockSizes DEF Init, TypeOK, PCs
  <2>2. Counted = {}
    BY DEF Init, Counted
  <2>3. HandleCountExact
    BY <2>2, FS_EmptySet DEF Init, HandleCountExact
  <2>4. \A t \in Threads : CallOK(t)
    BY DEF Init, CallOK, MakingPCs, FreeingPCs
  <2>5. \A h \in Handles : HandleOK(h)
    BY DEF Init, HandleOK
  <2>6. OneCallPerHandle /\ DestroyerAlone /\ ContextOutlivesUse
    BY DEF Init, OneCallPerHandle, DestroyerAlone, ContextOutlivesUse
  <2>7. PeakInv
    BY DEF Init, PeakInv, PeakIsHighWater
  <2>. QED
    BY <2>1, <2>3, <2>4, <2>5, <2>6, <2>7 DEF IInv, CallsInv
<1>2. IInv /\ [Next]_vars => IInv'
  BY TypeStep, CallsStep, PeakStep DEF IInv
<1>. QED
  BY <1>1, <1>2, PTL DEF Spec

(* The counters and every thread's place in its call keep their types.     *)
THEOREM TypeCorrect == Spec => []TypeOK
<1>1. IInv => TypeOK
  BY DEF IInv
<1>. QED
  BY <1>1, Invariance, PTL

(* fd_context_alloc's relaxed compare-and-swap loop loses no maximum: with *)
(* every thread out of the loop, peak_live_bytes is the largest value      *)
(* live_bytes has had since the context was created.                       *)
THEOREM PeakExact == Spec => []PeakIsHighWater
<1>1. IInv => PeakIsHighWater
  BY DEF IInv, PeakInv
<1>. QED
  BY <1>1, Invariance, PTL

(* live_handles is the number of handles published and not yet released,   *)
(* whatever creations fail half-way in the meantime.                       *)
THEOREM HandlesCounted == Spec => []HandleCountExact
<1>1. IInv => HandleCountExact
  BY DEF IInv, CallsInv
<1>. QED
  BY <1>1, Invariance, PTL

(* fd_context_destroy never frees a context that a call on another thread  *)
(* still uses, although it only looks at live_handles once.                *)
THEOREM NoUseAfterDestroy == Spec => []ContextOutlivesUse
<1>1. IInv => ContextOutlivesUse
  BY DEF IInv, CallsInv
<1>. QED
  BY <1>1, Invariance, PTL

-----------------------------------------------------------------------------
(* The bytes live_bytes counts.  Each step that moves the counter adds or  *)
(* takes one block of the handle its thread works on, and no step of that  *)
(* thread changes what is counted of another handle.                       *)

(* The bytes of the first c[h] blocks of each handle h. *)
BytesUpTo(c) ==
  UNION {UNION {BlockBytes(h, i) : i \in 1 .. c[h]} : h \in Handles}
Counts == [h \in Handles |-> CountedBlocks(h)]

(* What is counted of the handle that thread t works on. *)
CallCount(t) ==
  IF pc[t] \in {"count_alloc", "add_live"} THEN blocks[target[t]] - 1
  ELSE IF pc[t] \in {"count_free", "sub_live"} THEN blocks[target[t]] + 1
  ELSE blocks[target[t]]

BytesInv == IsFiniteSet(CountedBytes) /\ LiveBytesExact

(* A block has as many bytes as Layout says. *)
LEMMA BlockSize ==
  ASSUME NEW h \in Handles, NEW i \in 1 .. Len(Layout[h])
  PROVE  /\ IsFiniteSet(BlockBytes(h, i))
         /\ Cardinality(BlockBytes(h, i)) = Layout[h][i]
<1> DEFINE size == Layout[h][i]
<1>1. size \in Nat \ {0}
  BY BlockSizes
<1> HIDE DEF size
<1>2. IsFiniteSet(1 .. size) /\ Cardinality(1 .. size) = size
  BY <1>1, FS_Interval
<1> DEFINE block == {<<h, i>>}
           bytes == 1 .. size
<1>3. IsFiniteSet(block) /\ Cardinality(block) = 1
  BY FS_Singleton
<1>4. IsFiniteSet(bytes) /\ Cardinality(bytes) = size
  BY <1>2
<1>5. BlockBytes(h, i) = block \X bytes
  BY DEF BlockBytes, size
<1> HIDE DEF block, bytes
<1>6. /\ IsFiniteSet(block \X bytes)
      /\ Cardinality(block \X bytes) = 1 * size
  BY <1>3, <1>4, FS_Product
<1>7. 1 * size = size
  BY <1>1
<1> QED
  BY <1>5, <1>6, <1>7 DEF size

(* A byte is counted if its block is. *)
LEMMA ByteCounted ==
  ASSUME NEW c, NEW b
  PROVE  b \in BytesUpTo(c)
           <=> \E h \in Handles : \E i \in 1 .. c[h] : b \in BlockBytes(h, i)
BY DEF BytesUpTo

(* One block more of one handle: its bytes are new. *)
Grows(c, d, h, n) ==
  /\ h \in Handles /\ n \in Nat /\ n + 1 \in 1 .. Len(Layout[h])
  /\ c[h] = n /\ d[h] = n + 1
  /\ \A g \in Handles : g # h => c[g] = d[g]

LEMMA OneBlockMore ==
  ASSUME NEW c, NEW d, NEW h, NEW n, Grows(c, d, h, n)
  PROVE  /\ BytesUpTo(d) = BytesUpTo(c) \cup BlockBytes(h, n + 1)
         /\ BytesUpTo(c) \cap BlockBytes(h, n + 1) = {}
         /\ IsFiniteSet(BytesUpTo(c)) <=> IsFiniteSet(BytesUpTo(d))
         /\ IsFiniteSet(BytesUpTo(c)) =>
              Cardinality(BytesUpTo(d))
                = Cardinality(BytesUpTo(c)) + Layout[h][n + 1]
<1> DEFINE old == BytesUpTo(c)
           new == BytesUpTo(d)
           block == BlockBytes(h, n + 1)
<1>0. /\ h \in Handles /\ n \in Nat /\ n + 1 \in 1 .. Len(Layout[h])
      /\ c[h] = n /\ d[h] = n + 1
      /\ \A g \in Handles : g # h => c[g] = d[g]
  BY DEF Grows
<1>1. \A i : i \in 1 .. n + 1 <=> i \in 1 .. n \/ i = n + 1
  BY <1>0
<1>2. \A b : b \in new <=> b \in old \/ b \in block
  <2> TAKE b
  <2>1. ASSUME b \in new PROVE b \in old \/ b \in block
    <3>1. PICK g \in Handles : \E i \in 1 .. d[g] : b \in BlockBytes(g, i)
      BY <2>1, ByteCounted
    <3>2. PICK i \in 1 .. d[g] : b \in BlockBytes(g, i)
      BY <3>1
    <3>3. i \in 1 .. c[g] \/ (g = h /\ i = n + 1)
      BY <1>0, <1>1, <3>2
    <3> QED
      BY <1>0, <3>2, <3>3, ByteCounted
  <2>2. ASSUME b \in old PROVE b \in new
    <3>1. PICK g \in Handles : \E i \in 1 .. c[g] : b \in BlockBytes(g, i)
      BY <2>2, ByteCounted
    <3>2. PICK i \in 1 .. c[g] : b \in BlockBytes(g, i)
      BY <3>1
    <3>3. i \in 1 .. d[g]
      BY <1>0, <1>1, <3>2
    <3> QED
      BY <1>0, <3>2, <3>3, ByteCounted
  <2>3. ASSUME b \in block PROVE b \in new
    <3>1. n + 1 \in 1 .. d[h]
      BY <1>0, <1>1
    <3> QED
      BY <1>0, <2>3, <3>1, ByteCounted
  <2> QED
    BY <2>1, <2>2, <2>3
<1>3. \A b : ~(b \in old /\ b \in block)
  <2> SUFFICES ASSUME NEW b, b \in old, b \in block PROVE FALSE
    OBVIOUS
  <2>1. PICK g \in Handles : \E i \in 1 .. c[g] : b \in BlockBytes(g, i)
    BY ByteCounted
  <2>2. PICK i \in 1 .. c[g] : b \in BlockBytes(g, i)
    BY <2>1
  <2>3. b[1] = <<g, i>> /\ b[1] = <<h, n + 1>>
    BY <2>2 DEF BlockBytes
  <2>4. g = h /\ i = n + 1
    BY <2>3
  <2>5. n + 1 \in 1 .. n
    BY <1>0, <2>2, <2>4
  <2> QED
    BY <1>0, <2>5
<1> HIDE DEF old, new, block
<1>4. new = old \cup block /\ old \cap block = {}
  BY <1>2, <1>3
<1>5. IsFiniteSet(block) /\ Cardinality(block) = Layout[h][n + 1]
      /\ Layout[h][n + 1] \in Nat
  BY <1>0, BlockSize, BlockSizes DEF block
<1>6. ASSUME IsFiniteSet(old)
      PROVE  /\ IsFiniteSet(new)
             /\ Cardinality(new) = Cardinality(old) + Layout[h][n + 1]
  <2>1. /\ IsFiniteSet(new)
        /\ Cardinality(new)
             = Cardinality(old) + Cardinality(block) - Cardinality(old \cap block)
    BY <1>4, <1>5, <1>6, FS_Union
  <2>2. Cardinality(old \cap block) = 0
    BY <1>4, FS_EmptySet
  <2>3. Cardinality(old) \in Nat
    BY <1>6, FS_CardinalityType
  <2> QED
    BY <1>5, <2>1, <2>2, <2>3
<1>7. ASSUME IsFiniteSet(new) PROVE IsFiniteSet(old)
  BY <1>4, <1>7, FS_Subset
<1> QED
  BY <1>4, <1>6, <1>7 DEF old, new, block

(* What is counted of a handle is told by the one call that works on it.   *)
CountsTold ==
  \A h \in Handles :
    /\ \A t \in Threads : target[t] = h => CountedBlocks(h) = CallCount(t)
    /\ (\A t \in Threads : target[t] # h) => CountedBlocks(h) = blocks[h]

LEMMA CountedIs == TypeOK /\ CallsInv => CountsTold
<1> SUFFICES ASSUME TypeOK, CallsInv, NEW h \in Handles
             PROVE  /\ \A t \in Threads :
                         target[t] = h => CountedBlocks(h) = CallCount(t)
                    /\ (\A t \in Threads : target[t] # h) =>
                         CountedBlocks(h) = blocks[h]
  BY DEF CountsTold
<1>1. ASSUME NEW t \in Threads, target[t] = h
      PROVE  CountedBlocks(h) = CallCount(t)
  <2>1. \A u \in Threads : target[u] = h => u = t
    BY <1>1, HandleAssumption DEF CallsInv, OneCallPerHandle
  <2>2. CallOK(t) /\ h # NoHandle /\ pc[t] \in PCs
    BY HandleAssumption DEF CallsInv, TypeOK
  <2>3. status[h] # "none"
    BY <1>1, <2>2 DEF CallOK, MakingPCs, FreeingPCs, PCs
  <2> QED
    BY <1>1, <2>1, <2>3 DEF CountedBlocks, CallCount
<1>2. ASSUME \A t \in Threads : target[t] # h
      PROVE  CountedBlocks(h) = blocks[h]
  <2>1. HandleOK(h)
    BY DEF CallsInv
  <2> QED
    BY <1>2, <2>1 DEF CountedBlocks, HandleOK
<1> QED
  BY <1>1, <1>2

(* The bytes counted are those of the counted blocks. *)
LEMMA BytesAreCounts ==
  /\ CountedBytes = BytesUpTo(Counts)
  /\ \A h \in Handles : Counts[h] = CountedBlocks(h)
<1>1. \A h \in Handles : Counts[h] = CountedBlocks(h)
  BY DEF Counts
<1> QED
  BY <1>1 DEF CountedBytes, BytesUpTo

(* A step that changes what is counted of no handle, nor the counter,      *)
(* keeps the count of bytes.                                               *)
LEMMA BytesKept ==
  ASSUME BytesInv, UNCHANGED live_bytes,
         \A h \in Handles : CountedBlocks(h)' = CountedBlocks(h)
  PROVE  BytesInv'
<1>1. Counts' = Counts
  BY DEF Counts
<1>2. CountedBytes' = CountedBytes
  <2>1. (CountedBytes = BytesUpTo(Counts))'
    BY BytesAreCounts, PTL
  <2> QED
    BY <1>1, <2>1, BytesAreCounts DEF BytesUpTo, BlockBytes
<1> QED
  BY <1>2 DEF BytesInv, LiveBytesExact

(* The handles that thread t does not work on, before or after its step,   *)
(* are counted as they were.                                               *)
StepOf(t) ==
  /\ \A u \in Threads : u # t => pc'[u] = pc[u] /\ target'[u] = target[u]
  /\ \A h \in Handles : h # target[t] => blocks'[h] = blocks[h]

LEMMA OthersKept ==
  ASSUME TypeOK, CallsInv, TypeOK', CallsInv', NEW t \in Threads, StepOf(t),
         NEW h \in Handles, h # target[t], h # target'[t]
  PROVE  CountedBlocks(h)' = CountedBlocks(h)
<1>1. /\ \A u \in Threads : target[u] = h => CountedBlocks(h) = CallCount(u)
      /\ (\A u \in Threads : target[u] # h) => CountedBlocks(h) = blocks[h]
  BY CountedIs DEF CountsTold
<1>2. /\ \A u \in Threads :
           target'[u] = h => CountedBlocks(h)' = CallCount(u)'
      /\ (\A u \in Threads : target'[u] # h) => CountedBlocks(h)' = blocks'[h]
  <2>1. CountsTold'
    BY CountedIs, PTL
  <2> QED
    BY <2>1 DEF CountsTold
<1>3. blocks'[h] = blocks[h]
  BY DEF StepOf
<1>4. CASE \E u \in Threads : target[u] = h
  <2>1. PICK u \in Threads : target[u] = h
    BY <1>4
  <2>2. u # t /\ pc'[u] = pc[u] /\ target'[u] = h
    BY <2>1 DEF StepOf
  <2>3. CallCount(u)' = CallCount(u)
    BY <1>3, <2>1, <2>2 DEF CallCount
  <2> QED
    BY <1>1, <1>2, <2>1, <2>2, <2>3
<1>5. CASE \A u \in Threads : target[u] # h
  <2>1. \A u \in Threads : target'[u] # h
    BY <1>5 DEF StepOf
  <2> QED
    BY <1>1, <1>2, <1>3, <1>5, <2>1
<1> QED
  BY <1>4, <1>5

(* Before and after a step of the call that works on h.                    *)
LEMMA OwnBefore ==
  ASSUME TypeOK, CallsInv, NEW t \in Threads, target[t] \in Handles
  PROVE  CountedBlocks(target[t]) = CallCount(t)
BY CountedIs DEF CountsTold

LEMMA OwnAfter ==
  ASSUME TypeOK', CallsInv', NEW t \in Threads, NEW h \in Handles,
         \/ target'[t] = h
         \/ \A u \in Threads : target'[u] # h
  PROVE  /\ target'[t] = h => CountedBlocks(h)' = CallCount(t)'
         /\ target'[t] # h => CountedBlocks(h)' = blocks'[h]
<1>1. CountsTold'
  BY CountedIs, PTL
<1> QED
  BY <1>1, HandleAssumption DEF CountsTold

(* A call that returns leaves its handle to no thread.                     *)
LEMMA LeftAlone ==
  ASSUME TypeOK, CallsInv, NEW t \in Threads, target[t] \in Handles, Return(t)
  PROVE  /\ \A u \in Threads : target'[u] # target[t]
         /\ target'[t] = NoHandle /\ target'[t] # target[t]
         /\ \A u \in Threads : u # t => pc'[u] = pc[u] /\ target'[u] = target[u]
<1>1. \A u \in Threads : u # t => target[u] # target[t]
  BY HandleAssumption DEF CallsInv, OneCallPerHandle
<1>2. target[t] # NoHandle
  BY HandleAssumption
<1> QED
  BY <1>1, <1>2 DEF Return, Goto, TypeOK

(* The steps of a call that move no counted byte.                          *)
LEMMA QuietSteps ==
  ASSUME TypeOK, CallsInv, TypeOK', CallsInv', NEW t \in Threads,
         NEW own, own = target[t],
         \/ AllocateBlock(t) \/ AllocateFails(t) \/ CountAllocation(t)
         \/ LoadPeak(t) \/ PeakHighEnough(t) \/ RaisePeak(t)
         \/ RaisePeakRetry(t) \/ Publish(t) \/ Refuse(t)
         \/ FreeBlock(t) \/ CountDeallocation(t) \/ ReleaseHandle(t)
  PROVE  /\ UNCHANGED live_bytes
         /\ \A h \in Handles : CountedBlocks(h)' = CountedBlocks(h)
<1>1. pc[t] \notin {"idle", "destroy_context"}
  BY DEF AllocateBlock, AllocateFails, CountAllocation, LoadPeak,
         PeakHighEnough, RaisePeak, RaisePeakRetry, Publish, Refuse, FreeBlock,
         CountDeallocation, ReleaseHandle
<1>2. own \in Handles /\ CallOK(t) /\ blocks[own] \in Nat
  <2>1. own \in Handles /\ CallOK(t)
    BY <1>1, InCall
  <2> QED
    BY <2>1 DEF TypeOK
<1>3. UNCHANGED live_bytes
  BY DEF AllocateBlock, AllocateFails, CountAllocation, LoadPeak,
         PeakHighEnough, RaisePeak, RaisePeakRetry, Publish, Refuse, FreeBlock,
         CountDeallocation, ReleaseHandle, counters
<1>4. CASE Return(t)
  <2>1. /\ \A u \in Threads : target'[u] # own
        /\ target'[t] = NoHandle /\ target'[t] # own
        /\ \A u \in Threads : u # t => pc'[u] = pc[u] /\ target'[u] = target[u]
    BY <1>2, <1>4, LeftAlone
  <2>2. pc'[t] = "idle"
    BY <1>4 DEF Return, Goto, TypeOK
  <2>3. pc[t] \in {"alloc", "built", "release"} /\ blocks' = blocks
    BY <2>2 DEF AllocateBlock, AllocateFails, CountAllocation, LoadPeak,
           PeakHighEnough, RaisePeak, RaisePeakRetry, Publish, Refuse,
           FreeBlock, CountDeallocation, ReleaseHandle, Goto, AfterAlloc, TypeOK
  <2>4. CountedBlocks(own) = blocks[own]
    BY <1>2, <2>3, OwnBefore DEF CallCount
  <2>5. CountedBlocks(own)' = blocks'[own]
    BY <1>2, <2>1, OwnAfter
  <2>6. StepOf(t)
    BY <2>1, <2>3 DEF StepOf
  <2>7. ASSUME NEW h \in Handles PROVE CountedBlocks(h)' = CountedBlocks(h)
    <3>1. h # target'[t]
      BY <2>1, HandleAssumption
    <3>2. CASE h = own
      BY <2>3, <2>4, <2>5, <3>2
    <3>3. CASE h # own
      BY <2>6, <3>1, <3>3, OthersKept
    <3> QED
      BY <3>2, <3>3
  <2> QED
    BY <1>3, <2>7
<1>5. ASSUME target' = target, StepOf(t), CallCount(t)' = CallCount(t)
      PROVE  \A h \in Handles : CountedBlocks(h)' = CountedBlocks(h)
  <2> TAKE h \in Handles
  <2>1. CASE h = own
    BY <1>2, <1>5, <2>1, OwnBefore, OwnAfter
  <2>2. CASE h # own
    BY <1>5, <2>2, OthersKept
  <2> QED
    BY <2>1, <2>2
<1>6. CASE AllocateBlock(t)
  <2>1. target' = target /\ pc[t] = "alloc" /\ pc'[t] = "count_alloc"
        /\ blocks'[own] = blocks[own] + 1
    BY <1>2, <1>6 DEF AllocateBlock, Goto, TypeOK
  <2>2. StepOf(t)
    BY <1>6 DEF AllocateBlock, Goto, TypeOK, StepOf
  <2>3. CallCount(t)' = CallCount(t)
    BY <1>2, <2>1 DEF CallCount
  <2> QED
    BY <1>3, <1>5, <2>1, <2>2, <2>3
<1>7. CASE FreeBlock(t)
  <2>1. target' = target /\ pc[t] = "free" /\ pc'[t] = "count_free"
        /\ blocks'[own] = blocks[own] - 1
    BY <1>2, <1>7 DEF FreeBlock, Goto, TypeOK
  <2>2. StepOf(t)
    BY <1>7 DEF FreeBlock, Goto, TypeOK, StepOf
  <2>3. CallCount(t)' = CallCount(t)
    BY <1>2, <2>1 DEF CallCount
  <2> QED
    BY <1>3, <1>5, <2>1, <2>2, <2>3
<1>8. ASSUME UNCHANGED <<target, blocks>>, pc' = [pc EXCEPT ![t] = pc'[t]],
             \/ /\ {pc[t], pc'[t]} \subseteq {"count_alloc", "add_live"}
             \/ /\ {pc[t], pc'[t]} \subseteq {"count_free", "sub_live"}
             \/ /\ pc[t] \notin {"count_alloc", "add_live", "count_free", "sub_live"}
                /\ pc'[t] \notin {"count_alloc", "add_live", "count_free", "sub_live"}
      PROVE  \A h \in Handles : CountedBlocks(h)' = CountedBlocks(h)
  <2>1. StepOf(t)
    BY <1>8 DEF StepOf, TypeOK
  <2>2. CallCount(t)' = CallCount(t)
    BY <1>8 DEF CallCount
  <2> QED
    BY <1>5, <1>8, <2>1, <2>2
<1>9. CASE CountAllocation(t) \/ CountDeallocation(t)
  BY <1>3, <1>8, <1>9 DEF CountAllocation, CountDeallocation, Goto, TypeOK
<1>10. CASE LoadPeak(t) \/ RaisePeakRetry(t) \/ Refuse(t)
  BY <1>3, <1>8, <1>10 DEF LoadPeak, RaisePeakRetry, Refuse, Goto, TypeOK
<1>11. CASE PeakHighEnough(t) \/ RaisePeak(t)
  BY <1>3, <1>8, <1>11 DEF PeakHighEnough, RaisePeak, AfterAlloc, Goto, TypeOK
<1>12. CASE AllocateFails(t) /\ ~Return(t)
  BY <1>3, <1>8, <1>12 DEF AllocateFails, Goto, TypeOK
<1>13. CASE Publish(t) \/ ReleaseHandle(t)
  BY <1>4, <1>13 DEF Publish, ReleaseHandle
<1> QED
  BY <1>4, <1>6, <1>7, <1>9, <1>10, <1>11, <1>12, <1>13

(* fd_context_alloc counts the bytes of the block it has got.              *)
LEMMA AddBytes ==
  ASSUME TypeOK, CallsInv, BytesInv, TypeOK', CallsInv', NEW t \in Threads,
         NEW own, own = target[t], AddLiveBytes(t)
  PROVE  BytesInv'
<1>1. own \in Handles /\ CallOK(t)
  BY InCall DEF AddLiveBytes
<1>2. /\ blocks[own] \in 1 .. Len(Layout[own]) /\ blocks' = blocks
      /\ target' = target /\ pc[t] = "add_live" /\ pc'[t] = "load_peak"
      /\ live_bytes' = live_bytes + Layout[own][blocks[own]]
  BY <1>1, BlockSizes DEF AddLiveBytes, CallOK, Goto, TypeOK
<1>3. StepOf(t)
  BY <1>2 DEF AddLiveBytes, Goto, TypeOK, StepOf
<1>4. CountedBlocks(own) = blocks[own] - 1 /\ CountedBlocks(own)' = blocks[own]
  <2>1. CountedBlocks(own) = CallCount(t) /\ CountedBlocks(own)' = CallCount(t)'
    BY <1>1, <1>2, OwnBefore, OwnAfter
  <2> QED
    BY <1>2, <2>1 DEF CallCount
<1>5. \A h \in Handles : h # own => CountedBlocks(h)' = CountedBlocks(h)
  BY <1>2, <1>3, OthersKept
<1> DEFINE n == blocks[own] - 1
           d == Counts'
<1>6. n \in Nat /\ n + 1 = blocks[own] /\ n + 1 \in 1 .. Len(Layout[own])
  BY <1>2
<1>7. \A h \in Handles : Counts[h] = CountedBlocks(h) /\ d[h] = CountedBlocks(h)'
  BY DEF Counts
<1> HIDE DEF n, d
<1>8. /\ Counts[own] = n /\ d[own] = n + 1
      /\ \A h \in Handles : h # own => Counts[h] = d[h]
  BY <1>1, <1>4, <1>5, <1>6, <1>7 DEF n
<1>9. CountedBytes = BytesUpTo(Counts) /\ CountedBytes' = BytesUpTo(d)
  <2>1. (CountedBytes = BytesUpTo(Counts))'
    BY BytesAreCounts, PTL
  <2> QED
    BY <2>1, BytesAreCounts DEF BytesUpTo, BlockBytes, d
<1>10. /\ IsFiniteSet(CountedBytes')
       /\ Cardinality(CountedBytes') = Cardinality(CountedBytes) + Layout[own][n + 1]
  <2>1. IsFiniteSet(BytesUpTo(Counts))
    BY <1>9 DEF BytesInv
  <2>2. /\ IsFiniteSet(BytesUpTo(Counts)) <=> IsFiniteSet(BytesUpTo(d))
        /\ IsFiniteSet(BytesUpTo(Counts)) =>
             Cardinality(BytesUpTo(d))
               = Cardinality(BytesUpTo(Counts)) + Layout[own][n + 1]
    <3>1. Grows(Counts, d, own, n)
      BY <1>1, <1>6, <1>8 DEF Grows
    <3> QED
      BY <3>1, OneBlockMore
  <2> QED
    BY <1>9, <2>1, <2>2
<1> QED
  BY <1>2, <1>6, <1>10 DEF BytesInv, LiveBytesExact

(* fd_context_free takes off the bytes of the block it has given back.     *)
LEMMA SubBytes ==
  ASSUME TypeOK, CallsInv, BytesInv, TypeOK', CallsInv', NEW t \in Threads,
         NEW own, own = target[t], SubLiveBytes(t)
  PROVE  BytesInv'
<1>1. own \in Handles /\ CallOK(t)
  BY InCall DEF SubLiveBytes
<1>2. /\ blocks[own] \in Nat /\ blocks[own] < Len(Layout[own])
      /\ Len(Layout[own]) \in Nat
      /\ blocks' = blocks /\ pc[t] = "sub_live"
      /\ live_bytes' = live_bytes - Layout[own][blocks[own] + 1]
  BY <1>1, BlockSizes DEF SubLiveBytes, CallOK, TypeOK
<1>3. CountedBlocks(own) = blocks[own] + 1
  <2>1. CountedBlocks(own) = CallCount(t)
    BY <1>1, OwnBefore
  <2> QED
    BY <1>2, <2>1 DEF CallCount
<1>4. /\ CountedBlocks(own)' = blocks[own]
      /\ \A h \in Handles : h # own => CountedBlocks(h)' = CountedBlocks(h)
  <2>1. CASE Return(t)
    <3>1. /\ \A u \in Threads : target'[u] # own
          /\ target'[t] = NoHandle /\ target'[t] # own
          /\ \A u \in Threads : u # t => pc'[u] = pc[u] /\ target'[u] = target[u]
      BY <1>1, <2>1, LeftAlone
    <3>2. StepOf(t)
      BY <1>2, <3>1 DEF StepOf
    <3>3. CountedBlocks(own)' = blocks[own]
      BY <1>1, <1>2, <3>1, OwnAfter
    <3>4. \A h \in Handles : h # target'[t]
      BY <3>1, HandleAssumption
    <3> QED
      BY <3>2, <3>3, <3>4, OthersKept
  <2>2. CASE target' = target /\ (Goto(t, "free") \/ Goto(t, "release"))
    <3>1. pc'[t] \in {"free", "release"}
      BY <2>2 DEF Goto, TypeOK
    <3>2. StepOf(t)
      BY <1>2, <2>2 DEF Goto, TypeOK, StepOf
    <3>3. CountedBlocks(own)' = CallCount(t)'
      BY <1>1, <2>2, OwnAfter
    <3>4. CallCount(t)' = blocks[own]
      BY <1>2, <2>2, <3>1 DEF CallCount
    <3> QED
      BY <2>2, <3>2, <3>3, <3>4, OthersKept
  <2> QED
    BY <2>1, <2>2 DEF SubLiveBytes
<1> DEFINE n == blocks[own]
           d == Counts'
<1>5. n \in Nat /\ n + 1 \in 1 .. Len(Layout[own])
  BY <1>2
<1>6. \A h \in Handles : Counts[h] = CountedBlocks(h) /\ d[h] = CountedBlocks(h)'
  BY DEF Counts
<1> HIDE DEF n, d
<1>7. /\ Counts[own] = n + 1 /\ d[own] = n
      /\ \A h \in Handles : h # own => d[h] = Counts[h]
  BY <1>1, <1>3, <1>4, <1>6 DEF n
<1>8. CountedBytes = BytesUpTo(Counts) /\ CountedBytes' = BytesUpTo(d)
  <2>1. (CountedBytes = BytesUpTo(Counts))'
    BY BytesAreCounts, PTL
  <2> QED
    BY <2>1, BytesAreCounts DEF BytesUpTo, BlockBytes, d
<1>9. /\ IsFiniteSet(CountedBytes')
      /\ Cardinality(CountedBytes) = Cardinality(CountedBytes') + Layout[own][n + 1]
  <2>1. IsFiniteSet(BytesUpTo(Counts))
    BY <1>8 DEF BytesInv
  <2>2. /\ IsFiniteSet(BytesUpTo(d)) <=> IsFiniteSet(BytesUpTo(Counts))
        /\ IsFiniteSet(BytesUpTo(d)) =>
             Cardinality(BytesUpTo(Counts))
               = Cardinality(BytesUpTo(d)) + Layout[own][n + 1]
    <3>1. Grows(d, Counts, own, n)
      BY <1>1, <1>5, <1>7 DEF Grows
    <3> QED
      BY <3>1, OneBlockMore
  <2> QED
    BY <1>8, <2>1, <2>2
<1>10. Cardinality(CountedBytes') \in Nat /\ Layout[own][n + 1] \in Nat
  BY <1>1, <1>5, <1>9, FS_CardinalityType, BlockSizes
<1>11. live_bytes = Cardinality(CountedBytes)
  BY DEF BytesInv, LiveBytesExact
<1>12. live_bytes' = live_bytes - Layout[own][n + 1]
  BY <1>2 DEF n
<1>13. live_bytes' = Cardinality(CountedBytes')
  BY <1>9, <1>10, <1>11, <1>12
<1> QED
  BY <1>9, <1>13 DEF BytesInv, LiveBytesExact

(* The host's calls begin and end with nothing counted in between.         *)
LEMMA HostBytes ==
  ASSUME TypeOK, CallsInv, BytesInv, TypeOK', CallsInv', NEW t \in Threads,
         HostCall(t) \/ ContextDestroyFree(t)
  PROVE  BytesInv'
<1>1. ASSUME NEW h \in Handles, BeginCreate(t, h) \/ BeginDestroy(t, h)
      PROVE  BytesInv'
  <2>1. /\ target[t] = NoHandle /\ target'[t] = h /\ UNCHANGED <<blocks, live_bytes>>
        /\ pc'[t] \in {"alloc", "free"} /\ status[h] \in {"none", "live"}
    <3>1. CallOK(t)
      BY DEF CallsInv
    <3> QED
      BY <1>1, <3>1 DEF BeginCreate, BeginDestroy, Goto, TypeOK, CallOK, counters
  <2>2. StepOf(t)
    BY <1>1, <2>1 DEF BeginCreate, BeginDestroy, Goto, TypeOK, StepOf
  <2>3. \A u \in Threads : target[u] # h
    <3> SUFFICES ASSUME NEW u \in Threads, target[u] = h PROVE FALSE
      OBVIOUS
    <3>1. CallOK(u) /\ h # NoHandle /\ pc[u] \in PCs
      BY HandleAssumption DEF CallsInv, TypeOK
    <3> QED
      BY <2>1, <3>1 DEF CallOK, MakingPCs, FreeingPCs, PCs
  <2>4. CountedBlocks(h) = blocks[h]
    BY <2>3, CountedIs DEF CountsTold
  <2>5. CountedBlocks(h)' = blocks[h]
    <3>1. CountedBlocks(h)' = CallCount(t)'
      BY <2>1, OwnAfter
    <3> QED
      BY <2>1, <3>1 DEF CallCount
  <2>6. \A g \in Handles : CountedBlocks(g)' = CountedBlocks(g)
    <3> TAKE g \in Handles
    <3>1. CASE g = h
      BY <2>4, <2>5, <3>1
    <3>2. CASE g # h
      <4>1. g # target[t] /\ g # target'[t]
        BY <2>1, <3>2, HandleAssumption
      <4> QED
        BY <2>2, <4>1, OthersKept
    <3> QED
      BY <3>1, <3>2
  <2> QED
    BY <2>1, <2>6, BytesKept
<1>2. CASE ContextCreate(t)
  <2>1. /\ live_bytes' = 0 /\ status' = status
        /\ \A h \in Handles : status[h] = "none"
    BY <1>2 DEF ContextCreate, CallsInv, ContextOutlivesUse
  <2>2. \A h \in Handles : CountedBlocks(h)' = 0
    BY <2>1 DEF CountedBlocks
  <2> DEFINE d == Counts'
  <2>3. \A h \in Handles : d[h] = 0
    BY <2>2 DEF Counts
  <2>4. CountedBytes' = BytesUpTo(d)
    <3>1. (CountedBytes = BytesUpTo(Counts))'
      BY BytesAreCounts, PTL
    <3> QED
      BY <3>1 DEF BytesUpTo, BlockBytes
  <2> HIDE DEF d
  <2>5. BytesUpTo(d) = {}
    <3>1. \A h \in Handles : 1 .. d[h] = {}
      BY <2>3
    <3> QED
      BY <3>1, ByteCounted
  <2> QED
    BY <2>1, <2>4, <2>5, FS_EmptySet DEF BytesInv, LiveBytesExact
<1>3. CASE ContextDestroyLoad(t) \/ ContextDestroyFree(t)
  <2>1. /\ UNCHANGED <<status, blocks, target, live_bytes>>
        /\ pc[t] \in {"idle", "destroy_context"}
        /\ pc'[t] \in {"idle", "destroy_context"}
    BY <1>3 DEF ContextDestroyLoad, ContextDestroyFree, Goto, TypeOK, counters
  <2>2. target[t] = NoHandle /\ target'[t] = NoHandle
    <3>1. CallOK(t)
      BY DEF CallsInv
    <3> QED
      BY <2>1, <3>1 DEF CallOK
  <2>3. StepOf(t)
    BY <1>3, <2>1 DEF ContextDestroyLoad, ContextDestroyFree, Goto, TypeOK, StepOf
  <2>4. \A h \in Handles : CountedBlocks(h)' = CountedBlocks(h)
    BY <2>2, <2>3, OthersKept, HandleAssumption
  <2> QED
    BY <2>1, <2>4, BytesKept
<1> QED
  BY <1>1, <1>2, <1>3 DEF HostCall

LEMMA BytesStep == IInv /\ BytesInv /\ [Next]_vars => BytesInv'
<1> SUFFICES ASSUME IInv, BytesInv, [Next]_vars
             PROVE  BytesInv'
  OBVIOUS
<1>1. TypeOK /\ CallsInv /\ TypeOK' /\ CallsInv'
  BY TypeStep, CallsStep DEF IInv
<1>2. CASE UNCHANGED vars
  <2>1. \A h \in Handles : CountedBlocks(h)' = CountedBlocks(h)
    BY <1>2 DEF vars, CountedBlocks
  <2> QED
    BY <1>2, <2>1, BytesKept DEF vars, counters
<1>3. ASSUME NEW t \in Threads, HostCall(t)
      PROVE  BytesInv'
  BY <1>1, <1>3, HostBytes
<1>4. ASSUME NEW t \in Threads, CallStep(t) \/ RaisePeakRetry(t)
      PROVE  BytesInv'
  <2>1. CASE AddLiveBytes(t)
    BY <1>1, <2>1, AddBytes
  <2>2. CASE SubLiveBytes(t)
    BY <1>1, <2>2, SubBytes
  <2>3. CASE ContextDestroyFree(t)
    BY <1>1, <2>3, HostBytes
  <2>4. CASE \/ AllocateBlock(t) \/ AllocateFails(t) \/ CountAllocation(t)
             \/ LoadPeak(t) \/ PeakHighEnough(t) \/ RaisePeak(t)
             \/ RaisePeakRetry(t) \/ Publish(t) \/ Refuse(t)
             \/ FreeBlock(t) \/ CountDeallocation(t) \/ ReleaseHandle(t)
    <3>1. /\ UNCHANGED live_bytes
          /\ \A h \in Handles : CountedBlocks(h)' = CountedBlocks(h)
      BY <1>1, <2>4, QuietSteps
    <3> QED
      BY <3>1, BytesKept
  <2> QED
    BY <1>4, <2>1, <2>2, <2>3, <2>4 DEF CallStep
<1> QED
  BY <1>2, <1>3, <1>4 DEF Next

(* Nothing is counted before the context is made. *)
LEMMA BytesEstablishing == Init => BytesInv
<1> SUFFICES ASSUME Init PROVE BytesInv
  OBVIOUS
<1>1. \A h \in Handles : CountedBlocks(h) = 0
  BY DEF Init, CountedBlocks
<1>2. \A h \in Handles : Counts[h] = 0 /\ 1 .. Counts[h] = {}
  BY <1>1, BytesAreCounts
<1>3. CountedBytes = {}
  BY <1>2, BytesAreCounts, ByteCounted
<1> QED
  BY <1>3, FS_EmptySet DEF Init, BytesInv, LiveBytesExact

(* What each thread's place in its call says is counted is what is counted. *)
THEOREM BytesInvariance == Spec => []BytesInv
BY BytesEstablishing, Invariance, BytesStep, PTL DEF Spec

(* live_bytes is the size of the blocks of all handles, but for those a    *)
(* running fd_context_alloc or _free has yet to count: a call that failed  *)
(* half-way has given every byte back.                                     *)
THEOREM BytesExact == Spec => []LiveBytesExact
<1>1. BytesInv => LiveBytesExact
  BY DEF BytesInv
<1> QED
  BY <1>1, BytesInvariance, PTL

(* So the unsigned counter never goes below zero, and it is zero whenever  *)
(* the host holds no handle and no call makes or destroys one: nothing     *)
(* leaks.                                                                  *)
THEOREM NothingStranded ==
  Spec => [](/\ live_bytes >= 0
             /\ (\A h \in Handles : status[h] = "none") => live_bytes = 0)
<1> DEFINE Zero == /\ live_bytes >= 0
                   /\ (\A h \in Handles : status[h] = "none") => live_bytes = 0
<1>1. BytesInv => Zero
  <2> SUFFICES ASSUME BytesInv PROVE Zero
    OBVIOUS
  <2>1. live_bytes >= 0
    BY FS_CardinalityType DEF BytesInv, LiveBytesExact
  <2>2. ASSUME \A h \in Handles : status[h] = "none" PROVE live_bytes = 0
    <3>1. \A h \in Handles : Counts[h] = 0 /\ 1 .. Counts[h] = {}
      BY <2>2, BytesAreCounts DEF CountedBlocks
    <3>2. CountedBytes = {}
      BY <3>1, BytesAreCounts, ByteCounted
    <3> QED
      BY <3>2, FS_EmptySet DEF BytesInv, LiveBytesExact
  <2> QED
    BY <2>1, <2>2
<1> QED
  BY <1>1, BytesInvariance, PTL
=============================================================================
