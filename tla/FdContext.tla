----------------------------- MODULE FdContext -----------------------------
(***************************************************************************)
(* The context of src/core/fd_core.c: its allocation counters, its count   *)
(* of live handles, and the calls that move them when several host threads *)
(* use one context at once.                                                *)
(*                                                                         *)
(* The host passes a pair of allocator callbacks; every world, snapshot    *)
(* and replay is a handle made of a few blocks obtained through            *)
(* fd_context_alloc and returned through fd_context_free.  Each access to  *)
(* one atomic variable of the context is one action, so that the model     *)
(* interleaves exactly where the code can.                                 *)
(*                                                                         *)
(* Host contract (docs/architecture/C_API_PROPOSAL.md): one handle is used *)
(* by one call at a time, different handles concurrently; the context      *)
(* pointer itself is not handed to fd_context_destroy while another call   *)
(* that took the context as an argument is running.  A call that reaches   *)
(* the context through a handle (a snapshot of a world, the destruction of *)
(* a handle) may run against fd_context_destroy: that race is what         *)
(* live_handles is for.                                                    *)
(***************************************************************************)
EXTENDS Integers, Sequences, FiniteSets

CONSTANTS
  Threads,   \* host threads
  Handles,   \* places where the host keeps a handle, each used again and again
  NoHandle,  \* not a handle
  Layout,    \* Layout[h] : the sizes of h's blocks, in allocation order
  Parent,    \* Parent[h] : the world h is a snapshot of, NoHandle if h is
             \* made from the context (a generated or loaded world, a replay)
  MaxCalls   \* bound: no creation starts after this many allocator calls

ASSUME HandleAssumption ==
  /\ IsFiniteSet(Handles)
  /\ NoHandle \notin Handles
  /\ Parent \in [Handles -> Handles \cup {NoHandle}]
ASSUME LayoutAssumption ==
  \A h \in Handles : /\ Layout[h] \in Seq(Nat \ {0})
                     /\ Len(Layout[h]) >= 1
ASSUME BoundAssumption == MaxCalls \in Nat

VARIABLES
  context,             \* "live" between fd_context_create and _destroy, else "none"
  allocation_calls,    \* the five counters of struct fd_context
  deallocation_calls,
  live_bytes,
  peak_live_bytes,
  live_handles,
  status,              \* status[h] : "none", "making", "live" or "dying"
  blocks,              \* blocks[h] : how many blocks of Layout[h] are allocated
  pc,                  \* pc[t] : where thread t is
  target,              \* target[t] : the handle t's call makes or destroys
  live,                \* live[t] : the local `live` of fd_context_alloc
  peak,                \* peak[t] : the local `peak` of fd_context_alloc
  peakPast,            \* history: the values peak_live_bytes has had
  maxLive              \* history: the largest value live_bytes has had

counters == <<allocation_calls, deallocation_calls, live_bytes, peak_live_bytes>>
history == <<peakPast, maxLive>>
vars == <<context, counters, live_handles, status, blocks, pc, target, live,
          peak, history>>

PCs == {"idle", "alloc", "count_alloc", "add_live", "load_peak", "raise_peak",
        "built", "free", "count_free", "sub_live", "release", "destroy_context"}

TypeOK ==
  /\ context \in {"live", "none"}
  /\ allocation_calls \in Nat
  /\ deallocation_calls \in Nat
  /\ live_bytes \in Int
  /\ peak_live_bytes \in Nat
  /\ live_handles \in Int
  /\ status \in [Handles -> {"none", "making", "live", "dying"}]
  /\ blocks \in [Handles -> Nat]
  /\ \A h \in Handles : blocks[h] <= Len(Layout[h])
  /\ pc \in [Threads -> PCs]
  /\ target \in [Threads -> Handles \cup {NoHandle}]
  /\ live \in [Threads -> Int]
  /\ peak \in [Threads -> Nat]
  /\ peakPast \in SUBSET Nat
  /\ maxLive \in Int

Init ==
  /\ context = "none"
  /\ allocation_calls = 0 /\ deallocation_calls = 0
  /\ live_bytes = 0 /\ peak_live_bytes = 0
  /\ live_handles = 0
  /\ status = [h \in Handles |-> "none"]
  /\ blocks = [h \in Handles |-> 0]
  /\ pc = [t \in Threads |-> "idle"]
  /\ target = [t \in Threads |-> NoHandle]
  /\ live = [t \in Threads |-> 0]
  /\ peak = [t \in Threads |-> 0]
  /\ peakPast = {0}
  /\ maxLive = 0

Goto(t, next) == pc' = [pc EXCEPT ![t] = next]

(* The call of thread t returns; its locals are gone. *)
Return(t) ==
  /\ Goto(t, "idle")
  /\ target' = [target EXCEPT ![t] = NoHandle]
  /\ live' = [live EXCEPT ![t] = 0]
  /\ peak' = [peak EXCEPT ![t] = 0]

-----------------------------------------------------------------------------
(* Variants of definitions below, each what a slip in the code would give; *)
(* the named property fails with it.                                       *)

(* The handle count not looked at (ContextOutlivesUse). *)
ContextDestroyLoadUnchecked(t) ==
  /\ pc[t] = "idle" /\ context = "live"
  /\ \A u \in Threads : pc[u] # "destroy_context"
  /\ \A h \in Handles : status[h] = "making" => Parent[h] # NoHandle
  /\ Goto(t, "destroy_context")
  /\ UNCHANGED <<context, counters, live_handles, status, blocks, target, live,
                 peak, history>>

(* The second allocation fails and the first is not freed (LiveBytesExact). *)
AllocateFailsLeaking(t) ==
  /\ pc[t] = "alloc"
  /\ status' = [status EXCEPT ![target[t]] = "none"]
  /\ Return(t)
  /\ UNCHANGED <<context, counters, live_handles, blocks, history>>

(* The peak stored without comparing (PeakIsHighWater). *)
RaisePeakByStore(t) ==
  /\ pc[t] = "raise_peak"
  /\ live[t] > peak[t]
  /\ peak_live_bytes' = live[t]
  /\ peakPast' = peakPast \cup {live[t]}
  /\ Goto(t, IF blocks[target[t]] < Len(Layout[target[t]]) THEN "alloc" ELSE "built")
  /\ UNCHANGED <<context, allocation_calls, deallocation_calls, live_bytes,
                 live_handles, status, blocks, target, live, peak, maxLive>>

(* The expected value not reloaded after a failure (CallsReturn). *)
RaisePeakRetryStale(t) ==
  /\ pc[t] = "raise_peak"
  /\ live[t] > peak[t]
  /\ UNCHANGED vars

(* A failed creation unwound by the destructor (HandleCountExact). *)
SubLiveBytesThenRelease(t) ==
  /\ pc[t] = "sub_live"
  /\ live_bytes' = live_bytes - Layout[target[t]][blocks[target[t]] + 1]
  /\ Goto(t, IF blocks[target[t]] > 0 THEN "free" ELSE "release")
  /\ UNCHANGED <<context, allocation_calls, deallocation_calls, peak_live_bytes,
                 live_handles, status, blocks, target, live, peak, history>>

-----------------------------------------------------------------------------
(* Host calls *)

(* fd_context_create succeeds: a fresh context, all its counters zero. *)
ContextCreate(t) ==
  /\ pc[t] = "idle" /\ context = "none"
  /\ context' = "live"
  /\ allocation_calls' = 0 /\ deallocation_calls' = 0
  /\ live_bytes' = 0 /\ peak_live_bytes' = 0
  /\ live_handles' = 0
  /\ peakPast' = {0} /\ maxLive' = 0
  /\ UNCHANGED <<status, blocks, pc, target, live, peak>>

(* A call that makes handle h begins: a world is generated or loaded or a  *)
(* replay opened with the context, or a snapshot taken of a live world     *)
(* that no other call is destroying.                                       *)
BeginCreate(t, h) ==
  /\ pc[t] = "idle" /\ context = "live" /\ status[h] = "none"
  /\ allocation_calls < MaxCalls
  /\ IF Parent[h] = NoHandle
     THEN \A u \in Threads : pc[u] # "destroy_context"
     ELSE status[Parent[h]] = "live"
  /\ status' = [status EXCEPT ![h] = "making"]
  /\ target' = [target EXCEPT ![t] = h]
  /\ Goto(t, "alloc")
  /\ UNCHANGED <<context, counters, live_handles, blocks, live, peak, history>>

(* A call that destroys handle h begins.  The host lets no snapshot of h   *)
(* be under way.                                                           *)
BeginDestroy(t, h) ==
  /\ pc[t] = "idle" /\ status[h] = "live"
  /\ \A s \in Handles : Parent[s] = h => status[s] # "making"
  /\ status' = [status EXCEPT ![h] = "dying"]
  /\ target' = [target EXCEPT ![t] = h]
  /\ Goto(t, "free")
  /\ UNCHANGED <<context, counters, live_handles, blocks, live, peak, history>>

(* fd_context_destroy loads live_handles and goes on only if it is zero;   *)
(* otherwise it returns FD_ERR_BUSY and changes nothing.                   *)
ContextDestroyLoad(t) ==
  /\ pc[t] = "idle" /\ context = "live"
  /\ \A u \in Threads : pc[u] # "destroy_context"
  /\ \A h \in Handles : status[h] = "making" => Parent[h] # NoHandle
  /\ live_handles = 0
  /\ Goto(t, "destroy_context")
  /\ UNCHANGED <<context, counters, live_handles, status, blocks, target, live,
                 peak, history>>

(* ... and gives the context back to the host's allocator. *)
ContextDestroyFree(t) ==
  /\ pc[t] = "destroy_context"
  /\ context' = "none"
  /\ Goto(t, "idle")
  /\ UNCHANGED <<counters, live_handles, status, blocks, target, live, peak,
                 history>>

-----------------------------------------------------------------------------
(* fd_context_alloc, called for the next block of the handle being made *)

(* The host's allocate callback returns memory ... *)
AllocateBlock(t) ==
  LET h == target[t] IN
  /\ pc[t] = "alloc"
  /\ blocks' = [blocks EXCEPT ![h] = @ + 1]
  /\ Goto(t, "count_alloc")
  /\ UNCHANGED <<context, counters, live_handles, status, target, live, peak,
                 history>>

(* ... or NULL: the call frees the blocks it has, last first, and fails.   *)
AllocateFails(t) ==
  LET h == target[t] IN
  /\ pc[t] = "alloc"
  /\ IF blocks[h] = 0
     THEN /\ status' = [status EXCEPT ![h] = "none"]
          /\ Return(t)
     ELSE /\ Goto(t, "free")
          /\ UNCHANGED <<status, target, live, peak>>
  /\ UNCHANGED <<context, counters, live_handles, blocks, history>>

CountAllocation(t) ==
  /\ pc[t] = "count_alloc"
  /\ allocation_calls' = allocation_calls + 1
  /\ Goto(t, "add_live")
  /\ UNCHANGED <<context, deallocation_calls, live_bytes, peak_live_bytes,
                 live_handles, status, blocks, target, live, peak, history>>

AddLiveBytes(t) ==
  LET h == target[t] IN
  /\ pc[t] = "add_live"
  /\ live_bytes' = live_bytes + Layout[h][blocks[h]]
  /\ live' = [live EXCEPT ![t] = live_bytes']
  /\ maxLive' = IF maxLive < live_bytes' THEN live_bytes' ELSE maxLive
  /\ Goto(t, "load_peak")
  /\ UNCHANGED <<context, allocation_calls, deallocation_calls,
                 peak_live_bytes, live_handles, status, blocks, target, peak,
                 peakPast>>

(* The relaxed load may return a value that other threads have since       *)
(* replaced.                                                               *)
LoadPeak(t) ==
  /\ pc[t] = "load_peak"
  /\ \E value \in peakPast : peak' = [peak EXCEPT ![t] = value]
  /\ Goto(t, "raise_peak")
  /\ UNCHANGED <<context, counters, live_handles, status, blocks, target, live,
                 history>>

(* Where fd_context_alloc returns to. *)
AfterAlloc(t) ==
  LET h == target[t] IN
  IF blocks[h] < Len(Layout[h]) THEN "alloc" ELSE "built"

(* The loop ends because the peak it saw is high enough. *)
PeakHighEnough(t) ==
  /\ pc[t] = "raise_peak"
  /\ live[t] <= peak[t]
  /\ Goto(t, AfterAlloc(t))
  /\ UNCHANGED <<context, counters, live_handles, status, blocks, target, live,
                 peak, history>>

(* The compare-and-swap succeeds. *)
RaisePeak(t) ==
  /\ pc[t] = "raise_peak"
  /\ live[t] > peak[t]
  /\ peak_live_bytes = peak[t]
  /\ peak_live_bytes' = live[t]
  /\ peakPast' = peakPast \cup {live[t]}
  /\ Goto(t, AfterAlloc(t))
  /\ UNCHANGED <<context, allocation_calls, deallocation_calls, live_bytes,
                 live_handles, status, blocks, target, live, peak, maxLive>>

(* The weak compare-and-swap fails, because the value moved or for no      *)
(* reason, and reloads what it compared with.                              *)
RaisePeakRetry(t) ==
  /\ pc[t] = "raise_peak"
  /\ live[t] > peak[t]
  /\ peak' = [peak EXCEPT ![t] = peak_live_bytes]
  /\ UNCHANGED <<context, counters, live_handles, status, blocks, pc, target,
                 live, history>>

-----------------------------------------------------------------------------
(* The end of a creation *)

(* live_handles is raised and the handle handed to the host. *)
Publish(t) ==
  LET h == target[t] IN
  /\ pc[t] = "built"
  /\ live_handles' = live_handles + 1
  /\ status' = [status EXCEPT ![h] = "live"]
  /\ Return(t)
  /\ UNCHANGED <<context, counters, blocks, history>>

(* A world or replay that is fully allocated may still be refused: the     *)
(* attempts run out, the loaded state is invalid, the replay does not      *)
(* verify.  Its blocks are freed and nothing is published.                 *)
Refuse(t) ==
  /\ pc[t] = "built" /\ Parent[target[t]] = NoHandle
  /\ Goto(t, "free")
  /\ UNCHANGED <<context, counters, live_handles, status, blocks, target, live,
                 peak, history>>

-----------------------------------------------------------------------------
(* fd_context_free, called for the last block the handle still has *)

FreeBlock(t) ==
  LET h == target[t] IN
  /\ pc[t] = "free"
  /\ blocks' = [blocks EXCEPT ![h] = @ - 1]
  /\ Goto(t, "count_free")
  /\ UNCHANGED <<context, counters, live_handles, status, target, live, peak,
                 history>>

CountDeallocation(t) ==
  /\ pc[t] = "count_free"
  /\ deallocation_calls' = deallocation_calls + 1
  /\ Goto(t, "sub_live")
  /\ UNCHANGED <<context, allocation_calls, live_bytes, peak_live_bytes,
                 live_handles, status, blocks, target, live, peak, history>>

(* After the last block a creation that failed returns its error and a     *)
(* destruction goes on to release the handle.                              *)
SubLiveBytes(t) ==
  LET h == target[t] IN
  /\ pc[t] = "sub_live"
  /\ live_bytes' = live_bytes - Layout[h][blocks[h] + 1]
  /\ IF blocks[h] > 0
     THEN Goto(t, "free") /\ UNCHANGED <<status, target, live, peak>>
     ELSE IF status[h] = "dying"
     THEN Goto(t, "release") /\ UNCHANGED <<status, target, live, peak>>
     ELSE /\ status' = [status EXCEPT ![h] = "none"]
          /\ Return(t)
  /\ UNCHANGED <<context, allocation_calls, deallocation_calls,
                 peak_live_bytes, live_handles, blocks, history>>

(* The destroyer's last access to the context. *)
ReleaseHandle(t) ==
  LET h == target[t] IN
  /\ pc[t] = "release"
  /\ live_handles' = live_handles - 1
  /\ status' = [status EXCEPT ![h] = "none"]
  /\ Return(t)
  /\ UNCHANGED <<context, counters, blocks, history>>

-----------------------------------------------------------------------------
HostCall(t) ==
  \/ ContextCreate(t)
  \/ \E h \in Handles : BeginCreate(t, h) \/ BeginDestroy(t, h)
  \/ ContextDestroyLoad(t)

(* The steps of a call that has begun, but for the retry of the loop. *)
CallStep(t) ==
  \/ AllocateBlock(t) \/ AllocateFails(t)
  \/ CountAllocation(t) \/ AddLiveBytes(t)
  \/ LoadPeak(t) \/ PeakHighEnough(t) \/ RaisePeak(t)
  \/ Publish(t) \/ Refuse(t)
  \/ FreeBlock(t) \/ CountDeallocation(t) \/ SubLiveBytes(t)
  \/ ReleaseHandle(t)
  \/ ContextDestroyFree(t)

Next == \E t \in Threads : HostCall(t) \/ CallStep(t) \/ RaisePeakRetry(t)

Spec == Init /\ [][Next]_vars

(* A thread that is inside a call keeps being scheduled, and its weak      *)
(* compare-and-swap does not fail for no reason for ever.                  *)
Fairness ==
  \A t \in Threads :
    /\ WF_vars(CallStep(t) \/ RaisePeakRetry(t))
    /\ SF_vars(RaisePeak(t))

FairSpec == Spec /\ Fairness

-----------------------------------------------------------------------------
(* Properties *)

(* peak_live_bytes is the high-water mark of live_bytes: never above it,   *)
(* and below it only while the thread that set the mark is still in the    *)
(* loop of fd_context_alloc that raises the peak.                          *)
PeakIsHighWater ==
  /\ peak_live_bytes <= maxLive
  /\ \/ peak_live_bytes = maxLive
     \/ \E t \in Threads : /\ pc[t] \in {"load_peak", "raise_peak"}
                           /\ live[t] = maxLive

(* live_handles counts the handles the host holds and those whose          *)
(* destruction has not made its last access to the context; a creation     *)
(* that fails and rolls back never disturbs it.                            *)
Counted == {h \in Handles : status[h] \in {"live", "dying"}}
HandleCountExact == live_handles = Cardinality(Counted)

(* fd_context_destroy gives the context back only when no thread can touch *)
(* it again: neither a handle's destroyer nor a call through a handle.     *)
ContextOutlivesUse ==
  context = "none" => /\ \A t \in Threads : pc[t] = "idle"
                      /\ \A h \in Handles : status[h] = "none"

(* live_bytes is the size of the blocks the handles own, give or take the  *)
(* blocks whose bytes a running fd_context_alloc or _free has yet to add   *)
(* or subtract.  In particular a call that failed has returned every byte, *)
(* the unsigned counter never goes below zero, and it is zero again when   *)
(* the host holds no handle.                                               *)
CountedBlocks(h) ==
  IF status[h] = "none" THEN 0
  ELSE IF \E t \in Threads : target[t] = h /\ pc[t] \in {"count_alloc", "add_live"}
  THEN blocks[h] - 1
  ELSE IF \E t \in Threads : target[t] = h /\ pc[t] \in {"count_free", "sub_live"}
  THEN blocks[h] + 1
  ELSE blocks[h]
(* One element for each byte of block i of handle h. *)
BlockBytes(h, i) == {<<h, i>>} \X (1 .. Layout[h][i])
CountedBytes ==
  UNION {UNION {BlockBytes(h, i) : i \in 1 .. CountedBlocks(h)} : h \in Handles}
LiveBytesExact == live_bytes = Cardinality(CountedBytes)

(* Every call returns, however the compare-and-swap loops of the threads   *)
(* interleave.                                                             *)
CallsReturn == \A t \in Threads : pc[t] # "idle" ~> pc[t] = "idle"
=============================================================================
