---------------------------- MODULE VulkanMemory ----------------------------
(***************************************************************************)
(* Device memory of the Vulkan backend, for one memory type: buffers and   *)
(* textures sub-allocated from heaps by a buddy system, or given a heap of *)
(* their own; heaps recycled through a pool; memory returned only when the *)
(* GPU has passed the serial it was released at.                           *)
(*                                                                         *)
(* A block of the buddy system is <<level, index>>: level 0 is the whole   *)
(* system, and the children of <<l, i>> are <<l + 1, 2 * i>> and           *)
(* <<l + 1, 2 * i + 1>>.                                                   *)
(***************************************************************************)
EXTENDS Integers, Sequences, SequencesExt, FiniteSetsExt

CONSTANTS
    MaxResources,        \* bound: buffers and textures created in a behaviour
    Log2MaxBlockSize,    \* the buddy system has 2^Log2MaxBlockSize bytes
    Log2MemoryBlockSize, \* a heap has 2^Log2MemoryBlockSize, twice the size from which
                         \* resources get a heap of their own
    Sizes, Alignments,   \* what resources ask for
    MaxHeaps,            \* bound: heaps the driver grants in a behaviour
    MaxSerial            \* bound: serials submitted in a behaviour

ASSUME VulkanMemoryConstants ==
    /\ Log2MemoryBlockSize \in 1..Log2MaxBlockSize
    /\ Sizes \subseteq Nat \ {0} /\ Alignments \subseteq {2^k : k \in 0..Log2MaxBlockSize}
    /\ MaxResources \in Nat /\ MaxHeaps \in Nat /\ MaxSerial \in Nat

Resources == 1..MaxResources

MaxBlockSize    == 2^Log2MaxBlockSize
MemoryBlockSize == 2^Log2MemoryBlockSize
kMaxSizeForSubAllocation == MemoryBlockSize \div 2

Levels        == 0..Log2MaxBlockSize
BlockSize(l)  == 2^(Log2MaxBlockSize - l)
Blocks        == {<<l, i>> \in Levels \X (0..(MaxBlockSize - 1)) : i < 2^l}
Offset(b)     == b[2] * BlockSize(b[1])
Buddy(b)      == <<b[1], IF b[2] % 2 = 0 THEN b[2] + 1 ELSE b[2] - 1>>
MemoryIndexes == 0..((MaxBlockSize \div MemoryBlockSize) - 1)
Heaps         == 1..MaxHeaps

VARIABLES
    blockState,           \* of each block that exists: Free, Split or Allocated
    mFreeLists,           \* per level, the indexes of its free blocks from the head
    refcount, memory,     \* mTrackedSubAllocations, memory 0 for none
    mPool,                \* PooledResourceMemoryAllocator
    heapState,            \* of each VkDeviceMemory
    method, heap, offset, block,   \* the ResourceMemoryAllocation of each resource
    size,                 \* the bytes each resource has of it
    handle,               \* None, Live, or with the FencedDeleter
    deleteSerial,         \* FencedDeleter: the serial its handle was released at
    mSubAllocationsToDelete,   \* <<resource, serial>> in the order they were released
    mMemoriesToDelete,    \* FencedDeleter: heaps with the serial they were released at
    mLastSubmittedSerial, mCompletedSerial,
    lastUse,              \* the last serial whose commands use the resource
    lost,                 \* blocks no allocation owns any more
    device,               \* Alive, Destroying (DestroyObjects has run), Destroyed
    deleting              \* FencedDeleter::Tick: the loops still to run

buddyVars == <<blockState, mFreeLists>>
heapVars  == <<refcount, memory, mPool, heapState>>
allocVars == <<method, heap, offset, size, block>>
deleteVars == <<handle, deleteSerial, mSubAllocationsToDelete, mMemoriesToDelete>>
serialVars == <<mLastSubmittedSerial, mCompletedSerial, lastUse>>
vars == <<buddyVars, heapVars, allocVars, deleteVars, serialVars, lost, device, deleting>>

PendingSerial == mLastSubmittedSerial + 1

(* Every variable has its type.                                            *)
MemoryTypeOK ==
    /\ blockState \in [Blocks -> {"None", "Free", "Split", "Allocated"}]
    /\ mFreeLists \in [Levels -> Seq(0..(MaxBlockSize - 1))]
    /\ refcount \in [MemoryIndexes -> 0..MaxBlockSize] /\ memory \in [MemoryIndexes -> 0..MaxHeaps]
    /\ mPool \in Seq(Heaps)
    /\ heapState \in [Heaps -> {"None", "Tracked", "Pool", "Direct", "Deleting", "Freed"}]
    /\ method \in [Resources -> {"Invalid", "SubAllocated", "Direct"}]
    /\ heap \in [Resources -> 0..MaxHeaps]
    /\ offset \in [Resources -> 0..MemoryBlockSize]
    /\ size \in [Resources -> Nat]
    /\ block \in [Resources -> Blocks]
    /\ handle \in [Resources -> {"None", "Live", "Deleting", "Deleted"}]
    /\ deleteSerial \in [Resources -> 0..(MaxSerial + 4)]
    /\ mSubAllocationsToDelete \in Seq(Resources \X (0..(MaxSerial + 2)))
    /\ mMemoriesToDelete \subseteq Heaps \X (1..(MaxSerial + 4))
    /\ mLastSubmittedSerial \in 0..(MaxSerial + 3) /\ mCompletedSerial \in 0..mLastSubmittedSerial
    /\ lastUse \in [Resources -> 0..(MaxSerial + 2)]
    /\ lost \subseteq Blocks
    /\ device \in {"Alive", "Destroying", "Destroyed"}
    /\ deleting \in Seq({"Resources", "Memories"})

Root == <<0, 0>>

(* No call is in progress: the loops of a tick run to their end.           *)
Running == device = "Alive" /\ deleting = <<>>

Init ==
    /\ blockState = [b \in Blocks |-> IF b = Root THEN "Free" ELSE "None"]
    /\ mFreeLists = [l \in Levels |-> IF l = 0 THEN <<0>> ELSE <<>>]
    /\ refcount = [m \in MemoryIndexes |-> 0] /\ memory = [m \in MemoryIndexes |-> 0]
    /\ mPool = <<>> /\ heapState = [h \in Heaps |-> "None"]
    /\ method = [r \in Resources |-> "Invalid"] /\ heap = [r \in Resources |-> 0]
    /\ offset = [r \in Resources |-> 0] /\ size = [r \in Resources |-> 0]
    /\ block = [r \in Resources |-> Root]
    /\ handle = [r \in Resources |-> "None"] /\ deleteSerial = [r \in Resources |-> 0]
    /\ mSubAllocationsToDelete = <<>> /\ mMemoriesToDelete = {}
    /\ mLastSubmittedSerial = 0 /\ mCompletedSerial = 0
    /\ lastUse = [r \in Resources |-> 0]
    /\ lost = {}
    /\ device = "Alive" /\ deleting = <<>>

-----------------------------------------------------------------------------
(* BuddyAllocator                                                          *)

NextPowerOfTwo(n) == Min({2^k : k \in 0..n} \cap {p \in 1..(2 * n) : p >= n})

LevelOf(blockSize) == CHOOSE l \in Levels : BlockSize(l) = blockSize

(* Mutant: the alignment is not looked at.                                 *)
UsableAnyAlignment(l, alignment) == mFreeLists[l] # <<>>

Usable(l, alignment) ==
    mFreeLists[l] # <<>> /\ Offset(<<l, Head(mFreeLists[l])>>) % alignment = 0

(* GetNextFreeAlignedBlock: the nearest level up whose first free block is *)
(* aligned; -1 for none.                                                   *)
GetNextFreeAlignedBlock(level, alignment) ==
    Max({-1} \cup {l \in 0..level : Usable(l, alignment)})

(* Allocate splits the block from level l down to level along its left     *)
(* children, whose buddies become the first free block of their level.     *)
LeftChild(b, l) == <<l, b[2] * 2^(l - b[1])>>

Split(b, level) ==
    LET path   == {LeftChild(b, l) : l \in b[1]..level}
        rights == {Buddy(LeftChild(b, l)) : l \in (b[1] + 1)..level}
    IN  /\ blockState' = [c \in Blocks |->
                IF c = LeftChild(b, level) THEN "Allocated"
                ELSE IF c \in path THEN "Split"
                ELSE IF c \in rights THEN "Free"
                ELSE blockState[c]]
        /\ mFreeLists' = [l \in Levels |->
                IF l = b[1] THEN Tail(mFreeLists[l])
                ELSE IF l \in (b[1] + 1)..level THEN <<LeftChild(b, l)[2] + 1>> \o mFreeLists[l]
                ELSE mFreeLists[l]]

(* The ancestor of b at level l.                                           *)
Ancestor(b, l) == <<l, b[2] \div 2^(b[1] - l)>>

(* Deallocate finds the block from its offset: down from the root to the   *)
(* first one that is not split.                                            *)
BlockAt(state, off) ==
    LET covering == {<<l, off \div BlockSize(l)>> : l \in Levels}
    IN  CHOOSE b \in covering :
            state[b] # "Split" /\ \A l \in 0..(b[1] - 1) : state[Ancestor(b, l)] = "Split"

(* The level up to which the freed block merges: as long as the buddy on   *)
(* the way up is free.                                                     *)
MergedLevel(state, b) ==
    Min({l \in 0..b[1] : \A k \in (l + 1)..b[1] : state[Buddy(Ancestor(b, k))] = "Free"})

(* Deallocate on a tree and its free lists.                                *)
Deallocated(buddy, off) ==
    LET b       == BlockAt(buddy.state, off)
        top     == MergedLevel(buddy.state, b)
        merged  == {Ancestor(b, k) : k \in (top + 1)..b[1]}
        buddies == {Buddy(c) : c \in merged}
    IN  [state |-> [c \in Blocks |->
            IF c = Ancestor(b, top) THEN "Free"
            ELSE IF c \in merged \cup buddies THEN "None" ELSE buddy.state[c]],
         free |-> [l \in Levels |->
            IF l = top THEN <<Ancestor(b, top)[2]>> \o buddy.free[l]
            ELSE SelectSeq(buddy.free[l], LAMBDA i : <<l, i>> \notin buddies)]]

-----------------------------------------------------------------------------
(* BuddyMemoryAllocator, PooledResourceMemoryAllocator and                 *)
(* ResourceMemoryAllocator: the creation of a buffer or texture.           *)

GetMemoryIndex(b) == Offset(b) \div MemoryBlockSize

Bind(r, how, h, off, n, b) ==
    /\ method' = [method EXCEPT ![r] = how] /\ heap' = [heap EXCEPT ![r] = h]
    /\ offset' = [offset EXCEPT ![r] = off] /\ size' = [size EXCEPT ![r] = n]
    /\ block' = [block EXCEPT ![r] = b]
    /\ handle' = [handle EXCEPT ![r] = "Live"]

(* The creation fails: the handle is released, the allocation was never    *)
(* valid.                                                                  *)
CreationFails(r) ==
    /\ handle' = [handle EXCEPT ![r] = "Deleting"]
    /\ deleteSerial' = [deleteSerial EXCEPT ![r] = PendingSerial]
    /\ UNCHANGED allocVars

UnusedHeap(h) == heapState[h] = "None" /\ \A g \in 1..(h - 1) : heapState[g] # "None"

(* SingleTypeAllocator::AllocateResourceHeap, then MapMemory for a         *)
(* resource that is mappable.  Either may fail.  The whole heap is the     *)
(* resource's, which as bytes is written as those of a memory block.       *)
AllocateDirect(r, mappable) ==
    /\ \/ \E h \in Heaps :
            /\ UnusedHeap(h)
            /\ \/ /\ heapState' = [heapState EXCEPT ![h] = "Direct"]
                  /\ Bind(r, "Direct", h, 0, MemoryBlockSize, Root)
                  /\ UNCHANGED <<deleteSerial, mMemoriesToDelete>>
               \/ /\ mappable
                  /\ heapState' = [heapState EXCEPT ![h] = "Deleting"]
                  /\ mMemoriesToDelete' = mMemoriesToDelete \cup {<<h, PendingSerial>>}
                  /\ CreationFails(r)
       \/ CreationFails(r) /\ UNCHANGED <<heapState, mMemoriesToDelete>>
    /\ UNCHANGED <<buddyVars, refcount, memory, mPool, mSubAllocationsToDelete, serialVars, lost,
                   device, deleting>>

(* The block b is sub-allocated.  The first one in its memory gets it a    *)
(* heap, from the pool or from the driver; when that fails the block stays *)
(* allocated.                                                              *)
SubAllocate(r, n, b) ==
    LET m     == GetMemoryIndex(b)
        taken == [refcount EXCEPT ![m] = @ + 1]
        Backed(h) == /\ memory' = [memory EXCEPT ![m] = h]
                     /\ refcount' = taken
                     /\ Bind(r, "SubAllocated", h, Offset(b) % MemoryBlockSize, n, b)
                     /\ UNCHANGED <<deleteSerial, lost>>
    IN  /\ \/ refcount[m] > 0 /\ Backed(memory[m]) /\ UNCHANGED <<mPool, heapState>>
           \/ /\ refcount[m] = 0 /\ mPool # <<>>
              /\ Backed(Head(mPool))
              /\ mPool' = Tail(mPool)
              /\ heapState' = [heapState EXCEPT ![Head(mPool)] = "Tracked"]
           \/ /\ refcount[m] = 0 /\ mPool = <<>>
              /\ \/ \E h \in Heaps :
                      /\ UnusedHeap(h) /\ Backed(h)
                      /\ heapState' = [heapState EXCEPT ![h] = "Tracked"]
                 \/ /\ CreationFails(r)
                    /\ lost' = lost \cup {b}
                    /\ UNCHANGED <<refcount, memory, heapState>>
              /\ UNCHANGED mPool
        /\ UNCHANGED <<mSubAllocationsToDelete, mMemoriesToDelete, serialVars, device, deleting>>

(* ResourceMemoryAllocator::Allocate                                       *)
Create(r, n, alignment, mappable) ==
    LET level == LevelOf(NextPowerOfTwo(n))
        from  == GetNextFreeAlignedBlock(level, alignment)
        b     == <<from, Head(mFreeLists[from])>>
    IN  /\ handle[r] = "None" /\ Running
        /\ \A q \in 1..(r - 1) : handle[q] # "None"
        /\ IF n < kMaxSizeForSubAllocation /\ ~mappable /\ from # -1
             THEN Split(b, level) /\ SubAllocate(r, n, LeftChild(b, level))
             ELSE AllocateDirect(r, mappable)

(* Commands that use the resource are recorded.                            *)
Use(r) ==
    /\ handle[r] = "Live" /\ lastUse[r] # PendingSerial /\ Running
    /\ mLastSubmittedSerial < MaxSerial
    /\ lastUse' = [lastUse EXCEPT ![r] = PendingSerial]
    /\ UNCHANGED <<buddyVars, heapVars, allocVars, deleteVars, mLastSubmittedSerial,
                   mCompletedSerial, lost, device, deleting>>

Submit ==
    /\ mLastSubmittedSerial < MaxSerial /\ Running
    /\ mLastSubmittedSerial' = PendingSerial
    /\ UNCHANGED <<buddyVars, heapVars, allocVars, deleteVars, mCompletedSerial, lastUse, lost,
                   device, deleting>>

(* Mutant: a sub-allocation waits only for what has been submitted.        *)
SubAllocationSerialSubmitted == mLastSubmittedSerial

(* ResourceMemoryAllocator::Deallocate keeps a sub-allocation until the    *)
(* commands that are being recorded are done, "otherwise another resource  *)
(* allocation could happen just after that aliases the old one".           *)
SubAllocationSerial == PendingSerial

Deallocate(r) ==
    \/ /\ method[r] = "SubAllocated"
       /\ mSubAllocationsToDelete' = Append(mSubAllocationsToDelete, <<r, SubAllocationSerial>>)
       /\ UNCHANGED <<mMemoriesToDelete, heapState>>
    \/ /\ method[r] = "Direct"
       /\ mMemoriesToDelete' = mMemoriesToDelete \cup {<<heap[r], PendingSerial>>}
       /\ heapState' = [heapState EXCEPT ![heap[r]] = "Deleting"]
       /\ UNCHANGED mSubAllocationsToDelete

DeleteHandle(r) ==
    /\ handle' = [handle EXCEPT ![r] = "Deleting"]
    /\ deleteSerial' = [deleteSerial EXCEPT ![r] = PendingSerial]
    /\ UNCHANGED <<buddyVars, refcount, memory, mPool, allocVars, serialVars, lost, device, deleting>>

(* DestroyImpl of a buffer or a texture.                                   *)
Destroy(r) == handle[r] = "Live" /\ Running /\ Deallocate(r) /\ DeleteHandle(r)

-----------------------------------------------------------------------------
(* The device's tick.                                                      *)

Current ==
    [state |-> blockState, free |-> mFreeLists, refcount |-> refcount, memory |-> memory,
     pool |-> mPool]

(* Mutant: a heap is given back while it still has a block.                *)
UnusedSoon(left) == left <= 1

Unused(left) == left = 0

(* BuddyMemoryAllocator::Deallocate: the last block of a memory sends its  *)
(* heap to the front of the pool.                                          *)
DeallocateMemory(system, d) ==
    LET b     == block[d[1]]
        m     == GetMemoryIndex(b)
        left  == system.refcount[m] - 1
        buddy == Deallocated(system, Offset(b))
    IN  [state |-> buddy.state, free |-> buddy.free,
         refcount |-> [system.refcount EXCEPT ![m] = left],
         memory |-> [system.memory EXCEPT ![m] = IF Unused(left) THEN 0 ELSE @],
         pool |-> (IF Unused(left) THEN <<system.memory[m]>> ELSE <<>>) \o system.pool]

(* ResourceMemoryAllocator::Tick on what it may free.                      *)
Reclaim(system, ds) == FoldLeft(DeallocateMemory, system, ds)

SetSystem(system) ==
    /\ blockState' = system.state /\ mFreeLists' = system.free
    /\ refcount' = system.refcount /\ memory' = system.memory /\ mPool' = system.pool

(* Mutant: the memories are freed before what is bound to them.            *)
DeleterLoopsSwapped == <<"Memories", "Resources">>

(* FencedDeleter::Tick: "Buffers and images must be deleted before         *)
(* memories".                                                              *)
DeleterLoops == <<"Resources", "Memories">>

(* DeviceBase::Tick when the GPU has finished the serials up to finished:  *)
(* CheckPassedSerials, then ResourceMemoryAllocator::Tick.  It does        *)
(* nothing on an idle device, unless a tracker has asked for the pending   *)
(* serial.                                                                 *)
Tick(finished) ==
    LET ready == SelectSeq(mSubAllocationsToDelete, LAMBDA d : d[2] <= finished)
    IN  /\ Running
        /\ mLastSubmittedSerial > mCompletedSerial \/ mLastSubmittedSerial < MaxSerial
        /\ finished \in mCompletedSerial..mLastSubmittedSerial
        /\ SetSystem(Reclaim(Current, ready))
        /\ mSubAllocationsToDelete' =
                SelectSeq(mSubAllocationsToDelete, LAMBDA d : d[2] > finished)
        /\ heapState' = [h \in Heaps |-> IF h \in Range(mPool') THEN "Pool" ELSE heapState[h]]
        /\ mCompletedSerial' = finished
        /\ deleting' = DeleterLoops
        /\ UNCHANGED <<allocVars, handle, deleteSerial, mMemoriesToDelete, mLastSubmittedSerial,
                       lastUse, lost, device>>

(* After the deleter's last loop TickImpl submits what has been recorded,  *)
(* and when nothing is in flight AssumeCommandsComplete moves the serials. *)
TickEnds ==
    LET used == \E r \in Resources : lastUse[r] = PendingSerial
        last == IF used THEN PendingSerial ELSE mLastSubmittedSerial
        idle == mCompletedSerial = last
    IN  /\ mLastSubmittedSerial' = IF idle THEN last + 1 ELSE last
        /\ mCompletedSerial' = IF idle THEN last + 1 ELSE mCompletedSerial

InLoop(loop) ==
    /\ deleting # <<>> /\ Head(deleting) = loop
    /\ deleting' = Tail(deleting)
    /\ IF device = "Alive" /\ Tail(deleting) = <<>>
         THEN TickEnds
         ELSE UNCHANGED <<mLastSubmittedSerial, mCompletedSerial>>
    /\ UNCHANGED <<buddyVars, refcount, memory, mPool, allocVars, deleteSerial,
                   mSubAllocationsToDelete, lastUse, lost, device>>

(* The last tick of a device deletes everything (kMaxExecutionSerial).     *)
DeleterSerial == IF device = "Destroyed" THEN PendingSerial ELSE mCompletedSerial

(* The loops over mBuffersToDelete and mImagesToDelete.                    *)
DeleteResources ==
    /\ InLoop("Resources")
    /\ handle' = [r \in Resources |->
            IF handle[r] = "Deleting" /\ deleteSerial[r] <= DeleterSerial THEN "Deleted"
                                                                          ELSE handle[r]]
    /\ UNCHANGED <<mMemoriesToDelete, heapState>>

FreeMemories ==
    LET freed == {d \in mMemoriesToDelete : d[2] <= DeleterSerial}
    IN  /\ InLoop("Memories")
        /\ mMemoriesToDelete' = mMemoriesToDelete \ freed
        /\ heapState' = [h \in Heaps |->
                IF h \in {d[1] : d \in freed} THEN "Freed" ELSE heapState[h]]
        /\ UNCHANGED handle

(* DeviceBase::Destroy: what is being recorded is dropped, the GPU is      *)
(* waited for and the serials move past everything, twice; the resources   *)
(* that are left are destroyed in between, and the allocator and the       *)
(* deleter tick.                                                           *)
DestroyDevice ==
    LET left   == {r \in Resources : handle[r] = "Live"}
        subs   == SetToSortSeq({r \in left : method[r] = "SubAllocated"}, <)
        direct == {heap[r] : r \in {q \in left : method[q] = "Direct"}}
        last   == PendingSerial + 1
    IN  /\ Running /\ device' = "Destroying"
        /\ SetSystem(Reclaim(Current,
                mSubAllocationsToDelete \o [i \in DOMAIN subs |-> <<subs[i], last>>]))
        /\ mSubAllocationsToDelete' = <<>>
        /\ handle' = [r \in Resources |-> IF r \in left THEN "Deleting" ELSE handle[r]]
        /\ deleteSerial' = [r \in Resources |-> IF r \in left THEN last ELSE deleteSerial[r]]
        /\ mMemoriesToDelete' = mMemoriesToDelete \cup {<<h, last>> : h \in direct}
        /\ heapState' = [h \in Heaps |->
                IF h \in direct THEN "Deleting"
                ELSE IF h \in Range(mPool') THEN "Pool" ELSE heapState[h]]
        /\ mLastSubmittedSerial' = last /\ mCompletedSerial' = last
        /\ deleting' = DeleterLoops
        /\ UNCHANGED <<allocVars, lastUse, lost>>

(* The pool is given to the deleter, which ticks a last time.              *)
DestroyPool ==
    /\ device = "Destroying" /\ deleting = <<>> /\ device' = "Destroyed"
    /\ mMemoriesToDelete' = mMemoriesToDelete \cup {<<h, PendingSerial>> : h \in Range(mPool)}
    /\ heapState' = [h \in Heaps |-> IF h \in Range(mPool) THEN "Deleting" ELSE heapState[h]]
    /\ mPool' = <<>>
    /\ deleting' = DeleterLoops
    /\ UNCHANGED <<buddyVars, refcount, memory, allocVars, handle, deleteSerial,
                   mSubAllocationsToDelete, serialVars, lost>>

Next ==
    \/ \E r \in Resources :
         \/ \E n \in Sizes, alignment \in Alignments, mappable \in BOOLEAN :
              Create(r, n, alignment, mappable)
         \/ Use(r) \/ Destroy(r)
    \/ Submit
    \/ \E finished \in 0..mLastSubmittedSerial : Tick(finished)
    \/ DeleteResources \/ FreeMemories
    \/ DestroyDevice \/ DestroyPool

Spec == Init /\ [][Next]_vars

-----------------------------------------------------------------------------
(* Properties.                                                             *)

(* Resources whose Vulkan object exists.                                   *)
Bound == {r \in Resources : handle[r] \in {"Live", "Deleting"} /\ method[r] # "Invalid"}

Bytes(r) == offset[r]..(offset[r] + size[r] - 1)

(* Two resources never share memory while commands of one may still run:   *)
(* not when a freed block is split, merged or given to another at once,    *)
(* nor when a heap is recycled.                                            *)
NoAliasing ==
    \A r, s \in Bound : r # s /\ heap[r] = heap[s] => Bytes(r) \cap Bytes(s) = {}

(* A heap is freed only after all that is bound to it ("it is invalid to   *)
(* free memory that still have resources bound to it"), and after the GPU  *)
(* is done with that.                                                      *)
MemoryOutlivesResources ==
    /\ \A r \in Bound : heapState[heap[r]] # "Freed"
    /\ \A r \in Resources : handle[r] = "Deleted" => lastUse[r] <= mCompletedSerial

(* The free lists are the free blocks of the tree, in which no two buddies *)
(* are both free and a block has children just when it is split.           *)
FreeListsMatchTree ==
    /\ \A l \in Levels :
         /\ Range(mFreeLists[l]) = {b[2] : b \in {c \in Blocks : c[1] = l /\ blockState[c] = "Free"}}
         /\ Cardinality(Range(mFreeLists[l])) = Len(mFreeLists[l])
    /\ \A b \in Blocks \ {Root} :
         /\ ~(blockState[b] = "Free" /\ blockState[Buddy(b)] = "Free")
         /\ blockState[b] # "None" <=> blockState[Ancestor(b, b[1] - 1)] = "Split"

(* The sub-allocations that hold a block.                                  *)
Holding == {r \in Resources : method[r] = "SubAllocated"
                              /\ (\/ handle[r] = "Live"
                                  \/ r \in {d[1] : d \in Range(mSubAllocationsToDelete)})}

(* What the rest of a behaviour can depend on: of a resource that is gone, *)
(* only that it is.                                                        *)
LiveView ==
    <<buddyVars, heapVars, handle, mSubAllocationsToDelete, mMemoriesToDelete,
      mLastSubmittedSerial, mCompletedSerial, lost, device, deleting,
      [r \in Resources |->
        <<IF r \in Bound \cup Holding THEN <<method[r], heap[r], offset[r], size[r], block[r]>> ELSE <<>>,
          IF handle[r] = "Deleting" THEN deleteSerial[r] ELSE 0,
          IF lastUse[r] > mCompletedSerial THEN lastUse[r] ELSE 0>>]>>

(* Every allocated block belongs to one resource or was lost with a failed *)
(* heap; each memory counts its blocks and has a heap while it has one.    *)
EveryBlockIsOwned ==
    /\ {b \in Blocks : blockState[b] = "Allocated"} = {block[r] : r \in Holding} \cup lost
    /\ \A m \in MemoryIndexes :
         /\ refcount[m] = Cardinality({r \in Holding : GetMemoryIndex(block[r]) = m})
         /\ refcount[m] > 0 <=> memory[m] # 0 /\ heapState[memory[m]] = "Tracked"

(* The buddy tree, its free lists, its owners and the heaps agree.         *)
BuddyInv == MemoryTypeOK /\ FreeListsMatchTree /\ EveryBlockIsOwned

(* What a resource is given is aligned as Vulkan asked and lies within its *)
(* heap, whichever free block it was cut from.                             *)
FitsItsHeap ==
    [][\A r \in Resources : method[r] = "Invalid" /\ method'[r] = "SubAllocated" =>
         \A n \in Sizes, alignment \in Alignments : Create(r, n, alignment, FALSE) =>
             /\ offset'[r] % alignment = 0
             /\ offset'[r] + n <= MemoryBlockSize]_vars

(* No memory survives the device.                                          *)
AllFreedAtDestroy == device = "Destroyed" /\ deleting = <<>> => \A h \in Heaps : heapState[h] \in {"None", "Freed"}

(* Heaps live as long as what is bound to them and no longer than the      *)
(* device.                                                                 *)
HeapLifetimes == MemoryOutlivesResources /\ AllFreedAtDestroy
=============================================================================
