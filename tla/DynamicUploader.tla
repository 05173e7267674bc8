-------------------------- MODULE DynamicUploader --------------------------
(***************************************************************************)
(* Staging memory for uploads: DynamicUploader, its list of ring buffers   *)
(* and the RingBufferAllocator of each.  Memory is handed out for the      *)
(* pending serial and taken back, in order, once that serial has completed *)
(* on the GPU.                                                             *)
(*                                                                         *)
(* Ring buffers are only ever appended to mRingBuffers and erased from it, *)
(* so the vector is the set of their numbers: its order is that of the     *)
(* numbers.  The loops of Deallocate are steps of their own (cursor); no   *)
(* call can come between them.                                             *)
(***************************************************************************)
EXTENDS Integers

CONSTANTS
    RingSize,       \* kRingBufferSize
    Sizes,          \* sizes of uploads; the callers skip empty uploads
    Alignments,     \* offset alignments the callers ask for
    MaxUploads,     \* bound: uploads in a behaviour
    MaxSerial       \* bound: the last serial submitted

ASSUME UploaderAssumption ==
    /\ RingSize \in Nat \ {0}
    /\ Sizes \subseteq Nat \ {0}
    /\ Alignments \subseteq Nat \ {0}
    /\ MaxUploads \in Nat
    /\ MaxSerial \in Nat

Uploads == 1..MaxUploads
Rings   == 1..(MaxUploads + 1)  \* upload u may append ring u + 1
OwnBuffer == 0                  \* in the place of a ring: a staging buffer of its own

VARIABLES
    mRingBuffers,                                   \* the rings in the vector
    mUsedStartOffset, mUsedEndOffset, mUsedSize,    \* RingBufferAllocator, by ring
    mStagingBuffer,                                 \* by ring: is it backed by memory?
    uploadState,                                    \* mInflightRequests
    uploadRing, uploadStart, endOffset, requestSize, uploadSerial,
    handleOffset, handleSize,                       \* what the caller uses of it
    mPendingSerial, mCompletedSerial,               \* of the device
    cursor                                          \* Deallocate's ring, 0 outside Deallocate

ringVars   == <<mUsedStartOffset, mUsedEndOffset, mUsedSize>>
uploadVars == <<uploadState, uploadRing, uploadStart, endOffset, requestSize, uploadSerial,
                handleOffset, handleSize>>
vars == <<mRingBuffers, ringVars, mStagingBuffer, uploadVars, mPendingSerial, mCompletedSerial,
          cursor>>

(* Every variable has its type.                                            *)
UploaderTypeOK ==
    /\ mRingBuffers \in SUBSET Rings
    /\ mUsedStartOffset \in [Rings -> Nat]
    /\ mUsedEndOffset \in [Rings -> Nat]
    /\ mUsedSize \in [Rings -> Nat]
    /\ mStagingBuffer \in [Rings -> {"Null", "Created"}]
    /\ uploadState \in [Uploads -> {"Unused", "InFlight", "Reclaimed"}]
    /\ uploadRing \in [Uploads -> Rings \cup {OwnBuffer}]
    /\ uploadStart \in [Uploads -> Nat]
    /\ endOffset \in [Uploads -> Nat]
    /\ requestSize \in [Uploads -> Nat]
    /\ uploadSerial \in [Uploads -> Nat]
    /\ handleOffset \in [Uploads -> Nat]
    /\ handleSize \in [Uploads -> Nat]
    /\ mPendingSerial \in Nat /\ mCompletedSerial \in Nat
    /\ cursor \in Rings \cup {0}

Init ==
    /\ mRingBuffers = {1}
    /\ mUsedStartOffset = [r \in Rings |-> 0]
    /\ mUsedEndOffset = [r \in Rings |-> 0]
    /\ mUsedSize = [r \in Rings |-> 0]
    /\ mStagingBuffer = [r \in Rings |-> "Null"]
    /\ uploadState = [u \in Uploads |-> "Unused"]
    /\ uploadRing = [u \in Uploads |-> OwnBuffer]
    /\ uploadStart = [u \in Uploads |-> 0]
    /\ endOffset = [u \in Uploads |-> 0]
    /\ requestSize = [u \in Uploads |-> 0]
    /\ uploadSerial = [u \in Uploads |-> 0]
    /\ handleOffset = [u \in Uploads |-> 0]
    /\ handleSize = [u \in Uploads |-> 0]
    /\ mPendingSerial = 1 /\ mCompletedSerial = 0
    /\ cursor = 0

-----------------------------------------------------------------------------
(* RingBufferAllocator.  Its mCurrentRequestSize is 0 between calls.       *)

InRing(u, r) == uploadState[u] = "InFlight" /\ uploadRing[u] = r
Empty(r) == \A u \in Uploads : ~InRing(u, r)
Remaining(r) == RingSize - mUsedSize[r]

(* Mutant: the used size is not looked at.                                 *)
HasRoomAlways(r, n) == TRUE

(* The buffer is not full, and the size fits in what is not used.          *)
HasRoom(r, n) == mUsedSize[r] < RingSize /\ n <= Remaining(r)

Split(r) == mUsedStartOffset[r] > mUsedEndOffset[r]

FitsAtEnd(r, n) == ~Split(r) /\ mUsedEndOffset[r] + n <= RingSize

(* Mutant: the front is used without looking where the used part starts.   *)
FitsAtFrontUnchecked(r, n) == ~Split(r) /\ mUsedEndOffset[r] + n > RingSize

FitsAtFront(r, n) ==
    ~Split(r) /\ mUsedEndOffset[r] + n > RingSize /\ n <= mUsedStartOffset[r]

FitsBetween(r, n) == Split(r) /\ mUsedEndOffset[r] + n <= mUsedStartOffset[r]

CanSubAllocate(r, n) ==
    HasRoom(r, n) /\ (FitsAtEnd(r, n) \/ FitsAtFront(r, n) \/ FitsBetween(r, n))

SubAllocStart(r, n) == IF FitsAtFront(r, n) THEN 0 ELSE mUsedEndOffset[r]

(* A request at the front also takes the space left at the end.            *)
RequestSize(r, n) == IF FitsAtFront(r, n) THEN (RingSize - mUsedEndOffset[r]) + n ELSE n

SubAllocate(r, n, u) ==
    /\ uploadStart' = [uploadStart EXCEPT ![u] = SubAllocStart(r, n)]
    /\ endOffset' = [endOffset EXCEPT ![u] = SubAllocStart(r, n) + n]
    /\ requestSize' = [requestSize EXCEPT ![u] = RequestSize(r, n)]
    /\ mUsedEndOffset' = [mUsedEndOffset EXCEPT ![r] = SubAllocStart(r, n) + n]
    /\ mUsedSize' = [mUsedSize EXCEPT ![r] = @ + RequestSize(r, n)]
    /\ UNCHANGED mUsedStartOffset

-----------------------------------------------------------------------------
(* DynamicUploader::Allocate.                                              *)

NextUpload(u) == uploadState[u] = "Unused" /\ \A v \in Uploads : v < u => uploadState[v] # "Unused"

Last(r) == r \in mRingBuffers /\ \A q \in mRingBuffers : q <= r

(* First fit by size alone; the last ring when there is none.              *)
TargetRing(r, n) ==
    \/ /\ r \in mRingBuffers /\ n <= Remaining(r)
       /\ \A q \in mRingBuffers : q < r => n > Remaining(q)
    \/ Last(r) /\ \A q \in mRingBuffers : n > Remaining(q)

(* Align(start, alignment)                                                 *)
Aligned(offset, start, alignment) ==
    offset \in start..(start + alignment - 1) /\ offset % alignment = 0

(* The caller gets size bytes; length is 0 when it gets an error instead.  *)
Handle(u, start, size, alignment) ==
    \E length \in {0, size}, offset \in start..(start + alignment - 1) :
        /\ Aligned(offset, start, alignment)
        /\ handleOffset' = [handleOffset EXCEPT ![u] = offset]
        /\ handleSize' = [handleSize EXCEPT ![u] = length]

Enqueue(u, r) ==
    /\ uploadState' = [uploadState EXCEPT ![u] = "InFlight"]
    /\ uploadRing' = [uploadRing EXCEPT ![u] = r]
    /\ uploadSerial' = [uploadSerial EXCEPT ![u] = mPendingSerial]

(* A ring gets its memory at its first use, which may fail: the request    *)
(* stays in the ring though the caller gets an error.                      *)
UseRing(u, r, size, alignment) ==
    /\ Enqueue(u, r)
    /\ SubAllocate(r, size + alignment - 1, u)
    /\ Handle(u, SubAllocStart(r, size + alignment - 1), size, alignment)
    /\ mStagingBuffer' = [mStagingBuffer EXCEPT ![r] = IF handleSize'[u] = 0 THEN @ ELSE "Created"]
    /\ handleSize'[u] = 0 => mStagingBuffer[r] = "Null"

Fitting(u, size, alignment) ==
    /\ cursor = 0 /\ NextUpload(u)
    /\ size + alignment - 1 <= RingSize

(* Allocate, from the ring that first fit finds.                           *)
AllocateInRing(u, size, alignment) ==
    /\ Fitting(u, size, alignment)
    /\ \E r \in mRingBuffers :
            /\ TargetRing(r, size + alignment - 1) /\ CanSubAllocate(r, size + alignment - 1)
            /\ UseRing(u, r, size, alignment)
    /\ UNCHANGED <<mRingBuffers, mPendingSerial, mCompletedSerial, cursor>>

(* Allocate, from a new ring because that ring has no room after all.      *)
AllocateInNewRing(u, size, alignment) ==
    /\ Fitting(u, size, alignment)
    /\ \E r \in mRingBuffers :
            TargetRing(r, size + alignment - 1) /\ ~CanSubAllocate(r, size + alignment - 1)
    /\ mRingBuffers' = mRingBuffers \cup {u + 1}
    /\ UseRing(u, u + 1, size, alignment)
    /\ UNCHANGED <<mPendingSerial, mCompletedSerial, cursor>>

(* Allocate and ReleaseStagingBuffer, for what is larger than a ring.      *)
AllocateOwnBuffer(u, size, alignment) ==
    /\ cursor = 0 /\ NextUpload(u)
    /\ size + alignment - 1 > RingSize
    /\ Enqueue(u, OwnBuffer)
    /\ uploadStart' = [uploadStart EXCEPT ![u] = 0]
    /\ endOffset' = [endOffset EXCEPT ![u] = size + alignment - 1]
    /\ requestSize' = [requestSize EXCEPT ![u] = size + alignment - 1]
    /\ handleOffset' = [handleOffset EXCEPT ![u] = 0]
    /\ handleSize' = [handleSize EXCEPT ![u] = size]
    /\ UNCHANGED <<mRingBuffers, ringVars, mStagingBuffer, mPendingSerial, mCompletedSerial, cursor>>

-----------------------------------------------------------------------------
(* DynamicUploader::Deallocate.                                            *)

(* The request at the head of the ring's queue has completed.              *)
Reclaimable(u, r) ==
    /\ InRing(u, r) /\ uploadSerial[u] <= mCompletedSerial
    /\ \A v \in Uploads : v < u => ~InRing(v, r)

(* RingBufferAllocator::Deallocate, one request.                           *)
Reclaim(u) ==
    /\ cursor # 0 /\ Reclaimable(u, cursor)
    /\ mUsedStartOffset' = [mUsedStartOffset EXCEPT ![cursor] = endOffset[u]]
    /\ mUsedSize' = [mUsedSize EXCEPT ![cursor] = @ - requestSize[u]]
    /\ uploadState' = [uploadState EXCEPT ![u] = "Reclaimed"]
    /\ UNCHANGED <<mRingBuffers, mUsedEndOffset, mStagingBuffer, uploadRing, uploadStart, endOffset,
                   requestSize, uploadSerial, handleOffset, handleSize, mPendingSerial,
                   mCompletedSerial, cursor>>

(* Mutant: a ring is erased that is not empty.                             *)
ErasableUnchecked(r) == ~Last(r)

(* An empty ring is erased unless it is the last one.                      *)
Erasable(r) == Empty(r) /\ ~Last(r)

(* The index that ++i arrives at: an erased element is replaced by the     *)
(* next one, which is then passed over.  0 when it is past the end.        *)
IsNext(q, later) == IF later = {} THEN q = 0 ELSE q \in later /\ \A p \in later : q <= p

(* The loop ends; ClearUpTo frees the staging buffers of their own.        *)
ClearUpTo(serial) ==
    uploadState' = [u \in Uploads |->
        IF InRing(u, OwnBuffer) /\ uploadSerial[u] <= serial THEN "Reclaimed" ELSE uploadState[u]]

NextRing ==
    LET remaining == IF Erasable(cursor) THEN mRingBuffers \ {cursor} ELSE mRingBuffers
        later     == {q \in remaining : q > cursor}
    IN  /\ cursor # 0
        /\ \A u \in Uploads : ~Reclaimable(u, cursor)
        /\ mRingBuffers' = remaining
        /\ \E q \in Rings \cup {0} :
                /\ IF Erasable(cursor)
                     THEN \E p \in later : IsNext(p, later) /\ IsNext(q, later \ {p})
                     ELSE IsNext(q, later)
                /\ cursor' = q
        /\ IF cursor' = 0 THEN ClearUpTo(mCompletedSerial) ELSE UNCHANGED uploadState
        /\ UNCHANGED <<ringVars, mStagingBuffer, uploadRing, uploadStart, endOffset, requestSize,
                       uploadSerial, handleOffset, handleSize, mPendingSerial, mCompletedSerial>>

-----------------------------------------------------------------------------
(* The device (see DeviceTimeline): it submits, and it ticks.              *)

Submit ==
    /\ cursor = 0 /\ mPendingSerial <= MaxSerial
    /\ mPendingSerial' = mPendingSerial + 1
    /\ UNCHANGED <<mRingBuffers, ringVars, mStagingBuffer, uploadVars, mCompletedSerial, cursor>>

(* Tick: the completed serial c, then Deallocate(c).                       *)
Tick ==
    /\ cursor = 0
    /\ \E c \in mCompletedSerial..(mPendingSerial - 1) : mCompletedSerial' = c
    /\ \E r \in mRingBuffers : IsNext(r, mRingBuffers) /\ cursor' = r
    /\ UNCHANGED <<mRingBuffers, ringVars, mStagingBuffer, uploadVars, mPendingSerial>>

Next ==
    \/ \E u \in Uploads, size \in Sizes, alignment \in Alignments :
            \/ AllocateInRing(u, size, alignment)
            \/ AllocateInNewRing(u, size, alignment)
            \/ AllocateOwnBuffer(u, size, alignment)
    \/ \E u \in Uploads : Reclaim(u)
    \/ NextRing
    \/ Submit
    \/ Tick

Spec == Init /\ [][Next]_vars

-----------------------------------------------------------------------------
(* Properties.                                                             *)

(* Two uploads in flight in one ring never share a byte, wherever the ring *)
(* wraps around and whatever space it gives up at its end.                 *)
NoOverlap ==
    \A r \in Rings : \A u, v \in Uploads : u < v /\ InRing(u, r) /\ InRing(v, r) =>
        endOffset[u] <= uploadStart[v] \/ endOffset[v] <= uploadStart[u]

(* What the caller was told to write, after alignment, lies inside what    *)
(* was allocated for it, and inside the staging buffer.                    *)
HandlesFit ==
    \A u \in Uploads : uploadState[u] = "InFlight" =>
        /\ uploadStart[u] <= handleOffset[u]
        /\ handleOffset[u] + handleSize[u] <= endOffset[u]
        /\ uploadRing[u] # OwnBuffer => endOffset[u] <= RingSize

(* Memory the GPU may still read is neither taken back nor freed, however  *)
(* Deallocate's loop skips and erases rings.                               *)
InUseIsBacked ==
    \A u \in Uploads : uploadState[u] # "Unused" /\ uploadSerial[u] > mCompletedSerial =>
        /\ uploadState[u] = "InFlight"
        /\ uploadRing[u] # OwnBuffer =>
                /\ uploadRing[u] \in mRingBuffers
                /\ handleSize[u] > 0 => mStagingBuffer[uploadRing[u]] = "Created"

(* What the code asserts or relies on: mRingBuffers.back() exists, no ring *)
(* uses more than its size, and SerialQueue is given increasing serials.   *)
UploaderAsserts ==
    /\ mRingBuffers # {}
    /\ \A r \in Rings : mUsedSize[r] <= RingSize
    /\ \A r \in Rings : \A u, v \in Uploads : u < v /\ InRing(u, r) /\ InRing(v, r) =>
            uploadSerial[u] <= uploadSerial[v]
-----------------------------------------------------------------------------
(* The inductive invariant.  A ring is Wrapped when its used part runs     *)
(* past its end and goes on at 0.  Then each request is Upper, at or after *)
(* the start of the used part, or lies before mUsedEndOffset.              *)

Wrapped(r) == mUsedSize[r] # mUsedEndOffset[r] - mUsedStartOffset[r]
Upper(u, r) == uploadStart[u] >= mUsedStartOffset[r]

OffsetsInv(r) ==
    /\ mUsedStartOffset[r] <= RingSize /\ mUsedEndOffset[r] <= RingSize
    /\ mUsedSize[r] <= RingSize
    /\ Wrapped(r) =>
        /\ mUsedEndOffset[r] <= mUsedStartOffset[r]
        /\ mUsedSize[r] = RingSize - mUsedStartOffset[r] + mUsedEndOffset[r]
    /\ Empty(r) => mUsedSize[r] = 0 /\ mUsedStartOffset[r] = mUsedEndOffset[r]

RequestsInv(r) ==
    \A u \in Uploads : InRing(u, r) =>
        /\ uploadStart[u] < endOffset[u] /\ endOffset[u] <= RingSize
        /\ Upper(u, r) \/ (Wrapped(r) /\ endOffset[u] <= mUsedEndOffset[r])
        /\ ~Wrapped(r) => endOffset[u] <= mUsedEndOffset[r]
        /\ (\A v \in Uploads : InRing(v, r) => v <= u) => endOffset[u] = mUsedEndOffset[r]

(* In the order of the queue: Upper requests first, each after the last.   *)
OrderInv(r) ==
    \A u, v \in Uploads : u < v /\ InRing(u, r) /\ InRing(v, r) =>
        /\ Upper(v, r) => Upper(u, r)
        /\ (Upper(u, r) <=> Upper(v, r)) => endOffset[u] <= uploadStart[v]

(* The size of a request is the distance from the end of the one before    *)
(* it, or, at the head of the queue, from the start of the used part.      *)
FollowsHead(u, r) ==
    requestSize[u] = IF Upper(u, r) THEN endOffset[u] - mUsedStartOffset[r]
                                    ELSE RingSize - mUsedStartOffset[r] + endOffset[u]
Follows(u, v, r) ==
    requestSize[u] = IF Upper(v, r) /\ ~Upper(u, r) THEN RingSize - endOffset[v] + endOffset[u]
                                                    ELSE endOffset[u] - endOffset[v]

SizesInv(r) ==
    \A u \in Uploads : InRing(u, r) =>
        /\ (\A v \in Uploads : v < u => ~InRing(v, r)) => FollowsHead(u, r)
        /\ \A v \in Uploads :
              /\ v < u /\ InRing(v, r)
              /\ \A x \in Uploads : v < x /\ x < u => ~InRing(x, r)
              => Follows(u, v, r)

RingInv(r) == OffsetsInv(r) /\ RequestsInv(r) /\ OrderInv(r) /\ SizesInv(r)

(* Uploads and new rings are taken in order; rings that are not in the     *)
(* vector have nothing in flight.                                          *)
VectorInv ==
    /\ mRingBuffers # {}
    /\ cursor # 0 => cursor \in mRingBuffers
    /\ \A u \in Uploads : uploadState[u] = "InFlight" /\ uploadRing[u] # OwnBuffer =>
            uploadRing[u] \in mRingBuffers
    /\ \A u \in Uploads : uploadState[u] = "Unused" =>
            /\ u + 1 \notin mRingBuffers
            /\ mUsedSize[u + 1] = 0 /\ mUsedStartOffset[u + 1] = 0 /\ mUsedEndOffset[u + 1] = 0
            /\ \A v \in Uploads : u < v => uploadState[v] = "Unused"

(* Serials grow with the uploads, and only completed ones are reclaimed.   *)
SerialInv ==
    /\ \A u \in Uploads : uploadSerial[u] <= mPendingSerial
    /\ \A u, v \in Uploads : u < v /\ uploadState[v] # "Unused" =>
            uploadSerial[u] <= uploadSerial[v]
    /\ \A u \in Uploads : uploadState[u] = "Reclaimed" => uploadSerial[u] <= mCompletedSerial
    /\ \A u \in Uploads : /\ uploadState[u] = "InFlight" /\ uploadRing[u] # OwnBuffer
                          /\ handleSize[u] > 0
                          => mStagingBuffer[uploadRing[u]] = "Created"

(* The used part of every ring is exactly its requests, one after another, *)
(* and only the requests of completed serials have left it.                *)
UploaderInv ==
    /\ VectorInv
    /\ SerialInv
    /\ HandlesFit
    /\ \A r \in Rings : RingInv(r)
=============================================================================
