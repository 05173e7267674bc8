---------------------------- MODULE BufferMapping ----------------------------
(***************************************************************************)
(* One dawn_native buffer on the Vulkan backend: the mapping state machine *)
(* of BufferBase (MapAsync, Unmap, Destroy, mappedAtCreation), its map     *)
(* requests among the queue's tasks, and the GPU work that uses it.        *)
(*                                                                         *)
(* A map callback runs in the middle of Unmap, Destroy, Tick, Submit or    *)
(* device loss and may call the API again, so the call stack is explicit,  *)
(* as in DeviceTimeline; the timeline of serials is the one of that module *)
(* with its fences reduced to how far the GPU has come.                    *)
(***************************************************************************)
EXTENDS Integers

CONSTANTS
    MaxTasks,       \* bound: map requests and OnSubmittedWorkDone calls
    MaxSerial,      \* bound: no work is recorded or submitted beyond this serial
    MaxDepth,       \* bound: nesting of API calls made from callbacks
    AppOps,         \* API calls the application makes outside callbacks
    CallbackOps,    \* ... from callbacks run by Tick and device loss
    SubmitCallbackOps,  \* ... from the same callbacks while a Submit is in progress
    UnmapCallbackOps  \* ... from callbacks run by Unmap and by destruction

Ops == {"MapAsync", "OnSubmittedWorkDone", "Unmap", "Destroy", "CreateBuffer",
        "WriteBuffer", "Submit", "Tick", "LoseForTesting", "DeviceDestroy"}

ASSUME MappingBounds ==
    MaxTasks \in Nat /\ MaxSerial \in Nat /\ MaxDepth \in Nat

(* Losing or destroying the device from a callback is DeviceTimeline's.    *)
ASSUME MappingOps ==
    /\ AppOps \subseteq Ops
    /\ CallbackOps \subseteq Ops \ {"LoseForTesting", "DeviceDestroy"}
    /\ SubmitCallbackOps \subseteq CallbackOps
    /\ UnmapCallbackOps \subseteq Ops \ {"LoseForTesting", "DeviceDestroy"}

Tasks  == 1..MaxTasks
Depths == 1..MaxDepth

VARIABLES
    deviceState,                 \* DeviceBase::mState
    mCompletedSerial, mLastSubmittedSerial, mFutureSerial,
    gpuSerial,                   \* the GPU has executed all submissions up to this one
    recording,                   \* the pending commands: none, some, some that use the buffer
    useSerial,                   \* the last submission that uses the buffer
    mState, mStagingBuffer,      \* of the buffer
    isMappable,                  \* its usage has MapRead or MapWrite
    inList,                      \* it is in the device's list of objects
    mMapCallback, mLastMapID,    \* the request whose callback is set (0: none), the last one
    answer,                      \* what the callback of each request was called with
    taskState, taskKind, taskSerial, taskFrame,  \* QueueBase::mTasksInFlight
    depth, frame,                \* the stack of API calls in progress
    deadlocked                   \* the thread locks the object list's mutex twice

serialVars == <<mCompletedSerial, mLastSubmittedSerial, mFutureSerial, gpuSerial>>
useVars    == <<recording, useSerial>>
bufferVars == <<mState, mStagingBuffer, inList, mMapCallback, mLastMapID, answer>>
taskVars   == <<taskState, taskKind, taskSerial, taskFrame>>
stackVars  == <<depth, frame>>
vars == <<deviceState, serialVars, useVars, bufferVars, isMappable, taskVars, stackVars,
          deadlocked>>

FrameOps == {"None", "Tick", "Submit", "Unmap", "Destroy", "Lose", "DeviceDestroy",
             "DeviceDestroyTick"}
Answers  == {"None", "Waiting", "Success", "Unmapped", "Destroyed", "DeviceLost", "Twice"}

(* Every variable has its type.                                            *)
MappingTypeOK ==
    /\ deviceState \in {"Alive", "Disconnected", "Destroyed"}
    /\ mCompletedSerial \in Nat /\ mLastSubmittedSerial \in Nat /\ mFutureSerial \in Nat
    /\ gpuSerial \in Nat /\ useSerial \in Nat
    /\ recording \in {"Empty", "Other", "Uses"}
    /\ mState \in {"Unmapped", "Mapped", "MappedAtCreation", "Destroyed"}
    /\ mStagingBuffer \in BOOLEAN /\ isMappable \in BOOLEAN /\ inList \in BOOLEAN
    /\ mMapCallback \in 0..MaxTasks /\ mLastMapID \in 0..MaxTasks
    /\ answer \in [Tasks -> Answers]
    /\ taskState \in [Tasks -> {"Unused", "InFlight", "Extracted", "Done"}]
    /\ taskKind \in [Tasks -> {"None", "Map", "WorkDone"}]
    /\ taskSerial \in [Tasks -> Nat]
    /\ taskFrame \in [Tasks -> 0..MaxDepth]
    /\ depth \in 0..MaxDepth
    /\ frame \in [Depths -> [op : FrameOps, at : {"Code", "Callback"}]]
    /\ deadlocked \in BOOLEAN

(* CreateBuffer has returned: with mappedAtCreation the buffer has its own *)
(* mapped memory if it is mappable, else a staging buffer unless its size  *)
(* is zero.                                                                *)
Init ==
    /\ deviceState = "Alive"
    /\ mCompletedSerial = 0 /\ mLastSubmittedSerial = 0 /\ mFutureSerial = 0
    /\ gpuSerial = 0 /\ useSerial = 0
    /\ recording = "Empty"
    /\ isMappable \in BOOLEAN
    /\ \/ mState = "Unmapped" /\ mStagingBuffer = FALSE
       \/ mState = "MappedAtCreation" /\ mStagingBuffer \in {FALSE, ~isMappable}
    /\ inList = TRUE
    /\ mMapCallback = 0 /\ mLastMapID = 0
    /\ answer = [t \in Tasks |-> "None"]
    /\ taskState = [t \in Tasks |-> "Unused"]
    /\ taskKind = [t \in Tasks |-> "None"]
    /\ taskSerial = [t \in Tasks |-> 0]
    /\ taskFrame = [t \in Tasks |-> 0]
    /\ depth = 0
    /\ frame = [d \in Depths |-> [op |-> "None", at |-> "Code"]]
    /\ deadlocked = FALSE

-----------------------------------------------------------------------------
(* The timeline.                                                           *)

MaxOf(a, b) == IF a >= b THEN a ELSE b
GetPendingCommandSerial == mLastSubmittedSerial + 1
AssumedSerial(last) == MaxOf(last + 1, mFutureSerial)
IsDeviceIdle == mCompletedSerial = MaxOf(mLastSubmittedSerial, mFutureSerial)

(* All commands are taken for complete; the last submission was last.      *)
AssumeCommandsComplete(last) ==
    /\ mCompletedSerial' = AssumedSerial(last)
    /\ mLastSubmittedSerial' = AssumedSerial(last)
    /\ gpuSerial' = AssumedSerial(last)

(* The GPU is or will be accessing the buffer.                             *)
InUse == recording = "Uses" \/ useSerial > gpuSerial

-----------------------------------------------------------------------------
(* The call stack.                                                         *)

Submitting == \E d \in Depths : frame[d].op = "Submit"

CanCall(op) ==
    /\ ~deadlocked
    /\ \/ depth = 0 /\ op \in AppOps
       \/ /\ depth > 0
          /\ frame[depth].at = "Callback"
          /\ op \in IF frame[depth].op \notin {"Tick", "Submit", "Lose"} THEN UnmapCallbackOps
                    ELSE IF Submitting THEN SubmitCallbackOps ELSE CallbackOps

Push(op, at) ==
    /\ depth < MaxDepth
    /\ depth' = depth + 1
    /\ frame' = [frame EXCEPT ![depth + 1] = [op |-> op, at |-> at]]

Pop ==
    /\ depth' = depth - 1
    /\ frame' = [frame EXCEPT ![depth] = [op |-> "None", at |-> "Code"]]

Replace(op, at) ==
    /\ depth' = depth
    /\ frame' = [frame EXCEPT ![depth] = [op |-> op, at |-> at]]

Running(op) == depth > 0 /\ frame[depth].op = op /\ ~deadlocked

(* ApiObjectBase::Destroy holds the mutex of the list of buffers.          *)
MutexHeld == \E d \in Depths : frame[d].op = "Destroy"

-----------------------------------------------------------------------------
(* CallMapCallback.                                                        *)

CallsBack(id) == mMapCallback # 0 /\ id = mLastMapID

(* The callback is tagged as fired before it is called; once the device is *)
(* lost its status is always DeviceLost.                                   *)
CallMapCallback(status) ==
    /\ answer' = [answer EXCEPT ![mMapCallback] =
            IF @ # "Waiting" THEN "Twice"
            ELSE IF deviceState # "Alive" THEN "DeviceLost" ELSE status]
    /\ mMapCallback' = 0

-----------------------------------------------------------------------------
(* API calls.  One that fails its validation answers at once and changes   *)
(* nothing; it is not a step.                                              *)

NextTask(t) == taskState[t] = "Unused" /\ \A u \in 1..(t - 1) : taskState[u] # "Unused"

TrackTask(t, kind) ==
    /\ NextTask(t)
    /\ taskState' = [taskState EXCEPT ![t] = "InFlight"]
    /\ taskKind' = [taskKind EXCEPT ![t] = kind]
    /\ taskSerial' = [taskSerial EXCEPT ![t] = GetPendingCommandSerial]
    /\ mFutureSerial' = MaxOf(mFutureSerial, GetPendingCommandSerial)
    /\ UNCHANGED taskFrame

(* Mutant: a buffer that is still mapped can be mapped.                    *)
ValidateMapAsyncMapped == deviceState = "Alive" /\ isMappable /\ mState \in {"Unmapped", "Mapped"}

ValidateMapAsync == deviceState = "Alive" /\ isMappable /\ mState = "Unmapped"

(* The request is tracked by its number.  Vulkan's MapAsyncImpl takes the  *)
(* recording context, which counts as used from then on, and cannot fail.  *)
(* It records the fill of a buffer not yet initialised and the transition  *)
(* to the map usage, GPU uses of this very buffer, unless the buffer is    *)
(* initialised and has that usage.                                         *)
MapAsync(t) ==
    /\ CanCall("MapAsync") /\ ValidateMapAsync
    /\ mLastMapID' = t
    /\ mMapCallback' = t
    /\ answer' = [answer EXCEPT ![t] = "Waiting"]
    /\ mState' = "Mapped"
    /\ \/ recording' = "Uses"
       \/ recording' = IF recording = "Empty" THEN "Other" ELSE recording
    /\ TrackTask(t, "Map")
    /\ UNCHANGED <<deviceState, mCompletedSerial, mLastSubmittedSerial, gpuSerial, useSerial,
                   mStagingBuffer, inList, isMappable, stackVars, deadlocked>>

OnSubmittedWorkDone(t) ==
    /\ CanCall("OnSubmittedWorkDone") /\ deviceState = "Alive"
    /\ TrackTask(t, "WorkDone")
    /\ UNCHANGED <<deviceState, mCompletedSerial, mLastSubmittedSerial, gpuSerial, useVars,
                   bufferVars, isMappable, stackVars, deadlocked>>

(* Unmap of a buffer whose map request is still waiting: its callback is   *)
(* called before anything else.                                            *)
UnmapCalls ==
    /\ CanCall("Unmap") /\ deviceState = "Alive"
    /\ mState = "Mapped" /\ CallsBack(mLastMapID)
    /\ CallMapCallback("Unmapped")
    /\ Push("Unmap", "Callback")
    /\ UNCHANGED <<deviceState, serialVars, useVars, mState, mStagingBuffer, inList, mLastMapID,
                   isMappable, taskVars, deadlocked>>

(* The end of UnmapInternal.                                               *)
UnmapEnds ==
    /\ mMapCallback' = 0
    /\ mState' = "Unmapped"

UnmapReturns ==
    /\ Running("Unmap")
    /\ UnmapEnds
    /\ Pop
    /\ UNCHANGED <<deviceState, serialVars, useVars, mStagingBuffer, inList, mLastMapID, answer,
                   isMappable, taskVars, deadlocked>>

UnmapMapped ==
    /\ CanCall("Unmap") /\ deviceState = "Alive"
    /\ mState = "Mapped" /\ ~CallsBack(mLastMapID)
    /\ UnmapEnds
    /\ UNCHANGED <<deviceState, serialVars, useVars, mStagingBuffer, inList, mLastMapID, answer,
                   isMappable, taskVars, stackVars, deadlocked>>

(* The contents go from the staging buffer to the buffer with the pending  *)
(* commands.                                                               *)
UnmapAtCreation ==
    /\ CanCall("Unmap") /\ deviceState = "Alive"
    /\ mState = "MappedAtCreation"
    /\ recording' = IF mStagingBuffer THEN "Uses" ELSE recording
    /\ mStagingBuffer' = FALSE
    /\ mState' = "Unmapped"
    /\ UNCHANGED <<deviceState, serialVars, useSerial, inList, mMapCallback, mLastMapID, answer,
                   isMappable, taskVars, stackVars, deadlocked>>

(* Destroy is called by the application and, for each object still listed, *)
(* by DestroyObjects.                                                      *)
DestroyCalled == CanCall("Destroy") \/ Running("DeviceDestroy")

DestroyCalls ==
    /\ DestroyCalled /\ ~MutexHeld /\ inList
    /\ mState = "Mapped" /\ CallsBack(mLastMapID)
    /\ inList' = FALSE
    /\ CallMapCallback("Destroyed")
    /\ Push("Destroy", "Callback")
    /\ UNCHANGED <<deviceState, serialVars, useVars, mState, mStagingBuffer, mLastMapID,
                   isMappable, taskVars, deadlocked>>

(* Mutant: Destroy only unmaps.                                            *)
DestroyEndsUnmapped ==
    /\ mStagingBuffer' = FALSE
    /\ mState' = IF mState = "Mapped" THEN "Unmapped" ELSE "Destroyed"

DestroyEnds ==
    /\ mStagingBuffer' = FALSE
    /\ mState' = "Destroyed"

DestroyReturns ==
    /\ Running("Destroy")
    /\ DestroyEnds
    /\ mMapCallback' = 0
    /\ Pop
    /\ UNCHANGED <<deviceState, serialVars, useVars, inList, mLastMapID, answer, isMappable,
                   taskVars, deadlocked>>

DestroyAtOnce ==
    /\ DestroyCalled /\ ~MutexHeld /\ inList
    /\ mState # "Mapped" \/ ~CallsBack(mLastMapID)
    /\ inList' = FALSE
    /\ DestroyEnds
    /\ UNCHANGED <<deviceState, serialVars, useVars, mMapCallback, mLastMapID, answer,
                   isMappable, taskVars, stackVars, deadlocked>>

(* A buffer is created or destroyed by a callback that runs while the      *)
(* mutex of the list of buffers is held.                                   *)
LockTwice ==
    /\ MutexHeld
    /\ CanCall("Destroy") \/ CanCall("CreateBuffer")
    /\ deadlocked' = TRUE
    /\ UNCHANGED <<deviceState, serialVars, useVars, bufferVars, isMappable, taskVars, stackVars>>

ValidateCanUseOnQueueNow == mState = "Unmapped"

WriteBuffer ==
    /\ CanCall("WriteBuffer") /\ deviceState = "Alive" /\ ValidateCanUseOnQueueNow
    /\ GetPendingCommandSerial <= MaxSerial
    /\ recording' = "Uses"
    /\ mFutureSerial' = MaxOf(mFutureSerial, GetPendingCommandSerial)
    /\ UNCHANGED <<deviceState, mCompletedSerial, mLastSubmittedSerial, gpuSerial, useSerial,
                   bufferVars, isMappable, taskVars, stackVars, deadlocked>>

(* DeviceBase::Tick up to the callbacks: it polls the GPU, submits the     *)
(* pending commands, and moves the finished tasks out of the queue.        *)
(* Mutant: only submitted work is looked at.                               *)
TickNeededForWorkOnly == mLastSubmittedSerial > mCompletedSerial

TickNeeded == mLastSubmittedSerial > mCompletedSerial \/ mCompletedSerial < mFutureSerial

ExtractTasks(serial, d) ==
    LET finished == {t \in Tasks : taskState[t] = "InFlight" /\ taskSerial[t] <= serial}
    IN  /\ taskState' = [t \in Tasks |-> IF t \in finished THEN "Extracted" ELSE taskState[t]]
        /\ taskFrame' = [t \in Tasks |-> IF t \in finished THEN d ELSE taskFrame[t]]
        /\ UNCHANGED <<taskKind, taskSerial>>

DeviceTick ==
    IF ~TickNeeded
      THEN UNCHANGED <<serialVars, useVars, taskVars>>
      ELSE LET submitted == IF recording = "Empty" THEN mLastSubmittedSerial
                                                   ELSE mLastSubmittedSerial + 1
           IN  /\ recording' = "Empty"
               /\ useSerial' = IF recording = "Uses" THEN submitted ELSE useSerial
               /\ IF gpuSerial = submitted
                    THEN AssumeCommandsComplete(submitted)
                    ELSE /\ mCompletedSerial' = gpuSerial
                         /\ mLastSubmittedSerial' = submitted
                         /\ UNCHANGED gpuSerial
               /\ ExtractTasks(mCompletedSerial', depth + 1)
               /\ UNCHANGED mFutureSerial

Tick ==
    /\ CanCall("Tick") /\ deviceState = "Alive" /\ TickNeeded
    /\ DeviceTick
    /\ Push("Tick", "Code")
    /\ UNCHANGED <<deviceState, bufferVars, isMappable, deadlocked>>

(* A command buffer that uses the buffer is submitted: it is validated,    *)
(* then the device is ticked.                                              *)
Submit ==
    /\ CanCall("Submit") /\ deviceState = "Alive" /\ ValidateCanUseOnQueueNow
    /\ mLastSubmittedSerial + 2 <= MaxSerial
    /\ DeviceTick
    /\ Push("Submit", "Code")
    /\ UNCHANGED <<deviceState, bufferVars, isMappable, deadlocked>>

(* HandleError(Internal): the GPU is waited for, the recorded commands are *)
(* dropped.                                                                *)
LoseForTesting ==
    /\ CanCall("LoseForTesting") /\ deviceState = "Alive"
    /\ deviceState' = "Disconnected"
    /\ recording' = "Empty"
    /\ AssumeCommandsComplete(mLastSubmittedSerial)
    /\ Push("Lose", "Code")
    /\ UNCHANGED <<mFutureSerial, useSerial, bufferVars, isMappable, taskVars, deadlocked>>

(* DeviceBase::Destroy up to DestroyObjects.                               *)
DeviceDestroy ==
    /\ CanCall("DeviceDestroy") /\ deviceState # "Destroyed"
    /\ IF deviceState = "Alive"
         THEN recording' = "Empty" /\ AssumeCommandsComplete(mLastSubmittedSerial)
         ELSE UNCHANGED <<recording, mCompletedSerial, mLastSubmittedSerial, gpuSerial>>
    /\ Push("DeviceDestroy", "Code")
    /\ UNCHANGED <<deviceState, mFutureSerial, useSerial, bufferVars, isMappable, taskVars,
                   deadlocked>>

-----------------------------------------------------------------------------
(* The rest of Tick, Submit, device loss and device destruction.           *)

TasksToFinish == {t \in Tasks : taskState[t] = "Extracted" /\ taskFrame[t] = depth}

(* Mutant: the callback is called whatever request is the last.            *)
RunTaskStale(t, status) ==
    /\ taskState' = [taskState EXCEPT ![t] = "Done"]
    /\ IF taskKind[t] = "Map" /\ mMapCallback = 0
         THEN UNCHANGED <<answer, mMapCallback, stackVars>>
         ELSE /\ Replace(frame[depth].op, "Callback")
              /\ IF taskKind[t] = "Map" THEN CallMapCallback(status)
                                        ELSE UNCHANGED <<answer, mMapCallback>>

(* A task runs its callback; a map request that is not the last one, or    *)
(* whose callback was called already, does nothing.                        *)
RunTask(t, status) ==
    /\ taskState' = [taskState EXCEPT ![t] = "Done"]
    /\ IF taskKind[t] = "Map" /\ ~CallsBack(t)
         THEN UNCHANGED <<answer, mMapCallback, stackVars>>
         ELSE /\ Replace(frame[depth].op, "Callback")
              /\ IF taskKind[t] = "Map" THEN CallMapCallback(status)
                                        ELSE UNCHANGED <<answer, mMapCallback>>

FinishTask(t) ==
    /\ Running("Tick") \/ Running("Submit") \/ Running("DeviceDestroyTick")
    /\ t \in TasksToFinish /\ \A u \in TasksToFinish : t <= u
    /\ RunTask(t, "Success")
    /\ UNCHANGED <<deviceState, serialVars, useVars, mState, mStagingBuffer, inList, mLastMapID,
                   isMappable, taskKind, taskSerial, taskFrame, deadlocked>>

TickReturns ==
    /\ Running("Tick") /\ TasksToFinish = {}
    /\ Pop
    /\ UNCHANGED <<deviceState, serialVars, useVars, bufferVars, isMappable, taskVars, deadlocked>>

(* The commands are recorded and submitted with what was pending.          *)
SubmitReturns ==
    /\ Running("Submit") /\ TasksToFinish = {}
    /\ recording' = "Empty"
    /\ useSerial' = mLastSubmittedSerial + 1
    /\ mLastSubmittedSerial' = mLastSubmittedSerial + 1
    /\ Pop
    /\ UNCHANGED <<deviceState, mCompletedSerial, mFutureSerial, gpuSerial, bufferVars,
                   isMappable, taskVars, deadlocked>>

LoseTask(t) ==
    /\ Running("Lose")
    /\ taskState[t] = "InFlight" /\ \A u \in 1..(t - 1) : taskState[u] # "InFlight"
    /\ RunTask(t, "DeviceLost")
    /\ UNCHANGED <<deviceState, serialVars, useVars, mState, mStagingBuffer, inList, mLastMapID,
                   isMappable, taskKind, taskSerial, taskFrame, deadlocked>>

LoseReturns ==
    /\ Running("Lose") /\ \A t \in Tasks : taskState[t] # "InFlight"
    /\ Pop
    /\ UNCHANGED <<deviceState, serialVars, useVars, bufferVars, isMappable, taskVars, deadlocked>>

(* After DestroyObjects the queue is ticked.                               *)
DeviceDestroyTicks ==
    /\ Running("DeviceDestroy") /\ ~inList
    /\ ExtractTasks(mCompletedSerial, depth)
    /\ Replace("DeviceDestroyTick", "Code")
    /\ UNCHANGED <<deviceState, serialVars, useVars, bufferVars, isMappable, deadlocked>>

DeviceDestroyReturns ==
    /\ Running("DeviceDestroyTick") /\ TasksToFinish = {}
    /\ deviceState' = "Destroyed"
    /\ recording' = "Empty"
    /\ AssumeCommandsComplete(mLastSubmittedSerial)
    /\ Pop
    /\ UNCHANGED <<mFutureSerial, useSerial, bufferVars, isMappable, taskVars, deadlocked>>

(* The GPU (external) executes the next submission.                        *)
GpuExecute ==
    /\ gpuSerial < mLastSubmittedSerial
    /\ gpuSerial' = gpuSerial + 1
    /\ UNCHANGED <<deviceState, mCompletedSerial, mLastSubmittedSerial, mFutureSerial, useVars,
                   bufferVars, isMappable, taskVars, stackVars, deadlocked>>

-----------------------------------------------------------------------------
(* What the innermost call does next, given that callbacks return.         *)
StackStep ==
    \/ \E t \in Tasks : FinishTask(t) \/ LoseTask(t)
    \/ TickReturns \/ SubmitReturns \/ LoseReturns
    \/ UnmapReturns \/ DestroyReturns
    \/ (Running("DeviceDestroy") /\ (DestroyCalls \/ DestroyAtOnce))
    \/ DeviceDestroyTicks \/ DeviceDestroyReturns

ApiCall ==
    \/ \E t \in Tasks : MapAsync(t) \/ OnSubmittedWorkDone(t)
    \/ UnmapCalls \/ UnmapMapped \/ UnmapAtCreation
    \/ (CanCall("Destroy") /\ (DestroyCalls \/ DestroyAtOnce))
    \/ LockTwice
    \/ WriteBuffer \/ Submit \/ Tick \/ LoseForTesting \/ DeviceDestroy

Next == StackStep \/ ApiCall \/ GpuExecute

Spec == Init /\ [][Next]_vars

(* The application ticks while APITick tells it to, the GPU progresses and *)
(* callbacks return.                                                       *)
TickWhileNeeded == depth = 0 /\ ~IsDeviceIdle /\ Tick
StackStepAt(d)  == depth = d /\ StackStep

FairSpec ==
    /\ Spec
    /\ WF_vars(TickWhileNeeded)
    /\ WF_vars(GpuExecute)
    /\ \A d \in Depths : SF_vars(StackStepAt(d))

-----------------------------------------------------------------------------
(* Properties.                                                             *)

Waiting(t) == answer[t] = "Waiting"

(* CallMapCallback: no request's callback is called a second time, even    *)
(* when it calls Unmap or Destroy itself.                                  *)
CalledOnce == \A t \in Tasks : answer[t] # "Twice"

(* A request that waits is the one the buffer remembers, and the queue or  *)
(* a Tick in progress holds the task that will answer it.                  *)
NoLostRequest ==
    \A t \in Tasks : Waiting(t) =>
        /\ mState = "Mapped" /\ mMapCallback = t /\ mLastMapID = t
        /\ taskState[t] \in {"InFlight", "Extracted"}

(* The buffer and its requests agree, whatever callbacks have called.      *)
MappingInv == MappingTypeOK /\ CalledOnce /\ NoLostRequest

(* The application has the mapping of the buffer and knows it.             *)
HasMapping == mState = "Mapped" /\ mLastMapID # 0 /\ answer[mLastMapID] = "Success"

(* Between the Success of MapAsync and Unmap the GPU does not use the      *)
(* buffer: "invalid to submit a mapped buffer in a queue".                 *)
ExclusiveWhenMapped == HasMapping => ~InUse

(* No thread locks the mutex of an object list twice.                      *)
NoSelfDeadlock == ~deadlocked

(* Every MapAsync is answered, whatever Unmap, Destroy or loss cross it.   *)
EveryRequestAnswered == \A t \in Tasks : Waiting(t) ~> ~Waiting(t)

-----------------------------------------------------------------------------
(* The inductive invariant, for the proofs.                                *)

(* What an application may not do for its requests to be safe: map or      *)
(* destroy a buffer, or run other callbacks, from a callback that Unmap or *)
(* the destruction of a buffer runs.                                       *)
CalmUnmapCallbacks == UnmapCallbackOps \cap {"MapAsync", "Destroy", "Submit", "Tick"} = {}

(* The callback that is set is the one of the last request, which waits.   *)
CallbackInv == mMapCallback # 0 => Waiting(mMapCallback) /\ mLastMapID = mMapCallback

(* A request that waits is a task; a task not yet made has no answer.      *)
RequestInv ==
    \A t \in Tasks : /\ Waiting(t) => taskKind[t] = "Map"
                     /\ taskState[t] = "Unused" => answer[t] = "None"
                     /\ answer[t] = "DeviceLost" => deviceState # "Alive"

(* Unmap and Destroy are only ever the innermost call, and have taken the  *)
(* callback they call out of the buffer.                                   *)
StackInv ==
    /\ \A d \in Depths : /\ d > depth => frame[d].op = "None"
                         /\ d < depth => frame[d].op \notin {"Unmap", "Destroy"}
                         /\ frame[d].op = "Lose" => deviceState # "Alive"
    /\ depth > 0 /\ frame[depth].op \in {"Unmap", "Destroy"} => mMapCallback = 0
    /\ depth > 0 /\ frame[depth].op = "Destroy" => ~inList
    /\ depth > 0 /\ frame[depth].op = "Unmap" =>
          mState = "Unmapped" \/ (mState = "Mapped" /\ answer[mLastMapID] = "Unmapped")

(* The state of the buffer: mapped by a request, and gone with its place   *)
(* in the list of objects.                                                 *)
BufferInv ==
    /\ mState = "Mapped" => mLastMapID # 0 /\ answer[mLastMapID] # "None"
    /\ mState = "Destroyed" => ~inList

(* What makes NoLostRequest inductive.                                     *)
MappingIInv == MappingInv /\ CallbackInv /\ RequestInv /\ StackInv /\ BufferInv

(* The GPU is behind what was submitted and ahead of what is known of it.  *)
SerialInv ==
    /\ mCompletedSerial <= gpuSerial /\ gpuSerial <= mLastSubmittedSerial
    /\ useSerial <= mLastSubmittedSerial
    /\ \A t \in Tasks : taskState[t] = "Extracted" \/ answer[t] = "Success" =>
                            taskSerial[t] <= mCompletedSerial

(* The serial of the request that maps the buffer covers all its uses.     *)
MapCoversUses ==
    /\ mState = "Mapped" =>
          /\ useSerial <= taskSerial[mLastMapID]
          /\ recording = "Uses" => taskSerial[mLastMapID] > mLastSubmittedSerial
    /\ Submitting => mState # "Mapped"
=============================================================================
