--------------------------- MODULE DeviceTimeline ---------------------------
(***************************************************************************)
(* The execution timeline of a dawn_native device on the Vulkan backend:   *)
(* the three execution serials of DeviceBase, the pending recording        *)
(* context and the fences of vulkan::Device, the queue's tasks in flight   *)
(* (OnSubmittedWorkDone), the fenced deleter, the GPU that executes the    *)
(* submissions in order, and the life cycle Alive -> Disconnected ->       *)
(* Destroyed.                                                              *)
(*                                                                         *)
(* Every API call runs on one thread, but a callback may call the API      *)
(* again while the call that runs it is unfinished.  The C++ call stack is *)
(* therefore explicit: frame[d] is the call at depth d, and the tasks it   *)
(* has moved out of the queue are the ones with taskFrame = d.             *)
(***************************************************************************)
EXTENDS Integers

CONSTANTS
    MaxWork,        \* bound: units of GPU work recorded in a behaviour
    MaxTasks,       \* bound: OnSubmittedWorkDone calls in a behaviour
    MaxHandles,     \* bound: Vulkan handles given to the FencedDeleter
    MaxDepth,       \* bound: nesting of API calls made from callbacks
    AppOps,         \* API calls the application makes outside callbacks
    CallbackOps,    \* ... from callbacks run by Tick and Submit
    TeardownOps,    \* ... from callbacks run by HandleError and Destroy
    DriverErrors    \* what the driver may report: "DeviceLost", "Internal"

Ops == {"WriteBuffer", "UnmapAtCreation", "OnSubmittedWorkDone",
        "DeleteWhenUnused", "Tick", "Submit", "LoseForTesting", "Destroy"}

ASSUME BoundsAssumption ==
    MaxWork \in Nat /\ MaxTasks \in Nat /\ MaxHandles \in Nat /\ MaxDepth \in Nat

ASSUME OpsAssumption ==
    /\ AppOps \subseteq Ops
    /\ CallbackOps \subseteq Ops
    /\ TeardownOps \subseteq Ops
    /\ DriverErrors \subseteq {"DeviceLost", "Internal"}

Work    == 1..MaxWork
Tasks   == 1..MaxTasks
Handles == 1..MaxHandles
Depths  == 1..MaxDepth

VARIABLES
    mState,                \* DeviceBase::State
    mCompletedSerial, mLastSubmittedSerial, mFutureSerial,
    mFencesInFlight,       \* the serials of the fences in flight
    mRecordingContext,     \* is a command buffer ready to record into?
    workState, workSerial, \* each unit of work and the serial it was submitted with
    gpuLost,               \* the driver has started to report VK_ERROR_DEVICE_LOST
    taskState, taskSerial, \* QueueBase::mTasksInFlight and what became of each task
    taskDep,               \* the work pending when the task was enqueued
    taskFrame,             \* the Queue::Tick call that moved the task out of the queue
    handleState, handleSerial, handleDep,  \* FencedDeleter's queues
    mDeviceLostCallback,   \* is the callback still set?
    depth, frame,          \* the stack of API calls in progress
    orderly,               \* history: nothing has ended the device from inside a callback
    assertFailed           \* an ASSERT or UNREACHABLE was hit, or a reset pointer used

deviceVars == <<mState, mDeviceLostCallback, assertFailed>>
serialVars == <<mCompletedSerial, mLastSubmittedSerial, mFutureSerial>>
gpuVars    == <<mFencesInFlight, mRecordingContext, workState, workSerial>>
taskVars   == <<taskState, taskSerial, taskDep, taskFrame>>
handleVars == <<handleState, handleSerial, handleDep>>
stackVars  == <<depth, frame>>
vars == <<deviceVars, serialVars, gpuVars, gpuLost, taskVars, handleVars, stackVars, orderly>>

FrameOps == {"None", "Tick", "Submit", "Lose", "LoseTasks", "Destroy", "DestroyTasks"}
NoFrame  == [op |-> "None", at |-> "Code"]

WorkStates   == {"Unused", "Encoded", "Recording", "Submitted", "Executed",
                 "Dropped", "Abandoned"}
TaskStates   == {"Unused", "InFlight", "Extracted", "LostInQueue", "Success", "DeviceLost"}
HandleStates == {"Unused", "Queued", "Deleted"}

(* Every variable has its type.                                            *)
TypeOK ==
    /\ mState \in {"Alive", "Disconnected", "Destroyed"}
    /\ mCompletedSerial \in Nat /\ mLastSubmittedSerial \in Nat /\ mFutureSerial \in Nat
    /\ mFencesInFlight \in SUBSET Nat
    /\ mRecordingContext \in {"Ready", "Null"}
    /\ workState \in [Work -> WorkStates]
    /\ workSerial \in [Work -> Nat]
    /\ gpuLost \in BOOLEAN
    /\ taskState \in [Tasks -> TaskStates]
    /\ taskSerial \in [Tasks -> Nat]
    /\ taskDep \in [Tasks -> SUBSET Work]
    /\ taskFrame \in [Tasks -> 0..MaxDepth]
    /\ handleState \in [Handles -> HandleStates]
    /\ handleSerial \in [Handles -> Nat]
    /\ handleDep \in [Handles -> SUBSET Work]
    /\ mDeviceLostCallback \in BOOLEAN
    /\ depth \in 0..MaxDepth
    /\ frame \in [Depths -> [op : FrameOps, at : {"Code", "Callback"}]]
    /\ assertFailed \in BOOLEAN
    /\ orderly \in BOOLEAN

(* A device fresh out of DeviceBase::Initialize.                           *)
Init ==
    /\ mState = "Alive"
    /\ mCompletedSerial = 0 /\ mLastSubmittedSerial = 0 /\ mFutureSerial = 0
    /\ mFencesInFlight = {}
    /\ mRecordingContext = "Ready"
    /\ workState = [w \in Work |-> "Unused"]
    /\ workSerial = [w \in Work |-> 0]
    /\ gpuLost = FALSE
    /\ taskState = [t \in Tasks |-> "Unused"]
    /\ taskSerial = [t \in Tasks |-> 0]
    /\ taskDep = [t \in Tasks |-> {}]
    /\ taskFrame = [t \in Tasks |-> 0]
    /\ handleState = [h \in Handles |-> "Unused"]
    /\ handleSerial = [h \in Handles |-> 0]
    /\ handleDep = [h \in Handles |-> {}]
    /\ mDeviceLostCallback = TRUE
    /\ depth = 0
    /\ frame = [d \in Depths |-> NoFrame]
    /\ assertFailed = FALSE
    /\ orderly = TRUE

-----------------------------------------------------------------------------
(* The work of each kind, and the serials.                                 *)

WorkIn(states) == {w \in Work : workState[w] \in states}
RecordingWork == WorkIn({"Recording"})
PendingWork == WorkIn({"Recording", "Submitted", "Abandoned"})

(* Work, tasks and handles are taken in the order of their numbers.        *)
NextWork(w) == workState[w] = "Unused" /\ \A v \in 1..(w - 1) : workState[v] # "Unused"
NextTask(t) == taskState[t] = "Unused" /\ \A u \in 1..(t - 1) : taskState[u] # "Unused"
NextHandle(h) == handleState[h] = "Unused" /\ \A g \in 1..(h - 1) : handleState[g] # "Unused"

MaxOf(a, b) == IF a >= b THEN a ELSE b

(* Mutant: the serial just submitted.                                      *)
PendingSerialIsLast == mLastSubmittedSerial

GetPendingCommandSerial == mLastSubmittedSerial + 1

(* Mutant: the future serial is forgotten.                                 *)
AddFutureSerialForgotten(serial) == UNCHANGED mFutureSerial

AddFutureSerial(serial) == mFutureSerial' = MaxOf(mFutureSerial, serial)

(* The serial that both mLastSubmittedSerial and mCompletedSerial become.  *)
AssumedSerial(last) == MaxOf(last + 1, mFutureSerial)

AssumeCommandsComplete ==
    /\ mCompletedSerial' = AssumedSerial(mLastSubmittedSerial)
    /\ mLastSubmittedSerial' = AssumedSerial(mLastSubmittedSerial)
    /\ UNCHANGED mFutureSerial

IsDeviceIdle == mCompletedSerial = MaxOf(mLastSubmittedSerial, mFutureSerial)

-----------------------------------------------------------------------------
(* The call stack.                                                         *)

(* May the application make the API call op now?  Outside any call it may  *)
(* make those of AppOps; inside a callback those its caller allows.        *)
CanCall(op) ==
    /\ ~assertFailed
    /\ \/ depth = 0 /\ op \in AppOps
       \/ /\ depth > 0
          /\ frame[depth].at = "Callback"
          /\ op \in (IF frame[depth].op \in {"Tick", "Submit"}
                       THEN CallbackOps ELSE TeardownOps)

PushFrame(op) ==
    /\ depth < MaxDepth
    /\ depth' = depth + 1
    /\ frame' = [frame EXCEPT ![depth + 1] = [op |-> op, at |-> "Code"]]

PopFrame ==
    /\ depth' = depth - 1
    /\ frame' = [frame EXCEPT ![depth] = NoFrame]

ReplaceFrame(op) ==
    /\ depth' = depth
    /\ frame' = [frame EXCEPT ![depth] = [op |-> op, at |-> "Code"]]

EnterCallback ==
    /\ depth' = depth
    /\ frame' = [frame EXCEPT ![depth].at = "Callback"]

Running(op) == depth > 0 /\ frame[depth].op = op /\ ~assertFailed

(* Is the call made outside callbacks, or by a callback of Tick or Submit? *)
FromWork == depth = 0 \/ frame[depth].op \in {"Tick", "Submit"}

(* An application ends its device in order when it does not lose or        *)
(* destroy it from a callback, when the callbacks that the end of the      *)
(* device runs do nothing with it but delete objects, and when a call made *)
(* from a callback meets no error but the loss of the device.              *)
Note(ok) == orderly' = (orderly /\ ok)

(* The code hits an ASSERT or uses a pointer that was reset: the program   *)
(* stops.                                                                  *)
Fail ==
    /\ assertFailed' = TRUE
    /\ UNCHANGED <<mState, mDeviceLostCallback, serialVars, gpuVars, gpuLost,
                   taskVars, handleVars, stackVars>>

-----------------------------------------------------------------------------
(* The pieces of Tick, HandleError and Destroy.                            *)

ContextUsed == RecordingWork # {}

(* vkGetFenceStatus: a fence is signaled once its submission has executed. *)
FenceSignaled(s) == \A w \in Work : workSerial[w] = s => workState[w] = "Executed"

(* Mutant: one ready fence passes them all.                                *)
PassedFencesAll == {s \in mFencesInFlight : \E r \in mFencesInFlight : FenceSignaled(r)}

(* Fences are polled in order, up to the first one that is not ready.      *)
PassedFences ==
    {s \in mFencesInFlight : \A r \in mFencesInFlight : r <= s => FenceSignaled(r)}

(* c is the completed serial CheckPassedSerials arrives at.                *)
CheckPassedSerials(c) ==
    /\ c \in PassedFences \cup {mCompletedSerial}
    /\ \A s \in PassedFences \cup {mCompletedSerial} : s <= c

(* Mutant: handles of the next serial are freed too.                       *)
DeleteUpToPending(serial) ==
    /\ handleState' = [h \in Handles |->
            IF handleState[h] = "Queued" /\ handleSerial[h] <= serial + 1
              THEN "Deleted" ELSE handleState[h]]
    /\ UNCHANGED <<handleSerial, handleDep>>

(* FencedDeleter::Tick                                                     *)
DeleteUpTo(serial) ==
    /\ handleState' = [h \in Handles |->
            IF handleState[h] = "Queued" /\ handleSerial[h] <= serial
              THEN "Deleted" ELSE handleState[h]]
    /\ UNCHANGED <<handleSerial, handleDep>>

(* Mutant: only the tasks of exactly that serial leave the queue.          *)
ExtractTasksOfSerial(serial, d) ==
    LET finished == {t \in Tasks : taskState[t] = "InFlight" /\ taskSerial[t] = serial}
    IN  /\ taskState' = [t \in Tasks |-> IF t \in finished THEN "Extracted" ELSE taskState[t]]
        /\ taskFrame' = [t \in Tasks |-> IF t \in finished THEN d ELSE taskFrame[t]]
        /\ UNCHANGED <<taskSerial, taskDep>>

(* Queue::Tick first moves every finished task out of mTasksInFlight; the  *)
(* call at depth d then runs their callbacks one by one.                   *)
ExtractTasks(serial, d) ==
    LET finished == {t \in Tasks : taskState[t] = "InFlight" /\ taskSerial[t] <= serial}
    IN  /\ taskState' = [t \in Tasks |-> IF t \in finished THEN "Extracted" ELSE taskState[t]]
        /\ taskFrame' = [t \in Tasks |-> IF t \in finished THEN d ELSE taskFrame[t]]
        /\ UNCHANGED <<taskSerial, taskDep>>

(* The recorded work is handed to the GPU as one submission with a fence;  *)
(* base is the state of the other work.                                    *)
SubmitPendingCommands(recorded, base, fences) ==
    LET serial == mLastSubmittedSerial + 1
    IN  /\ workState' = [w \in Work |-> IF w \in recorded THEN "Submitted" ELSE base[w]]
        /\ workSerial' = [w \in Work |-> IF w \in recorded THEN serial ELSE workSerial[w]]
        /\ mFencesInFlight' = IF recorded = {} THEN fences ELSE fences \cup {serial}
        /\ UNCHANGED mRecordingContext

(* Mutant: the fences are dropped without waiting for them.                *)
DropFencesUnwaited(recorded, handedOver) ==
    /\ workState' = [w \in Work |->
            IF w \in recorded THEN IF handedOver THEN "Submitted" ELSE "Dropped"
            ELSE workState[w]]
    /\ mFencesInFlight' = {}
    /\ mRecordingContext' = IF recorded = {} THEN mRecordingContext ELSE "Null"
    /\ UNCHANGED workSerial

(* The recording context, holding the work in recorded, is dropped and the *)
(* GPU waited for.  When handedOver, that work had just been submitted.    *)
WaitForIdleForDestruction(recorded, handedOver) ==
    /\ workState' = [w \in Work |->
            IF w \in recorded THEN IF handedOver THEN "Executed" ELSE "Dropped"
            ELSE IF workState[w] = "Submitted" THEN "Executed" ELSE workState[w]]
    /\ mFencesInFlight' = {}
    /\ mRecordingContext' = IF recorded = {} THEN mRecordingContext ELSE "Null"
    /\ UNCHANGED workSerial

(* Mutant: the serials are not moved forward.                              *)
DisconnectLostInFlight ==
    /\ mState' = "Disconnected"
    /\ UNCHANGED <<serialVars, mDeviceLostCallback, assertFailed>>

(* HandleError(DeviceLost): the device is disconnected at once.            *)
DisconnectLost ==
    /\ mState' = "Disconnected"
    /\ AssumeCommandsComplete
    /\ UNCHANGED <<mDeviceLostCallback, assertFailed>>

(* HandleError(Internal): wait for the GPU, tick the backend, disconnect.  *)
(* The error may come from PrepareRecordingContext, once the recorded work *)
(* has been handed over to the GPU, or from before that.                   *)
DisconnectInternal(completed, recorded, handedOver) ==
    LET last == IF handedOver THEN mLastSubmittedSerial + 1 ELSE mLastSubmittedSerial
    IN  /\ mState' = "Disconnected"
        /\ WaitForIdleForDestruction(recorded, handedOver)
        /\ DeleteUpTo(completed)
        /\ mCompletedSerial' = AssumedSerial(last)
        /\ mLastSubmittedSerial' = AssumedSerial(last)
        /\ UNCHANGED <<mFutureSerial, mDeviceLostCallback, assertFailed>>

-----------------------------------------------------------------------------
(* DeviceBase::Tick, up to the callbacks of Queue::Tick.  It is called by  *)
(* APITick and, before it records anything, by vulkan Queue::SubmitImpl,   *)
(* whose command buffer is the work in encoded.                            *)

(* Mutant: a future serial alone does not make Tick work.                  *)
TickNeededForWorkOnly == mLastSubmittedSerial > mCompletedSerial

TickNeeded == mLastSubmittedSerial > mCompletedSerial \/ mCompletedSerial < mFutureSerial

Encode(encoded) == [w \in Work |-> IF w \in encoded THEN "Encoded" ELSE workState[w]]

TickSkipped(op, encoded) ==
    /\ ~TickNeeded
    /\ PushFrame(op)
    /\ workState' = Encode(encoded)
    /\ UNCHANGED <<deviceVars, serialVars, mFencesInFlight, mRecordingContext, workSerial,
                   gpuLost, taskVars, handleVars>>

(* The driver reports the loss when the first unsignaled fence is polled.  *)
FenceCheckFails == gpuLost /\ mFencesInFlight \ PassedFences # {}

(* CheckPassedSerials, TickImpl (the deleter, then the pending commands),  *)
(* AssumeCommandsComplete when nothing is in flight, Queue::Tick.          *)
TickPasses(op, encoded) ==
    /\ TickNeeded
    /\ ~FenceCheckFails
    /\ \E c \in PassedFences \cup {mCompletedSerial} :
        LET recorded  == RecordingWork
            last      == IF recorded = {} THEN mLastSubmittedSerial
                                          ELSE mLastSubmittedSerial + 1
            completed == IF c = last THEN AssumedSerial(last) ELSE c
        IN  /\ CheckPassedSerials(c)
            /\ recorded # {} => ~gpuLost
            /\ DeleteUpTo(c)
            /\ SubmitPendingCommands(recorded, Encode(encoded), mFencesInFlight \ PassedFences)
            /\ mCompletedSerial' = completed
            /\ mLastSubmittedSerial' = IF c = last THEN completed ELSE last
            /\ ExtractTasks(completed, depth + 1)
    /\ PushFrame(op)
    /\ UNCHANGED <<deviceVars, mFutureSerial, gpuLost>>

(* Tick fails with VK_ERROR_DEVICE_LOST, from vkGetFenceStatus or, once    *)
(* the deleter has been ticked, from vkQueueSubmit.                        *)
TickLost ==
    /\ TickNeeded
    /\ gpuLost
    /\ \/ FenceCheckFails /\ UNCHANGED handleVars
       \/ /\ ~FenceCheckFails /\ ContextUsed
          /\ \E c \in PassedFences \cup {mCompletedSerial} : CheckPassedSerials(c) /\ DeleteUpTo(c)
    /\ mFencesInFlight' = mFencesInFlight \ PassedFences
    /\ DisconnectLost
    /\ PushFrame("Lose")
    /\ UNCHANGED <<mRecordingContext, workState, workSerial, gpuLost, taskVars>>

(* Tick fails with any other Vulkan error: from vkGetFenceStatus, or while *)
(* submitting the pending commands.                                        *)
TickInternal ==
    /\ TickNeeded
    /\ "Internal" \in DriverErrors
    /\ \/ /\ mFencesInFlight # {}
          /\ DisconnectInternal(mCompletedSerial, RecordingWork, FALSE)
       \/ /\ ContextUsed /\ ~FenceCheckFails
          /\ \E c \in PassedFences \cup {mCompletedSerial}, handedOver \in BOOLEAN :
                /\ CheckPassedSerials(c)
                /\ handedOver => ~gpuLost
                /\ DisconnectInternal(c, RecordingWork, handedOver)
    /\ PushFrame("Lose")
    /\ UNCHANGED <<gpuLost, taskVars>>

-----------------------------------------------------------------------------
(* The API calls.  A call on a device that is not Alive is a validation    *)
(* error that changes nothing, unless an action below says otherwise.      *)

(* Queue::WriteBuffer: copy into staging memory and record a GPU copy.     *)
WriteBuffer(w) ==
    /\ CanCall("WriteBuffer") /\ mState = "Alive" /\ NextWork(w)
    /\ Note(FromWork)
    /\ \/ mRecordingContext = "Null" /\ Fail
       \/ /\ mRecordingContext = "Ready"
          /\ workState' = [workState EXCEPT ![w] = "Recording"]
          /\ AddFutureSerial(GetPendingCommandSerial)
          /\ UNCHANGED <<deviceVars, mCompletedSerial, mLastSubmittedSerial, mFencesInFlight,
                         mRecordingContext, workSerial, gpuLost, taskVars, handleVars, stackVars>>

(* Buffer::Unmap of a mappedAtCreation buffer with staging memory: a copy  *)
(* is recorded and no future serial is added.                              *)
UnmapAtCreation(w) ==
    /\ CanCall("UnmapAtCreation") /\ mState = "Alive" /\ NextWork(w)
    /\ Note(FromWork)
    /\ \/ mRecordingContext = "Null" /\ Fail
       \/ /\ mRecordingContext = "Ready"
          /\ workState' = [workState EXCEPT ![w] = "Recording"]
          /\ UNCHANGED <<deviceVars, serialVars, mFencesInFlight, mRecordingContext, workSerial,
                         gpuLost, taskVars, handleVars, stackVars>>

(* The callback waits for the pending serial, or is told DeviceLost now.   *)
OnSubmittedWorkDone(t) ==
    /\ CanCall("OnSubmittedWorkDone") /\ NextTask(t)
    /\ Note(FromWork)
    /\ IF mState = "Alive"
         THEN /\ taskState' = [taskState EXCEPT ![t] = "InFlight"]
              /\ taskSerial' = [taskSerial EXCEPT ![t] = GetPendingCommandSerial]
              /\ taskDep' = [taskDep EXCEPT ![t] = PendingWork]
              /\ AddFutureSerial(GetPendingCommandSerial)
         ELSE /\ taskState' = [taskState EXCEPT ![t] = "DeviceLost"]
              /\ UNCHANGED <<taskSerial, taskDep, mFutureSerial>>
    /\ UNCHANGED <<deviceVars, mCompletedSerial, mLastSubmittedSerial, gpuVars, gpuLost,
                   taskFrame, handleVars, stackVars>>

(* A resource's DestroyImpl gives its Vulkan handle to the FencedDeleter.  *)
DeleteWhenUnused(h) ==
    /\ CanCall("DeleteWhenUnused") /\ mState # "Destroyed" /\ NextHandle(h)
    /\ handleState' = [handleState EXCEPT ![h] = "Queued"]
    /\ handleSerial' = [handleSerial EXCEPT ![h] = GetPendingCommandSerial]
    /\ handleDep' = [handleDep EXCEPT ![h] = PendingWork]
    /\ UNCHANGED <<deviceVars, serialVars, gpuVars, gpuLost, taskVars, stackVars, orderly>>

APITick ==
    /\ CanCall("Tick") /\ mState = "Alive"
    /\ \/ (TickSkipped("Tick", {}) \/ TickPasses("Tick", {}) \/ TickLost) /\ Note(FromWork)
       \/ TickInternal /\ Note(depth = 0)

(* Queue::Submit, as far as the callbacks of the Tick it starts with.      *)
Submit(w) ==
    /\ CanCall("Submit") /\ mState = "Alive" /\ NextWork(w)
    /\ \/ (TickSkipped("Submit", {w}) \/ TickPasses("Submit", {w}) \/ TickLost) /\ Note(FromWork)
       \/ TickInternal /\ Note(depth = 0)

LoseForTesting ==
    /\ CanCall("LoseForTesting") /\ mState = "Alive" /\ Note(depth = 0)
    /\ DisconnectInternal(mCompletedSerial, RecordingWork, FALSE)
    /\ PushFrame("Lose")
    /\ UNCHANGED <<gpuLost, taskVars>>

Destroy ==
    /\ CanCall("Destroy") /\ mState # "Destroyed" /\ Note(depth = 0)
    /\ PushFrame("Destroy")
    /\ UNCHANGED <<deviceVars, serialVars, gpuVars, gpuLost, taskVars, handleVars>>

-----------------------------------------------------------------------------
(* The rest of a call: callbacks, and what follows them.                   *)

(* The tasks the Queue::Tick of the innermost call has yet to finish.      *)
TasksToFinish == {t \in Tasks : taskState[t] = "Extracted" /\ taskFrame[t] = depth}

(* SubmittedWorkDone::Finish, in queue order.                              *)
FinishTask(t) ==
    /\ Running("Tick") \/ Running("Submit") \/ Running("DestroyTasks")
    /\ t \in TasksToFinish
    /\ \A u \in TasksToFinish : t <= u
    /\ taskState' = [taskState EXCEPT ![t] = "Success"]
    /\ EnterCallback
    /\ UNCHANGED <<deviceVars, serialVars, gpuVars, gpuLost, taskSerial, taskDep, taskFrame,
                   handleVars, orderly>>

(* After its callbacks Tick flushes the callback task queue, which Destroy *)
(* resets.                                                                 *)
TickReturns ==
    /\ Running("Tick") /\ TasksToFinish = {}
    /\ IF mState = "Destroyed"
         THEN Fail
         ELSE PopFrame /\ UNCHANGED <<deviceVars, serialVars, gpuVars, gpuLost, taskVars,
                                      handleVars>>
    /\ UNCHANGED orderly

(* SubmitImpl is back from its Tick; w is its command buffer.              *)
SubmitContinues(w) ==
    /\ Running("Submit") /\ TasksToFinish = {}
    /\ workState[w] = "Encoded" /\ \A v \in 1..(w - 1) : workState[v] # "Encoded"
    /\ mState # "Destroyed" /\ mRecordingContext = "Ready"

(* After its Tick, SubmitImpl records the commands and submits them with   *)
(* everything recorded before.                                             *)
SubmitRecords(w) ==
    /\ SubmitContinues(w) /\ ~gpuLost
    /\ SubmitPendingCommands(RecordingWork \cup {w}, workState, mFencesInFlight)
    /\ mLastSubmittedSerial' = mLastSubmittedSerial + 1
    /\ PopFrame
    /\ UNCHANGED <<deviceVars, mCompletedSerial, mFutureSerial, gpuLost, taskVars, handleVars,
                   orderly>>

(* vkQueueSubmit reports VK_ERROR_DEVICE_LOST.                             *)
SubmitLost(w) ==
    /\ SubmitContinues(w) /\ gpuLost
    /\ workState' = [workState EXCEPT ![w] = "Recording"]
    /\ DisconnectLost
    /\ ReplaceFrame("Lose")
    /\ UNCHANGED <<mFencesInFlight, mRecordingContext, workSerial, gpuLost, taskVars, handleVars,
                   orderly>>

(* Recording, vkQueueSubmit or PrepareRecordingContext fails otherwise.    *)
SubmitInternal(w) ==
    /\ SubmitContinues(w) /\ ~gpuLost
    /\ "Internal" \in DriverErrors
    /\ \E handedOver \in BOOLEAN :
            DisconnectInternal(mCompletedSerial, RecordingWork \cup {w}, handedOver)
    /\ ReplaceFrame("Lose")
    /\ Note(depth = 1)
    /\ UNCHANGED <<gpuLost, taskVars>>

(* A callback of the Tick dropped the recording context, or destroyed the  *)
(* device.                                                                 *)
SubmitFails ==
    /\ Running("Submit") /\ TasksToFinish = {}
    /\ mState = "Destroyed" \/ mRecordingContext = "Null"
    /\ Fail /\ UNCHANGED orderly

(* HandleError, from the device-lost callback on.                          *)
LoseCallback ==
    /\ Running("Lose") /\ mDeviceLostCallback /\ frame[depth].at = "Code"
    /\ EnterCallback
    /\ UNCHANGED <<deviceVars, serialVars, gpuVars, gpuLost, taskVars, handleVars, orderly>>

LoseStartsTasks ==
    /\ Running("Lose") /\ (mDeviceLostCallback => frame[depth].at = "Callback")
    /\ mDeviceLostCallback' = FALSE
    /\ ReplaceFrame("LoseTasks")
    /\ UNCHANGED <<mState, assertFailed, serialVars, gpuVars, gpuLost, taskVars, handleVars,
                   orderly>>

(* Queue::HandleDeviceLoss calls each task where it is, then clears.       *)
LoseTask(t) ==
    /\ Running("LoseTasks")
    /\ taskState[t] = "InFlight" /\ \A u \in 1..(t - 1) : taskState[u] # "InFlight"
    /\ taskState' = [taskState EXCEPT ![t] = "LostInQueue"]
    /\ EnterCallback
    /\ UNCHANGED <<deviceVars, serialVars, gpuVars, gpuLost, taskSerial, taskDep, taskFrame,
                   handleVars, orderly>>

LoseReturns ==
    /\ Running("LoseTasks") /\ \A t \in Tasks : taskState[t] # "InFlight"
    /\ mState # "Destroyed"
    /\ taskState' = [t \in Tasks |-> IF taskState[t] = "LostInQueue" THEN "DeviceLost"
                                                                    ELSE taskState[t]]
    /\ PopFrame
    /\ UNCHANGED <<deviceVars, serialVars, gpuVars, gpuLost, taskSerial, taskDep, taskFrame,
                   handleVars, orderly>>

(* A callback destroyed the device: HandleError goes on to wait for the    *)
(* async tasks, whose manager Destroy has reset.                           *)
LoseReturnsFails ==
    /\ Running("LoseTasks") /\ \A t \in Tasks : taskState[t] # "InFlight"
    /\ mState = "Destroyed"
    /\ Fail /\ UNCHANGED orderly

(* Destroy, from the device-lost callback on.                              *)
DestroyCallback ==
    /\ Running("Destroy") /\ mDeviceLostCallback /\ frame[depth].at = "Code"
    /\ EnterCallback
    /\ UNCHANGED <<deviceVars, serialVars, gpuVars, gpuLost, taskVars, handleVars, orderly>>

DestroyProceeds == Running("Destroy") /\ (mDeviceLostCallback => frame[depth].at = "Callback")

(* An Alive device waits for the GPU.  Then the queue is ticked.           *)
DestroyAlive ==
    /\ DestroyProceeds /\ mState = "Alive"
    /\ WaitForIdleForDestruction(RecordingWork, FALSE)
    /\ AssumeCommandsComplete
    /\ ExtractTasks(AssumedSerial(mLastSubmittedSerial), depth)
    /\ mDeviceLostCallback' = FALSE
    /\ ReplaceFrame("DestroyTasks")
    /\ UNCHANGED <<mState, assertFailed, gpuLost, handleVars, orderly>>

(* A disconnected device has nothing to wait for: Destroy asserts that its *)
(* serials say so.  Finishing a task that has been called is an error too. *)
DestroyAsserts ==
    /\ mState = "Disconnected"
    /\ mCompletedSerial = mLastSubmittedSerial /\ mFutureSerial <= mCompletedSerial
    /\ \A t \in Tasks : taskState[t] # "LostInQueue"

DestroyDisconnected ==
    /\ DestroyProceeds /\ DestroyAsserts
    /\ ExtractTasks(mCompletedSerial, depth)
    /\ mDeviceLostCallback' = FALSE
    /\ ReplaceFrame("DestroyTasks")
    /\ UNCHANGED <<mState, assertFailed, serialVars, gpuVars, gpuLost, handleVars, orderly>>

DestroyFails ==
    /\ DestroyProceeds /\ mState # "Alive" /\ ~DestroyAsserts
    /\ Fail /\ UNCHANGED orderly

(* After the callbacks: TickImpl, whose errors are ignored and which would *)
(* submit what the callbacks recorded; DestroyImpl, which frees everything. *)
DestroyReturns ==
    LET submitted == IF gpuLost THEN {} ELSE RecordingWork
    IN  /\ Running("DestroyTasks") /\ TasksToFinish = {}
        /\ mState # "Destroyed"
        /\ workState' = [w \in Work |-> IF w \in submitted THEN "Submitted"
                            ELSE IF workState[w] = "Recording" THEN "Dropped" ELSE workState[w]]
        /\ workSerial' = [w \in Work |-> IF w \in submitted THEN mLastSubmittedSerial + 1
                                                             ELSE workSerial[w]]
        /\ mFencesInFlight' = {}
        /\ mRecordingContext' = "Null"
        /\ handleState' = [h \in Handles |-> IF handleState[h] = "Queued" THEN "Deleted"
                                                                          ELSE handleState[h]]
        /\ LET last == IF submitted = {} THEN mLastSubmittedSerial ELSE mLastSubmittedSerial + 1
           IN  mCompletedSerial' = AssumedSerial(last) /\ mLastSubmittedSerial' = AssumedSerial(last)
        /\ mState' = "Destroyed"
        /\ PopFrame
        /\ UNCHANGED <<mFutureSerial, mDeviceLostCallback, assertFailed, gpuLost, taskVars,
                       handleSerial, handleDep, orderly>>

(* A callback of this Destroy destroyed the device already.                *)
DestroyReturnsFails ==
    /\ Running("DestroyTasks") /\ TasksToFinish = {} /\ mState = "Destroyed"
    /\ Fail /\ UNCHANGED orderly

-----------------------------------------------------------------------------
(* The GPU (external): it executes submissions in order, or is lost.       *)

GpuExecute ==
    /\ \E s \in {workSerial[w] : w \in WorkIn({"Submitted"})} :
        /\ \A w \in WorkIn({"Submitted"}) : s <= workSerial[w]
        /\ workState' = [w \in Work |-> IF workState[w] = "Submitted" /\ workSerial[w] = s
                                           THEN "Executed" ELSE workState[w]]
    /\ UNCHANGED <<deviceVars, serialVars, mFencesInFlight, mRecordingContext, workSerial,
                   gpuLost, taskVars, handleVars, stackVars, orderly>>

GpuLoss ==
    /\ "DeviceLost" \in DriverErrors /\ ~gpuLost /\ mState # "Destroyed"
    /\ gpuLost' = TRUE
    /\ workState' = [w \in Work |-> IF workState[w] = "Submitted" THEN "Abandoned"
                                                                 ELSE workState[w]]
    /\ UNCHANGED <<deviceVars, serialVars, mFencesInFlight, mRecordingContext, workSerial,
                   taskVars, handleVars, stackVars, orderly>>

-----------------------------------------------------------------------------
(* What the innermost call does next, given that callbacks return.         *)
StackStep ==
    \/ \E t \in Tasks : FinishTask(t) \/ LoseTask(t)
    \/ \E w \in Work : SubmitRecords(w) \/ SubmitLost(w) \/ SubmitInternal(w)
    \/ SubmitFails \/ TickReturns
    \/ LoseCallback \/ LoseStartsTasks \/ LoseReturns \/ LoseReturnsFails
    \/ DestroyCallback \/ DestroyAlive \/ DestroyDisconnected \/ DestroyFails
    \/ DestroyReturns \/ DestroyReturnsFails

ApiCall ==
    \/ \E w \in Work : WriteBuffer(w) \/ UnmapAtCreation(w) \/ Submit(w)
    \/ \E t \in Tasks : OnSubmittedWorkDone(t)
    \/ \E h \in Handles : DeleteWhenUnused(h)
    \/ APITick \/ LoseForTesting \/ Destroy

Next == StackStep \/ ApiCall \/ GpuExecute \/ GpuLoss

Spec == Init /\ [][Next]_vars

(* The application ticks as long as APITick tells it to; the GPU makes     *)
(* progress; a callback returns, however often it calls the API.           *)
TickWhileNeeded == depth = 0 /\ ~IsDeviceIdle /\ APITick
StackStepAt(d)  == depth = d /\ StackStep

Fairness ==
    /\ WF_vars(TickWhileNeeded)
    /\ WF_vars(GpuExecute)
    /\ \A d \in Depths : SF_vars(StackStepAt(d))

FairSpec == Spec /\ Fairness

-----------------------------------------------------------------------------
(* Properties.                                                             *)

Answered(t)  == taskState[t] \in {"Success", "DeviceLost"}
Destroying   == mState = "Destroyed" \/ \E d \in Depths : frame[d].op \in {"Destroy", "DestroyTasks"}

(* A task that Queue::Tick finishes with Success does not wait for         *)
(* anything: none of the work pending when OnSubmittedWorkDone was called  *)
(* is still on the GPU, and none is still to be submitted to it.           *)
NoEarlySuccess ==
    \A t \in Tasks : taskState[t] \in {"Extracted", "Success"} =>
        \A w \in taskDep[t] : /\ workState[w] # "Submitted"
                              /\ workState[w] = "Recording" => gpuLost

(* Unless the device is being destroyed, Success means that the GPU has    *)
(* executed all the work pending at the call, in spite of device loss and  *)
(* of failing submissions.                                                 *)
SuccessMeansExecuted ==
    ~Destroying =>
        \A t \in Tasks : taskState[t] \in {"Extracted", "Success"} =>
            \A w \in taskDep[t] : workState[w] = "Executed"

(* FencedDeleter frees a handle only when no work that was pending at the  *)
(* resource's destruction runs on the GPU or can still be submitted.       *)
DeletedOnlyWhenUnused ==
    \A h \in Handles : handleState[h] = "Deleted" =>
        \A w \in handleDep[h] : /\ workState[w] # "Submitted"
                                /\ workState[w] = "Recording" => gpuLost

(* When APITick answers that no ticking is needed (IsDeviceIdle), no       *)
(* callback is waiting and no fence is in flight.                          *)
IdleMeansDone ==
    mState = "Alive" /\ IsDeviceIdle =>
        /\ \A t \in Tasks : taskState[t] # "InFlight"
        /\ mFencesInFlight = {}

(* A later OnSubmittedWorkDone callback is not called with Success while   *)
(* an earlier one is still in the queue.                                   *)
QueueOrder ==
    \A t, u \in Tasks : t < u /\ taskState[u] = "Success" => taskState[t] # "InFlight"

(* No ASSERT of the code fails, no reset pointer is used, and no task is   *)
(* finished twice, until something ends the device from inside a callback. *)
NoAssertFails == orderly => ~assertFailed

(* While the device exists its deleter frees no handle that is in use,     *)
(* even when callbacks destroy or lose the device.                         *)
LiveDeletions == mState # "Destroyed" => DeletedOnlyWhenUnused

(* Once Destroy has returned the GPU runs no work of the device and, as    *)
(* ~QueueBase asserts, no task is left in the queue, unless something has  *)
(* ended the device from inside a callback.                                *)
DestroyedIsQuiet ==
    orderly /\ mState = "Destroyed" =>
        /\ WorkIn({"Submitted"}) = {}
        /\ \A t \in Tasks : taskState[t] \notin {"InFlight", "LostInQueue"}

(* SubmitInternal: "If device is lost, don't let any commands be           *)
(* submitted".                                                             *)
NoSubmitWhenLost ==
    [][\A w \in Work : workState[w] # "Submitted" /\ workState'[w] = "Submitted"
            => mState = "Alive"]_vars

(* Every OnSubmittedWorkDone callback is called in the end, when the       *)
(* application ticks only while APITick tells it to and nothing ends the   *)
(* device from inside a callback.                                          *)
EveryTaskAnswered ==
    \A t \in Tasks : taskState[t] = "InFlight" ~> Answered(t) \/ ~orderly

-----------------------------------------------------------------------------
(* The inductive invariant behind NoEarlySuccess, IdleMeansDone and        *)
(* LiveDeletions.                                                          *)

(* The fences in flight cover all work on the GPU and are ahead of the     *)
(* completed serial, as CheckPassedSerials asserts.                        *)
FenceInv ==
    /\ mCompletedSerial <= mLastSubmittedSerial
    /\ \A s \in mFencesInFlight : s <= mLastSubmittedSerial
    /\ mState = "Alive" => \A s \in mFencesInFlight : mCompletedSerial < s
    /\ gpuLost => \A w \in Work : workState[w] # "Submitted"
    /\ mState # "Destroyed" =>
        \A w \in Work : workState[w] = "Submitted" =>
            workSerial[w] \in mFencesInFlight /\ mCompletedSerial < workSerial[w]

(* A waiter with the given serial waits for no work beyond that serial.    *)
Covers(serial, w) ==
    /\ workState[w] = "Submitted" => workSerial[w] <= serial
    /\ workState[w] = "Recording" => serial > mLastSubmittedSerial \/ gpuLost

DependenciesRecorded ==
    /\ \A t \in Tasks : \A w \in taskDep[t] : workState[w] \notin {"Unused", "Encoded"}
    /\ \A h \in Handles : \A w \in handleDep[h] : workState[w] \notin {"Unused", "Encoded"}

WaitersCover ==
    mState # "Destroyed" =>
        /\ \A t \in Tasks : taskState[t] = "InFlight" =>
                \A w \in taskDep[t] : Covers(taskSerial[t], w)
        /\ \A h \in Handles : handleState[h] = "Queued" =>
                \A w \in handleDep[h] : Covers(handleSerial[h], w)

TasksAhead ==
    mState = "Alive" => \A t \in Tasks : taskState[t] = "InFlight" =>
        mCompletedSerial < taskSerial[t] /\ taskSerial[t] <= mFutureSerial

(* Fences cover the work on the GPU, waiters cover what they wait for, and *)
(* nothing is answered or freed too early.                                 *)
TimelineInv ==
    /\ FenceInv
    /\ DependenciesRecorded
    /\ WaitersCover
    /\ TasksAhead
    /\ NoEarlySuccess
    /\ LiveDeletions

-----------------------------------------------------------------------------
(* The invariants behind QueueOrder and SuccessMeansExecuted.              *)

(* The serials of the tasks in the queue grow with their numbers.          *)
OrderInv ==
    /\ \A t \in Tasks :
          /\ taskState[t] = "InFlight" => taskSerial[t] <= mLastSubmittedSerial + 1
          /\ taskState[t] # "Unused" => \A u \in Tasks : u < t => taskState[u] # "Unused"
    /\ \A t, u \in Tasks : t < u /\ taskState[t] = "InFlight" =>
          /\ taskState[u] = "InFlight" => taskSerial[t] <= taskSerial[u]
          /\ taskState[u] \notin {"Extracted", "Success"}

(* Nothing is left on the stack above the innermost call.                  *)
StackClean == \A d \in Depths : d > depth => frame[d].op = "None"

(* Work that will never be executed keeps its fence in flight, unless the  *)
(* device is lost or being destroyed: no tick can pass it.                 *)
UnexecutedBlocks ==
    mState = "Alive" /\ ~Destroying =>
        \A w \in Work :
            /\ workState[w] # "Dropped"
            /\ workState[w] = "Abandoned" => gpuLost /\ workSerial[w] \in mFencesInFlight

ExecutedInv == StackClean /\ UnexecutedBlocks /\ SuccessMeansExecuted

-----------------------------------------------------------------------------
(* The invariant behind NoAssertFails and DestroyedIsQuiet, for as long as *)
(* the device is used in order.                                            *)

(* Loss and destruction are only ever the innermost call, destruction only *)
(* the outermost too.                                                      *)
CallsInv ==
    /\ StackClean
    /\ \A d \in Depths : /\ d < depth => frame[d].op \in {"Tick", "Submit"}
                         /\ frame[d].op \in {"Destroy", "DestroyTasks"} => d = 1
                         /\ frame[d].op \in {"Lose", "LoseTasks"} => mState = "Disconnected"
    /\ mState = "Destroyed" => depth = 0

NoCallToFinish == \A d \in Depths : frame[d].op \notin {"Tick", "Submit"}
InDestroyTasks == \E d \in Depths : frame[d].op = "DestroyTasks"

(* The recording context is dropped and the serials are moved on only when *)
(* no Tick or Submit will go on using them.                                *)
LossInv ==
    /\ mRecordingContext = "Null" => NoCallToFinish /\ (mState # "Alive" \/ InDestroyTasks)
    /\ mState = "Disconnected" =>
          /\ mFutureSerial <= mCompletedSerial
          /\ gpuLost \/ NoCallToFinish
    /\ mState = "Disconnected" \/ InDestroyTasks =>
          /\ mCompletedSerial = mLastSubmittedSerial
          /\ gpuLost \/ RecordingWork = {}

(* The tasks that the loss and the destruction of the device find.         *)
TaskInv ==
    \A t \in Tasks :
        /\ taskState[t] = "InFlight" => taskSerial[t] <= mFutureSerial /\ ~InDestroyTasks
        /\ taskState[t] = "LostInQueue" => depth > 0 /\ frame[depth].op = "LoseTasks"

CalmInv == CallsInv /\ LossInv /\ TaskInv /\ ~assertFailed /\ DestroyedIsQuiet

OrderlyInv == orderly => CalmInv
=============================================================================
