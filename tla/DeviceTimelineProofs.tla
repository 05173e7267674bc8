------------------------ MODULE DeviceTimelineProofs ------------------------
(***************************************************************************)
(* Proofs about DeviceTimeline, for every value of its constants: whatever *)
(* is called from whatever callback, with any driver error.                *)
(***************************************************************************)
EXTENDS DeviceTimeline, TLAPS

(* The initial state is well typed.                                        *)
LEMMA TypeInit == Init => TypeOK
  <1> SUFFICES ASSUME Init PROVE TypeOK
    OBVIOUS
  <1>1. frame \in [Depths -> [op : FrameOps, at : {"Code", "Callback"}]]
    BY DEF Init, NoFrame, FrameOps
  <1>2. /\ mDeviceLostCallback \in BOOLEAN /\ gpuLost \in BOOLEAN
        /\ assertFailed \in BOOLEAN
    BY Zenon DEF Init
  <1>3. /\ mCompletedSerial \in Nat /\ mLastSubmittedSerial \in Nat /\ mFutureSerial \in Nat
        /\ depth \in 0..MaxDepth
    BY BoundsAssumption DEF Init
  <1>4. /\ taskFrame \in [Tasks -> 0..MaxDepth] /\ taskSerial \in [Tasks -> Nat]
        /\ workSerial \in [Work -> Nat] /\ handleSerial \in [Handles -> Nat]
    BY BoundsAssumption DEF Init
  <1> QED
    BY <1>1, <1>2, <1>3, <1>4 DEF Init, TypeOK, WorkStates, TaskStates, HandleStates

(* A call pushed on, popped off or replaced on the stack leaves it typed.  *)
LEMMA TypeStack ==
    ASSUME TypeOK, NEW op \in FrameOps, ~assertFailed,
           \/ PushFrame(op)
           \/ depth > 0 /\ (PopFrame \/ ReplaceFrame(op) \/ EnterCallback)
           \/ UNCHANGED stackVars
    PROVE  depth' \in 0..MaxDepth /\ frame' \in [Depths -> [op : FrameOps, at : {"Code", "Callback"}]]
  <1> USE BoundsAssumption DEF Depths
  <1>1. CASE PushFrame(op)
    BY <1>1 DEF TypeOK, PushFrame, FrameOps
  <1>2. CASE depth > 0 /\ PopFrame
    BY <1>2 DEF TypeOK, PopFrame, NoFrame, FrameOps
  <1>3. CASE depth > 0 /\ ReplaceFrame(op)
    BY <1>3 DEF TypeOK, ReplaceFrame, FrameOps
  <1>4. CASE depth > 0 /\ EnterCallback
    BY <1>4 DEF TypeOK, EnterCallback
  <1>5. CASE UNCHANGED stackVars
    BY <1>5 DEF TypeOK, stackVars
  <1> QED
    BY <1>1, <1>2, <1>3, <1>4, <1>5

(* The tasks and handles that Queue::Tick and the deleter leave behind.    *)
LEMMA TypeExtract ==
    ASSUME TypeOK, NEW serial, NEW d \in 0..MaxDepth, ExtractTasks(serial, d)
    PROVE  /\ taskState' \in [Tasks -> TaskStates]
           /\ taskSerial' \in [Tasks -> Nat]
           /\ taskDep' \in [Tasks -> SUBSET Work]
           /\ taskFrame' \in [Tasks -> 0..MaxDepth]
  BY DEF TypeOK, ExtractTasks, TaskStates

LEMMA TypeDelete ==
    ASSUME TypeOK, NEW serial, DeleteUpTo(serial)
    PROVE  /\ handleState' \in [Handles -> HandleStates]
           /\ handleSerial' \in [Handles -> Nat]
           /\ handleDep' \in [Handles -> SUBSET Work]
  BY DEF TypeOK, DeleteUpTo, HandleStates

(* The history variable.                                                   *)
LEMMA TypeNote == ASSUME TypeOK, NEW ok \in BOOLEAN, Note(ok) PROVE orderly' \in BOOLEAN
  BY DEF TypeOK, Note

LEMMA TypeOrderly == TypeOK /\ ApiCall => orderly' \in BOOLEAN
  <1>1. FromWork \in BOOLEAN /\ (depth = 0) \in BOOLEAN
    BY DEF FromWork
  <1> QED
    BY <1>1, TypeNote DEF TypeOK, ApiCall, WriteBuffer, UnmapAtCreation, OnSubmittedWorkDone,
       DeleteWhenUnused, Submit, APITick, LoseForTesting, Destroy

(* A failed assertion changes nothing else.                                *)
LEMMA TypeFail == TypeOK /\ Fail /\ orderly' \in BOOLEAN => TypeOK'
  BY DEF TypeOK, Fail, serialVars, gpuVars, taskVars, handleVars, stackVars

(* WaitForIdleForDestruction leaves the work and the context typed.        *)
LEMMA TypeWait ==
    ASSUME TypeOK, NEW recorded, NEW handedOver,
           WaitForIdleForDestruction(recorded, handedOver)
    PROVE  /\ workState' \in [Work -> WorkStates] /\ workSerial' \in [Work -> Nat]
           /\ mFencesInFlight' \in SUBSET Nat /\ mRecordingContext' \in {"Ready", "Null"}
  BY DEF TypeOK, WaitForIdleForDestruction, WorkStates

(* So does a submission.                                                   *)
LEMMA TypeSubmit ==
    ASSUME TypeOK, NEW recorded, NEW base \in [Work -> WorkStates], NEW fences \in SUBSET Nat,
           SubmitPendingCommands(recorded, base, fences)
    PROVE  /\ workState' \in [Work -> WorkStates] /\ workSerial' \in [Work -> Nat]
           /\ mFencesInFlight' \in SUBSET Nat /\ mRecordingContext' \in {"Ready", "Null"}
  <1>1. mLastSubmittedSerial + 1 \in Nat
    BY DEF TypeOK
  <1>2. mFencesInFlight' \in SUBSET Nat
    BY <1>1 DEF SubmitPendingCommands
  <1>3. workSerial' \in [Work -> Nat]
    BY <1>1 DEF SubmitPendingCommands, TypeOK
  <1> QED
    BY <1>2, <1>3 DEF SubmitPendingCommands, TypeOK, WorkStates

(* Disconnecting, for an internal error or a lost device.                  *)
LEMMA TypeDisconnect ==
    ASSUME TypeOK, NEW completed, NEW recorded, NEW handedOver \in BOOLEAN,
           UNCHANGED <<gpuLost, taskVars>>, orderly' \in BOOLEAN,
           DisconnectInternal(completed, recorded, handedOver),
           depth' \in 0..MaxDepth,
           frame' \in [Depths -> [op : FrameOps, at : {"Code", "Callback"}]]
    PROVE  TypeOK'
  <1>1. /\ handleState' \in [Handles -> HandleStates]
        /\ handleSerial' \in [Handles -> Nat]
        /\ handleDep' \in [Handles -> SUBSET Work]
    BY TypeDelete DEF DisconnectInternal
  <1>2. /\ workState' \in [Work -> WorkStates] /\ workSerial' \in [Work -> Nat]
        /\ mFencesInFlight' \in SUBSET Nat /\ mRecordingContext' \in {"Ready", "Null"}
    BY TypeWait DEF DisconnectInternal
  <1>3. /\ mCompletedSerial' \in Nat /\ mLastSubmittedSerial' \in Nat /\ mFutureSerial' \in Nat
    BY DEF TypeOK, DisconnectInternal, AssumedSerial, MaxOf
  <1> QED
    BY <1>1, <1>2, <1>3 DEF TypeOK, DisconnectInternal, taskVars

(* The three ways out of DeviceBase::Tick.                                 *)
LEMMA TypeTick ==
    ASSUME TypeOK, ~assertFailed, orderly' \in BOOLEAN,
           NEW op \in {"Tick", "Submit"}, NEW encoded \in SUBSET Work,
           TickSkipped(op, encoded) \/ TickPasses(op, encoded) \/ TickLost \/ TickInternal
    PROVE  TypeOK'
  <1> USE DEF deviceVars, serialVars, gpuVars, taskVars, handleVars
  <1>1. CASE TickSkipped(op, encoded)
    <2>1. depth' \in 0..MaxDepth /\ frame' \in [Depths -> [op : FrameOps, at : {"Code", "Callback"}]]
      BY <1>1, TypeStack DEF TickSkipped, FrameOps
    <2> QED
      BY <1>1, <2>1 DEF TypeOK, TickSkipped, Encode, WorkStates
  <1>2. CASE TickPasses(op, encoded)
    <2>1. depth' \in 0..MaxDepth /\ frame' \in [Depths -> [op : FrameOps, at : {"Code", "Callback"}]]
      BY <1>2, TypeStack DEF TickPasses, FrameOps
    <2>2. depth + 1 \in 0..MaxDepth
      BY <1>2, BoundsAssumption DEF TypeOK, TickPasses, PushFrame
    <2> DEFINE last == IF RecordingWork = {} THEN mLastSubmittedSerial ELSE mLastSubmittedSerial + 1
    <2>3. PICK c \in PassedFences \cup {mCompletedSerial} :
            LET completed == IF c = last THEN AssumedSerial(last) ELSE c
            IN  /\ CheckPassedSerials(c)
                /\ DeleteUpTo(c)
                /\ SubmitPendingCommands(RecordingWork, Encode(encoded),
                                         mFencesInFlight \ PassedFences)
                /\ mCompletedSerial' = completed
                /\ mLastSubmittedSerial' = IF c = last THEN completed ELSE last
                /\ ExtractTasks(completed, depth + 1)
      BY <1>2 DEF TickPasses
    <2>4. c \in Nat /\ last \in Nat
      BY DEF PassedFences, TypeOK
    <2>5. mCompletedSerial' \in Nat /\ mLastSubmittedSerial' \in Nat /\ mFutureSerial' \in Nat
      BY <1>2, <2>3, <2>4 DEF TypeOK, AssumedSerial, MaxOf, TickPasses
    <2>6. /\ workState' \in [Work -> WorkStates] /\ workSerial' \in [Work -> Nat]
          /\ mFencesInFlight' \in SUBSET Nat /\ mRecordingContext' \in {"Ready", "Null"}
      <3>1. Encode(encoded) \in [Work -> WorkStates]
        BY DEF TypeOK, Encode, WorkStates
      <3>2. mFencesInFlight \ PassedFences \in SUBSET Nat
        BY DEF TypeOK
      <3> QED
        BY <2>3, <3>1, <3>2, TypeSubmit
    <2>7. /\ handleState' \in [Handles -> HandleStates]
          /\ handleSerial' \in [Handles -> Nat]
          /\ handleDep' \in [Handles -> SUBSET Work]
      BY <2>3, TypeDelete
    <2>8. /\ taskState' \in [Tasks -> TaskStates]
          /\ taskSerial' \in [Tasks -> Nat]
          /\ taskDep' \in [Tasks -> SUBSET Work]
          /\ taskFrame' \in [Tasks -> 0..MaxDepth]
      BY <2>2, <2>3, TypeExtract
    <2> QED
      BY <1>2, <2>1, <2>5, <2>6, <2>7, <2>8 DEF TypeOK, TickPasses
  <1>3. CASE TickLost
    <2>1. depth' \in 0..MaxDepth /\ frame' \in [Depths -> [op : FrameOps, at : {"Code", "Callback"}]]
      BY <1>3, TypeStack DEF TickLost, FrameOps
    <2>2. /\ handleState' \in [Handles -> HandleStates]
          /\ handleSerial' \in [Handles -> Nat]
          /\ handleDep' \in [Handles -> SUBSET Work]
      BY <1>3, TypeDelete DEF TickLost, TypeOK
    <2>3. mFencesInFlight' \in SUBSET Nat
      BY <1>3 DEF TickLost, TypeOK
    <2> QED
      BY <1>3, <2>1, <2>2, <2>3 DEF TypeOK, TickLost, DisconnectLost, AssumeCommandsComplete,
         AssumedSerial, MaxOf
  <1>4. CASE TickInternal
    <2>1. depth' \in 0..MaxDepth /\ frame' \in [Depths -> [op : FrameOps, at : {"Code", "Callback"}]]
      BY <1>4, TypeStack DEF TickInternal, FrameOps
    <2>2. UNCHANGED <<gpuLost, taskVars>>
      BY <1>4 DEF TickInternal
    <2>3. \E c : \E handedOver \in BOOLEAN : DisconnectInternal(c, RecordingWork, handedOver)
      BY <1>4, Zenon DEF TickInternal
    <2> QED
      BY <2>1, <2>2, <2>3, TypeDisconnect
  <1> QED
    BY <1>1, <1>2, <1>3, <1>4

(* Every API call preserves the types.                                     *)
LEMMA TypeApiCall == TypeOK /\ ApiCall => TypeOK'
  <1> SUFFICES ASSUME TypeOK, ApiCall, orderly' \in BOOLEAN PROVE TypeOK'
    BY TypeOrderly
  <1> USE DEF deviceVars, serialVars, gpuVars, taskVars, handleVars, stackVars
  <1>1. ASSUME NEW w \in Work, WriteBuffer(w) PROVE TypeOK'
    <2>1. CASE Fail
      BY <2>1, TypeFail
    <2>2. CASE mRecordingContext = "Ready"
      <3>1. mFutureSerial' \in Nat
        BY <1>1, <2>2 DEF TypeOK, WriteBuffer, AddFutureSerial, MaxOf, GetPendingCommandSerial
      <3> QED
        BY <1>1, <2>2, <3>1 DEF TypeOK, WriteBuffer, WorkStates
    <2> QED
      BY <1>1, <2>1, <2>2 DEF WriteBuffer
  <1>2. ASSUME NEW w \in Work, UnmapAtCreation(w) PROVE TypeOK'
    <2>1. CASE Fail
      BY <2>1, TypeFail
    <2>2. CASE mRecordingContext = "Ready"
      BY <1>2, <2>2 DEF TypeOK, UnmapAtCreation, WorkStates
    <2> QED
      BY <1>2, <2>1, <2>2 DEF UnmapAtCreation
  <1>3. ASSUME NEW t \in Tasks, OnSubmittedWorkDone(t) PROVE TypeOK'
    BY <1>3 DEF TypeOK, OnSubmittedWorkDone, TaskStates, AddFutureSerial, MaxOf,
       GetPendingCommandSerial, PendingWork, WorkIn
  <1>4. ASSUME NEW h \in Handles, DeleteWhenUnused(h) PROVE TypeOK'
    BY <1>4 DEF TypeOK, DeleteWhenUnused, HandleStates, GetPendingCommandSerial, PendingWork, WorkIn
  <1>5. ASSUME NEW w \in Work, Submit(w) PROVE TypeOK'
    BY <1>5, TypeTick DEF Submit, CanCall
  <1>6. CASE APITick
    BY <1>6, TypeTick DEF APITick, CanCall
  <1>7. CASE LoseForTesting
    <2>1. depth' \in 0..MaxDepth /\ frame' \in [Depths -> [op : FrameOps, at : {"Code", "Callback"}]]
      BY <1>7, TypeStack DEF LoseForTesting, FrameOps, CanCall
    <2> QED
      BY <1>7, <2>1, TypeDisconnect DEF LoseForTesting
  <1>8. CASE Destroy
    <2>1. depth' \in 0..MaxDepth /\ frame' \in [Depths -> [op : FrameOps, at : {"Code", "Callback"}]]
      BY <1>8, TypeStack DEF Destroy, FrameOps, CanCall
    <2> QED
      BY <1>8, <2>1 DEF TypeOK, Destroy
  <1> QED
    BY <1>1, <1>2, <1>3, <1>4, <1>5, <1>6, <1>7, <1>8 DEF ApiCall

(* So does every later step of a call.                                     *)
LEMMA TypeStackStep == TypeOK /\ StackStep => TypeOK'
  <1> SUFFICES ASSUME TypeOK, StackStep PROVE TypeOK'
    OBVIOUS
  <1> USE DEF deviceVars, serialVars, gpuVars, taskVars, handleVars, Running
  <1> DEFINE StackOK == /\ depth' \in 0..MaxDepth
                        /\ frame' \in [Depths -> [op : FrameOps, at : {"Code", "Callback"}]]
  <1>1. ASSUME NEW t \in Tasks, FinishTask(t) PROVE TypeOK'
    <2>1. StackOK
      BY <1>1, TypeStack DEF FinishTask, FrameOps
    <2> QED
      BY <1>1, <2>1 DEF TypeOK, FinishTask, TaskStates
  <1>2. ASSUME NEW t \in Tasks, LoseTask(t) PROVE TypeOK'
    <2>1. StackOK
      BY <1>2, TypeStack DEF LoseTask, FrameOps
    <2> QED
      BY <1>2, <2>1 DEF TypeOK, LoseTask, TaskStates
  <1>3. ASSUME NEW w \in Work, SubmitRecords(w) PROVE TypeOK'
    <2>1. StackOK
      BY <1>3, TypeStack DEF SubmitRecords, SubmitContinues, FrameOps
    <2>2. /\ workState' \in [Work -> WorkStates] /\ workSerial' \in [Work -> Nat]
          /\ mFencesInFlight' \in SUBSET Nat /\ mRecordingContext' \in {"Ready", "Null"}
      BY <1>3, TypeSubmit DEF SubmitRecords, TypeOK
    <2> QED
      BY <1>3, <2>1, <2>2 DEF TypeOK, SubmitRecords
  <1>4. ASSUME NEW w \in Work, SubmitLost(w) PROVE TypeOK'
    <2>1. StackOK
      BY <1>4, TypeStack DEF SubmitLost, SubmitContinues, FrameOps
    <2> QED
      BY <1>4, <2>1 DEF TypeOK, SubmitLost, DisconnectLost, AssumeCommandsComplete,
         AssumedSerial, MaxOf, WorkStates
  <1>5. ASSUME NEW w \in Work, SubmitInternal(w) PROVE TypeOK'
    <2>1. StackOK
      BY <1>5, TypeStack DEF SubmitInternal, SubmitContinues, FrameOps
    <2> QED
      BY <1>5, <2>1, TypeDisconnect, TypeNote DEF SubmitInternal
  <1>6. CASE SubmitFails \/ LoseReturnsFails \/ DestroyFails \/ DestroyReturnsFails
    BY <1>6, TypeFail DEF SubmitFails, LoseReturnsFails, DestroyFails, DestroyReturnsFails, TypeOK
  <1>7. CASE TickReturns
    <2>1. CASE mState = "Destroyed"
      BY <1>7, <2>1, TypeFail DEF TickReturns, TypeOK
    <2>2. CASE mState # "Destroyed"
      <3>1. StackOK
        BY <1>7, <2>2, TypeStack DEF TickReturns, FrameOps
      <3> QED
        BY <1>7, <2>2, <3>1 DEF TypeOK, TickReturns
    <2> QED
      BY <2>1, <2>2
  <1>8. CASE LoseCallback \/ DestroyCallback
    <2>1. StackOK
      BY <1>8, TypeStack DEF LoseCallback, DestroyCallback, FrameOps
    <2> QED
      BY <1>8, <2>1 DEF TypeOK, LoseCallback, DestroyCallback
  <1>9. CASE LoseStartsTasks
    <2>1. StackOK
      BY <1>9, TypeStack DEF LoseStartsTasks, FrameOps
    <2> QED
      BY <1>9, <2>1 DEF TypeOK, LoseStartsTasks
  <1>10. CASE LoseReturns
    <2>1. StackOK
      BY <1>10, TypeStack DEF LoseReturns, FrameOps
    <2> QED
      BY <1>10, <2>1 DEF TypeOK, LoseReturns, TaskStates
  <1>11. CASE DestroyAlive
    <2>1. StackOK
      BY <1>11, TypeStack DEF DestroyAlive, DestroyProceeds, FrameOps
    <2>2. /\ workState' \in [Work -> WorkStates] /\ workSerial' \in [Work -> Nat]
          /\ mFencesInFlight' \in SUBSET Nat /\ mRecordingContext' \in {"Ready", "Null"}
      BY <1>11, TypeWait DEF DestroyAlive
    <2>3. depth \in 0..MaxDepth
      BY DEF TypeOK
    <2>4. /\ taskState' \in [Tasks -> TaskStates]
          /\ taskSerial' \in [Tasks -> Nat]
          /\ taskDep' \in [Tasks -> SUBSET Work]
          /\ taskFrame' \in [Tasks -> 0..MaxDepth]
      BY <1>11, <2>3, TypeExtract DEF DestroyAlive
    <2>5. mCompletedSerial' \in Nat /\ mLastSubmittedSerial' \in Nat /\ mFutureSerial' \in Nat
      BY <1>11 DEF TypeOK, DestroyAlive, AssumeCommandsComplete, AssumedSerial, MaxOf
    <2> QED
      BY <1>11, <2>1, <2>2, <2>4, <2>5 DEF TypeOK, DestroyAlive
  <1>12. CASE DestroyDisconnected
    <2>1. StackOK
      BY <1>12, TypeStack DEF DestroyDisconnected, DestroyProceeds, FrameOps
    <2>2. depth \in 0..MaxDepth
      BY DEF TypeOK
    <2>3. /\ taskState' \in [Tasks -> TaskStates]
          /\ taskSerial' \in [Tasks -> Nat]
          /\ taskDep' \in [Tasks -> SUBSET Work]
          /\ taskFrame' \in [Tasks -> 0..MaxDepth]
      BY <1>12, <2>2, TypeExtract DEF DestroyDisconnected
    <2> QED
      BY <1>12, <2>1, <2>3 DEF TypeOK, DestroyDisconnected
  <1>13. CASE DestroyReturns
    <2>1. StackOK
      BY <1>13, TypeStack DEF DestroyReturns, FrameOps
    <2>2. mLastSubmittedSerial + 1 \in Nat
      BY DEF TypeOK
    <2>3. workState' \in [Work -> WorkStates] /\ workSerial' \in [Work -> Nat]
      BY <1>13, <2>2 DEF TypeOK, DestroyReturns, WorkStates
    <2>4. mCompletedSerial' \in Nat /\ mLastSubmittedSerial' \in Nat
      BY <1>13, <2>2 DEF TypeOK, DestroyReturns, AssumedSerial, MaxOf
    <2>5. handleState' \in [Handles -> HandleStates]
      BY <1>13 DEF TypeOK, DestroyReturns, HandleStates
    <2> QED
      BY <1>13, <2>1, <2>3, <2>4, <2>5 DEF TypeOK, DestroyReturns
  <1> QED
    BY <1>1, <1>2, <1>3, <1>4, <1>5, <1>6, <1>7, <1>8, <1>9, <1>10, <1>11, <1>12, <1>13
    DEF StackStep

(* The GPU's steps too.                                                    *)
LEMMA TypeGpu == TypeOK /\ (GpuExecute \/ GpuLoss) => TypeOK'
  <1> USE DEF deviceVars, serialVars, taskVars, handleVars, stackVars
  <1>1. TypeOK /\ GpuExecute => TypeOK'
    BY DEF TypeOK, GpuExecute, WorkStates
  <1>2. TypeOK /\ GpuLoss => TypeOK'
    BY DEF TypeOK, GpuLoss, WorkStates
  <1> QED
    BY <1>1, <1>2

LEMMA TypeStep == TypeOK /\ [Next]_vars => TypeOK'
  <1>1. TypeOK /\ UNCHANGED vars => TypeOK'
    BY DEF TypeOK, vars, deviceVars, serialVars, gpuVars, taskVars, handleVars, stackVars
  <1> QED
    BY <1>1, TypeApiCall, TypeStackStep, TypeGpu DEF Next

(* Type correctness: in every state a device can reach, the serials are    *)
(* naturals, the stack of calls is within its bound and every task, handle *)
(* and unit of work is in one of its states.                               *)
THEOREM TypeCorrect == Spec => []TypeOK
  BY TypeInit, TypeStep, PTL DEF Spec

-----------------------------------------------------------------------------
(* TimelineInv is inductive: one lemma for each kind of step.              *)

(* It holds initially: nothing is recorded, nobody waits.                  *)
LEMMA InvInit == Init => TimelineInv
  BY DEF Init, TimelineInv, FenceInv, DependenciesRecorded, WaitersCover, TasksAhead,
     NoEarlySuccess, LiveDeletions, DeletedOnlyWhenUnused, Covers

(* It does not depend on the stack of calls, the device-lost callback or   *)
(* the assertions.                                                         *)
LEMMA InvUnchanged ==
    ASSUME TimelineInv,
           UNCHANGED <<mState, serialVars, gpuVars, gpuLost, taskVars, handleVars>>
    PROVE  TimelineInv'
  BY DEF TimelineInv, FenceInv, DependenciesRecorded, WaitersCover, TasksAhead,
     NoEarlySuccess, LiveDeletions, DeletedOnlyWhenUnused, Covers, serialVars, gpuVars,
     taskVars, handleVars

(* A task leaves the queue or a frame: Extracted tasks may succeed, tasks  *)
(* in flight may be told that the device is lost.                          *)
LEMMA InvTaskStep ==
    ASSUME TypeOK, TimelineInv,
           UNCHANGED <<mState, serialVars, gpuVars, gpuLost, taskSerial, taskDep, handleVars>>,
           \A t \in Tasks : /\ taskState'[t] = "InFlight" => taskState[t] = "InFlight"
                            /\ taskState'[t] \in {"Extracted", "Success"} =>
                                    taskState[t] \in {"Extracted", "Success"}
    PROVE  TimelineInv'
  BY DEF TimelineInv, FenceInv, DependenciesRecorded, WaitersCover, TasksAhead,
     NoEarlySuccess, LiveDeletions, DeletedOnlyWhenUnused, Covers, serialVars, gpuVars,
     handleVars, TypeOK

(* OnSubmittedWorkDone: the pending serial covers all pending work.        *)
LEMMA InvOnSubmittedWorkDone ==
    ASSUME TypeOK, TimelineInv, NEW t \in Tasks, OnSubmittedWorkDone(t)
    PROVE  TimelineInv'
  <1> USE DEF deviceVars, gpuVars, handleVars
  <1>1. FenceInv'
    BY DEF OnSubmittedWorkDone, TimelineInv, FenceInv
  <1>2. DependenciesRecorded'
    BY DEF OnSubmittedWorkDone, TimelineInv, DependenciesRecorded, PendingWork, WorkIn, TypeOK
  <1>3. WaitersCover'
    BY DEF OnSubmittedWorkDone, TimelineInv, FenceInv, WaitersCover, Covers, PendingWork, WorkIn,
       GetPendingCommandSerial, TypeOK
  <1>4. TasksAhead'
    BY DEF OnSubmittedWorkDone, TimelineInv, FenceInv, TasksAhead, AddFutureSerial, MaxOf,
       GetPendingCommandSerial, TypeOK
  <1>5. NoEarlySuccess' /\ LiveDeletions'
    BY DEF OnSubmittedWorkDone, TimelineInv, NoEarlySuccess, LiveDeletions,
       DeletedOnlyWhenUnused, TypeOK
  <1> QED
    BY <1>1, <1>2, <1>3, <1>4, <1>5 DEF TimelineInv

(* DeleteWhenUnused: likewise.                                             *)
LEMMA InvDeleteWhenUnused ==
    ASSUME TypeOK, TimelineInv, NEW h \in Handles, DeleteWhenUnused(h)
    PROVE  TimelineInv'
  <1> USE DEF deviceVars, serialVars, gpuVars, taskVars
  <1>1. FenceInv' /\ TasksAhead'
    BY DEF DeleteWhenUnused, TimelineInv, FenceInv, TasksAhead
  <1>2. DependenciesRecorded'
    BY DEF DeleteWhenUnused, TimelineInv, DependenciesRecorded, PendingWork, WorkIn, TypeOK
  <1>3. WaitersCover'
    BY DEF DeleteWhenUnused, TimelineInv, FenceInv, WaitersCover, Covers, PendingWork, WorkIn,
       GetPendingCommandSerial, TypeOK
  <1>4. NoEarlySuccess' /\ LiveDeletions'
    BY DEF DeleteWhenUnused, TimelineInv, NoEarlySuccess, LiveDeletions,
       DeletedOnlyWhenUnused, TypeOK
  <1> QED
    BY <1>1, <1>2, <1>3, <1>4 DEF TimelineInv

(* New work is recorded or encoded: nobody waits for it yet.               *)
LEMMA InvNewWork ==
    ASSUME TypeOK, TimelineInv,
           UNCHANGED <<mState, mCompletedSerial, mLastSubmittedSerial, mFencesInFlight, workSerial,
                       gpuLost, taskVars, handleVars>>,
           mFutureSerial' \in Nat, mFutureSerial <= mFutureSerial',
           \A w \in Work : \/ workState'[w] = workState[w]
                           \/ /\ workState[w] \in {"Unused", "Encoded"}
                              /\ workState'[w] \in {"Encoded", "Recording"}
    PROVE  TimelineInv'
  <1> USE DEF taskVars, handleVars
  <1>1. \A t \in Tasks : \A w \in taskDep[t] : w \in Work /\ workState'[w] = workState[w]
    BY DEF TimelineInv, DependenciesRecorded, TypeOK
  <1>2. \A h \in Handles : \A w \in handleDep[h] : w \in Work /\ workState'[w] = workState[w]
    BY DEF TimelineInv, DependenciesRecorded, TypeOK
  <1>3. FenceInv'
    BY DEF TimelineInv, FenceInv
  <1>4. DependenciesRecorded' /\ WaitersCover'
    BY <1>1, <1>2 DEF TimelineInv, DependenciesRecorded, WaitersCover, Covers
  <1>5. TasksAhead'
    BY DEF TimelineInv, TasksAhead, TypeOK
  <1>6. NoEarlySuccess' /\ LiveDeletions'
    BY <1>1, <1>2 DEF TimelineInv, NoEarlySuccess, LiveDeletions, DeletedOnlyWhenUnused
  <1> QED
    BY <1>3, <1>4, <1>5, <1>6 DEF TimelineInv

(* HandleError for a lost device: nothing runs on a lost GPU.              *)
LEMMA InvLost ==
    ASSUME TypeOK, TimelineInv, gpuLost, gpuLost', DisconnectLost,
           mFencesInFlight' \subseteq mFencesInFlight,
           UNCHANGED <<workSerial, taskVars, handleSerial, handleDep>>,
           \A w \in Work : \/ workState'[w] = workState[w]
                           \/ workState[w] = "Encoded" /\ workState'[w] = "Recording",
           \A h \in Handles : \/ handleState'[h] = handleState[h]
                              \/ handleState[h] = "Queued" /\ handleState'[h] = "Deleted"
    PROVE  TimelineInv'
  <1> USE DEF taskVars, DisconnectLost, AssumeCommandsComplete
  <1>1. \A w \in Work : workState[w] # "Submitted" /\ workState'[w] # "Submitted"
    BY DEF TimelineInv, FenceInv
  <1>2. mLastSubmittedSerial <= mLastSubmittedSerial' /\ mCompletedSerial' = mLastSubmittedSerial'
    BY DEF AssumedSerial, MaxOf, TypeOK
  <1>3. mLastSubmittedSerial \in Nat /\ mLastSubmittedSerial' \in Nat
    BY DEF AssumedSerial, MaxOf, TypeOK
  <1>4. FenceInv'
    BY <1>1, <1>2, <1>3 DEF TimelineInv, FenceInv, TypeOK
  <1>5. DependenciesRecorded'
    BY DEF TimelineInv, DependenciesRecorded, TypeOK
  <1>6. WaitersCover' /\ TasksAhead'
    BY <1>1 DEF WaitersCover, Covers, TasksAhead, TypeOK
  <1>7. NoEarlySuccess' /\ LiveDeletions'
    BY <1>1 DEF TimelineInv, NoEarlySuccess, LiveDeletions, DeletedOnlyWhenUnused, TypeOK
  <1> QED
    BY <1>4, <1>5, <1>6, <1>7 DEF TimelineInv

(* After WaitForIdleForDestruction no work is recorded or on the GPU, so   *)
(* that nothing can be too early, whatever is extracted or deleted.        *)
LEMMA InvIdle ==
    ASSUME TypeOK, TimelineInv, NEW recorded, NEW handedOver,
           RecordingWork \subseteq recorded,
           \A w \in recorded : w \in Work => workState[w] \in {"Recording", "Encoded"},
           WaitForIdleForDestruction(recorded, handedOver),
           UNCHANGED <<gpuLost, taskSerial, taskDep, handleSerial, handleDep>>,
           mCompletedSerial' \in Nat, mLastSubmittedSerial' \in Nat,
           mCompletedSerial' = mLastSubmittedSerial',
           TasksAhead'
    PROVE  TimelineInv'
  <1>1. \A w \in Work : workState'[w] \notin {"Submitted", "Recording"}
    BY DEF WaitForIdleForDestruction, RecordingWork, WorkIn, TypeOK
  <1>2. FenceInv'
    BY <1>1 DEF FenceInv, WaitForIdleForDestruction
  <1>3. \A w \in Work : workState[w] \notin {"Unused", "Encoded"} =>
                        workState'[w] \notin {"Unused", "Encoded"}
    BY DEF WaitForIdleForDestruction, TypeOK
  <1>4. DependenciesRecorded'
    BY <1>3 DEF TimelineInv, DependenciesRecorded, TypeOK
  <1>5. WaitersCover'
    BY <1>1 DEF WaitersCover, Covers, TypeOK
  <1>6. NoEarlySuccess' /\ LiveDeletions'
    BY <1>1 DEF NoEarlySuccess, LiveDeletions, DeletedOnlyWhenUnused, TypeOK
  <1> QED
    BY <1>2, <1>4, <1>5, <1>6 DEF TimelineInv

(* HandleError for an internal error is such a step.                       *)
LEMMA InvInternal ==
    ASSUME TypeOK, TimelineInv, NEW completed, NEW recorded, NEW handedOver \in BOOLEAN,
           RecordingWork \subseteq recorded,
           \A w \in recorded : w \in Work => workState[w] \in {"Recording", "Encoded"},
           UNCHANGED <<gpuLost, taskVars>>,
           DisconnectInternal(completed, recorded, handedOver)
    PROVE  TimelineInv'
  <1>1. TasksAhead'
    BY DEF DisconnectInternal, TasksAhead
  <1>2. /\ mCompletedSerial' \in Nat /\ mLastSubmittedSerial' \in Nat
        /\ mCompletedSerial' = mLastSubmittedSerial'
    BY DEF DisconnectInternal, AssumedSerial, MaxOf, TypeOK
  <1> QED
    BY <1>1, <1>2, InvIdle DEF DisconnectInternal, DeleteUpTo, taskVars

(* Submit: the recorded work gets the serial its waiters wait for.         *)
LEMMA InvSubmitRecords ==
    ASSUME TypeOK, TimelineInv, NEW v \in Work, SubmitRecords(v)
    PROVE  TimelineInv'
  <1> DEFINE recorded == RecordingWork \cup {v}
  <1> USE DEF deviceVars, taskVars, handleVars
  <1>1. /\ \A w \in Work : workState'[w] = IF w \in recorded THEN "Submitted" ELSE workState[w]
        /\ \A w \in Work : workSerial'[w] = IF w \in recorded THEN mLastSubmittedSerial + 1
                                                              ELSE workSerial[w]
        /\ mFencesInFlight' = mFencesInFlight \cup {mLastSubmittedSerial + 1}
        /\ mLastSubmittedSerial' = mLastSubmittedSerial + 1
        /\ ~gpuLost /\ ~gpuLost'
    BY DEF SubmitRecords, SubmitPendingCommands
  <1>2. UNCHANGED <<mState, mCompletedSerial, mFutureSerial, taskVars, handleVars>>
    BY DEF SubmitRecords
  <1>3. workState[v] = "Encoded"
    BY DEF SubmitRecords, SubmitContinues
  <1>4. \A w \in Work : w \in recorded <=> workState[w] = "Recording" \/ w = v
    BY DEF RecordingWork, WorkIn
  <1> HIDE DEF recorded
  <1>5. mLastSubmittedSerial \in Nat /\ mCompletedSerial \in Nat
    BY DEF TypeOK
  <1>6. FenceInv'
    BY <1>1, <1>2, <1>5 DEF TimelineInv, FenceInv, TypeOK
  <1>7. \A t \in Tasks : \A w \in taskDep[t] :
          w \in Work /\ w # v /\ workState[w] \notin {"Unused", "Encoded"}
    BY <1>3 DEF TimelineInv, DependenciesRecorded, TypeOK
  <1>8. \A h \in Handles : \A w \in handleDep[h] :
          w \in Work /\ w # v /\ workState[w] \notin {"Unused", "Encoded"}
    BY <1>3 DEF TimelineInv, DependenciesRecorded, TypeOK
  <1>9. DependenciesRecorded' /\ TasksAhead'
    BY <1>1, <1>2, <1>7, <1>8 DEF TimelineInv, DependenciesRecorded, TasksAhead
  <1>10. ASSUME NEW serial \in Nat, NEW w \in Work, w # v, Covers(serial, w)
         PROVE  Covers(serial, w)'
    BY <1>1, <1>4, <1>5, <1>10 DEF Covers, TypeOK
  <1>11. WaitersCover'
    BY <1>2, <1>7, <1>8, <1>10 DEF TimelineInv, WaitersCover, TypeOK
  <1>12. NoEarlySuccess' /\ LiveDeletions'
    BY <1>1, <1>2, <1>4, <1>7, <1>8 DEF TimelineInv, NoEarlySuccess, LiveDeletions,
       DeletedOnlyWhenUnused
  <1> QED
    BY <1>6, <1>9, <1>11, <1>12 DEF TimelineInv

(* What Tick, Destroy and the GPU do to those who wait: a task or a handle *)
(* whose serial has completed waited for nothing still to be executed.     *)
LEMMA InvWaiters ==
    ASSUME TypeOK, TimelineInv, mState # "Destroyed",
           mCompletedSerial' \in Nat, mLastSubmittedSerial' \in Nat,
           mCompletedSerial' <= mLastSubmittedSerial',
           UNCHANGED <<gpuLost, taskSerial, taskDep, handleSerial, handleDep>>,
           \A w \in Work : workState[w] \notin {"Unused", "Encoded"} =>
                /\ workState'[w] \notin {"Unused", "Encoded"}
                /\ workState'[w] = "Recording" =>
                        /\ workState[w] = "Recording"
                        /\ gpuLost \/ mLastSubmittedSerial' = mLastSubmittedSerial
                /\ workState'[w] = "Submitted" =>
                        /\ mCompletedSerial' < workSerial'[w] /\ workSerial'[w] \in Nat
                        /\ \/ workState[w] = "Submitted" /\ workSerial'[w] = workSerial[w]
                           \/ /\ workState[w] = "Recording" /\ ~gpuLost
                              /\ workSerial'[w] = mLastSubmittedSerial + 1,
           \A t \in Tasks : taskState'[t] \in {"InFlight", "Extracted", "Success"} =>
                \/ taskState'[t] = taskState[t]
                \/ /\ taskState[t] = "InFlight" /\ taskState'[t] = "Extracted"
                   /\ taskSerial[t] <= mCompletedSerial',
           \A h \in Handles :
                \/ handleState'[h] = handleState[h]
                \/ /\ handleState[h] = "Queued" /\ handleState'[h] = "Deleted"
                   /\ handleSerial[h] <= mCompletedSerial'
    PROVE  DependenciesRecorded' /\ WaitersCover' /\ NoEarlySuccess' /\ LiveDeletions'
  <1>1. \A t \in Tasks : \A w \in taskDep[t] : w \in Work /\ workState[w] \notin {"Unused", "Encoded"}
    BY DEF TimelineInv, DependenciesRecorded, TypeOK
  <1>2. \A h \in Handles : \A w \in handleDep[h] : w \in Work /\ workState[w] \notin {"Unused", "Encoded"}
    BY DEF TimelineInv, DependenciesRecorded, TypeOK
  <1>3. DependenciesRecorded'
    BY <1>1, <1>2 DEF DependenciesRecorded
  <1>4. ASSUME NEW serial \in Nat, NEW w \in Work, workState[w] \notin {"Unused", "Encoded"},
               Covers(serial, w)
        PROVE  /\ Covers(serial, w)'
               /\ serial <= mCompletedSerial' => /\ workState'[w] # "Submitted"
                                                 /\ workState'[w] = "Recording" => gpuLost'
    <2>1. mLastSubmittedSerial \in Nat /\ workSerial[w] \in Nat
      BY DEF TypeOK
    <2>2. workState'[w] = "Submitted" => workSerial'[w] <= serial /\ mCompletedSerial' < workSerial'[w]
                                         /\ workSerial'[w] \in Nat
      BY <1>4, <2>1 DEF Covers
    <2>3. workState'[w] = "Recording" => serial > mLastSubmittedSerial' \/ gpuLost'
      BY <1>4, <2>1 DEF Covers
    <2> QED
      BY <2>1, <2>2, <2>3 DEF Covers
  <1>5. /\ \A t \in Tasks : taskState[t] = "InFlight" => \A w \in taskDep[t] : Covers(taskSerial[t], w)
        /\ \A h \in Handles : handleState[h] = "Queued" =>
                \A w \in handleDep[h] : Covers(handleSerial[h], w)
        /\ \A t \in Tasks : taskSerial[t] \in Nat
        /\ \A h \in Handles : handleSerial[h] \in Nat
    BY DEF TimelineInv, WaitersCover, TypeOK
  <1>6. \A t \in Tasks : taskState[t] = "InFlight" => \A w \in taskDep[t] :
          /\ Covers(taskSerial[t], w)'
          /\ taskSerial[t] <= mCompletedSerial' => /\ workState'[w] # "Submitted"
                                                   /\ workState'[w] = "Recording" => gpuLost'
    BY <1>1, <1>4, <1>5
  <1>7. \A h \in Handles : handleState[h] = "Queued" => \A w \in handleDep[h] :
          /\ Covers(handleSerial[h], w)'
          /\ handleSerial[h] <= mCompletedSerial' => /\ workState'[w] # "Submitted"
                                                     /\ workState'[w] = "Recording" => gpuLost'
    BY <1>2, <1>4, <1>5
  <1>8. WaitersCover'
    <2>1. \A t \in Tasks : taskState'[t] = "InFlight" => taskState[t] = "InFlight"
      OBVIOUS
    <2>2. \A h \in Handles : handleState'[h] = "Queued" => handleState[h] = "Queued"
      OBVIOUS
    <2> QED
      BY <1>6, <1>7, <2>1, <2>2 DEF WaitersCover
  <1>9. NoEarlySuccess'
    BY <1>1, <1>6 DEF TimelineInv, NoEarlySuccess
  <1>10. LiveDeletions'
    BY <1>2, <1>7 DEF TimelineInv, LiveDeletions, DeletedOnlyWhenUnused
  <1> QED
    BY <1>3, <1>8, <1>9, <1>10

(* Tick: the fences that have passed cover executed work only; what is     *)
(* still on the GPU, and what Tick submits, is beyond the completed serial. *)
LEMMA InvTickPasses ==
    ASSUME TypeOK, TimelineInv, mState = "Alive", NEW op, NEW encoded \in SUBSET Work,
           \A w \in encoded : workState[w] = "Unused",
           TickPasses(op, encoded)
    PROVE  TimelineInv'
  <1> DEFINE last == IF RecordingWork = {} THEN mLastSubmittedSerial ELSE mLastSubmittedSerial + 1
  <1> USE DEF deviceVars
  <1>1. PICK c \in PassedFences \cup {mCompletedSerial} :
          LET completed == IF c = last THEN AssumedSerial(last) ELSE c
          IN  /\ CheckPassedSerials(c)
              /\ RecordingWork # {} => ~gpuLost
              /\ DeleteUpTo(c)
              /\ SubmitPendingCommands(RecordingWork, Encode(encoded),
                                       mFencesInFlight \ PassedFences)
              /\ mCompletedSerial' = completed
              /\ mLastSubmittedSerial' = IF c = last THEN completed ELSE last
              /\ ExtractTasks(completed, depth + 1)
    BY DEF TickPasses
  <1>2. UNCHANGED <<mState, mFutureSerial, gpuLost>>
    BY DEF TickPasses
  <1>3. c \in Nat /\ c <= mLastSubmittedSerial /\ mCompletedSerial <= c
        /\ mLastSubmittedSerial \in Nat /\ mCompletedSerial \in Nat /\ mFutureSerial \in Nat
    BY <1>1 DEF PassedFences, CheckPassedSerials, TimelineInv, FenceInv, TypeOK
  <1>4. \A w \in Work : w \in RecordingWork <=> workState[w] = "Recording"
    BY DEF RecordingWork, WorkIn
  <1>5. \A w \in Work : workState[w] = "Submitted" =>
          workSerial[w] \in mFencesInFlight \ PassedFences /\ c < workSerial[w]
    <2> SUFFICES ASSUME NEW w \in Work, workState[w] = "Submitted"
                 PROVE  workSerial[w] \in mFencesInFlight \ PassedFences /\ c < workSerial[w]
      OBVIOUS
    <2>1. workSerial[w] \in mFencesInFlight /\ mCompletedSerial < workSerial[w]
      BY DEF TimelineInv, FenceInv
    <2>2. ~FenceSignaled(workSerial[w])
      BY DEF FenceSignaled
    <2>3. workSerial[w] \in Nat /\ \A s \in mFencesInFlight : s \in Nat
      BY DEF TypeOK
    <2>4. \A s \in PassedFences : ~(workSerial[w] <= s)
      BY <2>1, <2>2 DEF PassedFences
    <2>5. workSerial[w] \notin PassedFences
      BY <2>3, <2>4
    <2>6. c < workSerial[w]
      BY <1>3, <2>1, <2>3, <2>4
    <2> QED
      BY <2>1, <2>5, <2>6
  <1>6. \A s \in mFencesInFlight \ PassedFences : s \in Nat /\ c < s /\ s <= mLastSubmittedSerial
    <2> SUFFICES ASSUME NEW s \in mFencesInFlight, s \notin PassedFences
                 PROVE  s \in Nat /\ c < s /\ s <= mLastSubmittedSerial
      OBVIOUS
    <2>1. s \in Nat /\ s <= mLastSubmittedSerial /\ mCompletedSerial < s
          /\ \A r \in mFencesInFlight : r \in Nat
      BY DEF TypeOK, TimelineInv, FenceInv
    <2>2. PICK r \in mFencesInFlight : r <= s /\ ~FenceSignaled(r)
      BY DEF PassedFences
    <2>3. ASSUME c \in PassedFences, s <= c PROVE FALSE
      <3>1. r <= c
        BY <1>3, <2>1, <2>2, <2>3
      <3> QED
        BY <2>2, <2>3, <3>1 DEF PassedFences
    <2> QED
      BY <1>3, <2>1, <2>3
  <1>7. /\ \A w \in Work : workState'[w] = IF w \in RecordingWork THEN "Submitted"
                                           ELSE IF w \in encoded THEN "Encoded" ELSE workState[w]
        /\ \A w \in Work : workSerial'[w] = IF w \in RecordingWork THEN mLastSubmittedSerial + 1
                                                                   ELSE workSerial[w]
    BY <1>1 DEF SubmitPendingCommands, Encode
  <1> DEFINE SerialFacts == /\ mCompletedSerial' \in Nat /\ mLastSubmittedSerial' \in Nat
                            /\ mCompletedSerial' <= mLastSubmittedSerial' /\ c <= mCompletedSerial'
             WorkFacts ==
               \A w \in Work : workState'[w] # "Recording" /\ (workState'[w] = "Submitted" =>
                 /\ mCompletedSerial' < workSerial'[w] /\ workSerial'[w] \in Nat
                 /\ \/ workState[w] = "Submitted" /\ workSerial'[w] = workSerial[w]
                    \/ /\ workState[w] = "Recording" /\ ~gpuLost
                       /\ workSerial'[w] = mLastSubmittedSerial + 1)
  <1>8. ASSUME RecordingWork = {} PROVE FenceInv' /\ SerialFacts /\ WorkFacts
    <2>1. mFencesInFlight' = mFencesInFlight \ PassedFences
      BY <1>1, <1>8 DEF SubmitPendingCommands
    <2>2. \/ /\ c = mLastSubmittedSerial
             /\ mCompletedSerial' = mLastSubmittedSerial' /\ mLastSubmittedSerial' \in Nat
             /\ mLastSubmittedSerial <= mLastSubmittedSerial'
             /\ mFencesInFlight' = {}
             /\ \A w \in Work : workState[w] # "Submitted"
          \/ /\ c # mLastSubmittedSerial
             /\ mCompletedSerial' = c /\ mLastSubmittedSerial' = mLastSubmittedSerial
      <3>1. CASE c = mLastSubmittedSerial
        <4>1. mCompletedSerial' = mLastSubmittedSerial' /\ mLastSubmittedSerial' \in Nat
              /\ mLastSubmittedSerial <= mLastSubmittedSerial'
          BY <1>1, <1>3, <1>8, <3>1 DEF AssumedSerial, MaxOf
        <4>2. mFencesInFlight' = {}
          BY <1>3, <1>6, <2>1, <3>1
        <4>3. \A w \in Work : workState[w] # "Submitted"
          BY <1>5, <2>1, <4>2
        <4> QED
          BY <3>1, <4>1, <4>2, <4>3
      <3>2. CASE c # mLastSubmittedSerial
        BY <1>1, <1>8, <3>2
      <3> QED
        BY <3>1, <3>2
    <2>3. \A w \in Work : workState'[w] # "Recording" /\ (workState'[w] = "Submitted" =>
            workState[w] = "Submitted" /\ workSerial'[w] = workSerial[w]
            /\ mCompletedSerial' < workSerial[w])
      BY <1>4, <1>5, <1>7, <1>8, <2>2
    <2>4. FenceInv'
      BY <1>2, <1>3, <1>5, <1>6, <2>1, <2>2, <2>3 DEF TimelineInv, FenceInv
    <2> QED
      BY <1>3, <2>2, <2>3, <2>4 DEF TypeOK
  <1>9. ASSUME RecordingWork # {} PROVE FenceInv' /\ SerialFacts /\ WorkFacts
    <2>1. /\ mFencesInFlight' = (mFencesInFlight \ PassedFences) \cup {mLastSubmittedSerial + 1}
          /\ ~gpuLost
      BY <1>1, <1>9 DEF SubmitPendingCommands
    <2>2. mCompletedSerial' = c /\ mLastSubmittedSerial' = mLastSubmittedSerial + 1
      BY <1>1, <1>3, <1>9
    <2>3. \A w \in Work : workState'[w] # "Recording" /\ (workState'[w] = "Submitted" =>
            /\ mCompletedSerial' < workSerial'[w] /\ workSerial'[w] \in mFencesInFlight'
            /\ \/ workState[w] = "Submitted" /\ workSerial'[w] = workSerial[w]
               \/ workState[w] = "Recording" /\ workSerial'[w] = mLastSubmittedSerial + 1)
      BY <1>3, <1>4, <1>5, <1>7, <2>1, <2>2
    <2>4. FenceInv'
      BY <1>2, <1>3, <1>6, <2>1, <2>2, <2>3 DEF FenceInv
    <2> QED
      BY <1>3, <2>1, <2>2, <2>3, <2>4 DEF TypeOK
  <1>10. FenceInv' /\ SerialFacts /\ WorkFacts
    BY <1>8, <1>9
  <1> HIDE DEF last
  <1>11. /\ UNCHANGED <<taskSerial, taskDep, handleSerial, handleDep>>
         /\ \A t \in Tasks : taskState'[t] = IF taskState[t] = "InFlight"
                                               /\ taskSerial[t] <= mCompletedSerial'
                                              THEN "Extracted" ELSE taskState[t]
         /\ \A h \in Handles : handleState'[h] = IF handleState[h] = "Queued" /\ handleSerial[h] <= c
                                                   THEN "Deleted" ELSE handleState[h]
    BY <1>1 DEF ExtractTasks, DeleteUpTo
  <1>12. TasksAhead'
    BY <1>2, <1>10, <1>11 DEF TimelineInv, TasksAhead, TypeOK
  <1>13. \A w \in Work : workState[w] \notin {"Unused", "Encoded"} =>
                         workState'[w] \notin {"Unused", "Encoded"}
    BY <1>7 DEF TypeOK
  <1>14. \A h \in Handles : \/ handleState'[h] = handleState[h]
                            \/ /\ handleState[h] = "Queued" /\ handleState'[h] = "Deleted"
                               /\ handleSerial[h] <= mCompletedSerial'
    BY <1>3, <1>10, <1>11 DEF TypeOK
  <1>15. DependenciesRecorded' /\ WaitersCover' /\ NoEarlySuccess' /\ LiveDeletions'
    BY <1>2, <1>10, <1>11, <1>13, <1>14, InvWaiters
  <1> QED
    BY <1>10, <1>12, <1>15 DEF TimelineInv

(* Destroy: an alive device has been waited for; a disconnected one has    *)
(* completed all it submitted, which Destroy asserts.                      *)
LEMMA InvDestroyAlive ==
    ASSUME TypeOK, TimelineInv, DestroyAlive
    PROVE  TimelineInv'
  <1>1. /\ mCompletedSerial' \in Nat /\ mLastSubmittedSerial' \in Nat
        /\ mCompletedSerial' = mLastSubmittedSerial'
        /\ mCompletedSerial' = AssumedSerial(mLastSubmittedSerial)
        /\ mFutureSerial' = mFutureSerial
    BY DEF DestroyAlive, AssumeCommandsComplete, AssumedSerial, MaxOf, TypeOK
  <1>2. /\ UNCHANGED <<gpuLost, mState, taskSerial, taskDep, handleSerial, handleDep>>
        /\ \A t \in Tasks : taskState'[t] = IF taskState[t] = "InFlight"
                                              /\ taskSerial[t] <= mCompletedSerial'
                                             THEN "Extracted" ELSE taskState[t]
    BY <1>1 DEF DestroyAlive, ExtractTasks, handleVars
  <1>3. TasksAhead'
    BY <1>1, <1>2 DEF TimelineInv, TasksAhead, TypeOK
  <1>4. \A w \in RecordingWork : w \in Work => workState[w] \in {"Recording", "Encoded"}
    BY DEF RecordingWork, WorkIn
  <1> QED
    BY <1>1, <1>2, <1>3, <1>4, InvIdle DEF DestroyAlive

LEMMA InvDestroyDisconnected ==
    ASSUME TypeOK, TimelineInv, DestroyDisconnected
    PROVE  TimelineInv'
  <1> USE DEF gpuVars, serialVars, handleVars
  <1>1. /\ mState = "Disconnected" /\ mState' = mState
        /\ UNCHANGED <<serialVars, gpuVars, gpuLost, handleVars>>
        /\ ExtractTasks(mCompletedSerial, depth)
    BY DEF DestroyDisconnected, DestroyAsserts
  <1>2. FenceInv' /\ TasksAhead'
    BY <1>1 DEF TimelineInv, FenceInv, TasksAhead
  <1>3. /\ mCompletedSerial \in Nat /\ mLastSubmittedSerial \in Nat
        /\ mCompletedSerial <= mLastSubmittedSerial
        /\ \A w \in Work : workSerial[w] \in Nat
        /\ \A w \in Work : workState[w] = "Submitted" => mCompletedSerial < workSerial[w]
    BY <1>1 DEF TypeOK, TimelineInv, FenceInv
  <1>4. /\ UNCHANGED <<taskSerial, taskDep>>
        /\ \A t \in Tasks : taskState'[t] = IF taskState[t] = "InFlight"
                                              /\ taskSerial[t] <= mCompletedSerial'
                                             THEN "Extracted" ELSE taskState[t]
    BY <1>1 DEF ExtractTasks
  <1>5. DependenciesRecorded' /\ WaitersCover' /\ NoEarlySuccess' /\ LiveDeletions'
    BY <1>1, <1>3, <1>4, InvWaiters
  <1> QED
    BY <1>2, <1>5 DEF TimelineInv

(* The end of Destroy can only submit work that nobody was answered for.   *)
LEMMA InvDestroyReturns ==
    ASSUME TypeOK, TimelineInv, DestroyReturns
    PROVE  TimelineInv'
  <1>1. /\ mState' = "Destroyed" /\ mFencesInFlight' = {}
        /\ UNCHANGED <<gpuLost, taskVars, handleDep>>
        /\ \A w \in Work :
             /\ workState'[w] # "Recording"
             /\ workState'[w] = "Submitted" => \/ workState[w] = "Submitted"
                                               \/ workState[w] = "Recording" /\ ~gpuLost
             /\ workState[w] \notin {"Unused", "Encoded"} => workState'[w] \notin {"Unused", "Encoded"}
    BY DEF DestroyReturns, RecordingWork, WorkIn, TypeOK
  <1>2. mCompletedSerial' = mLastSubmittedSerial' /\ mLastSubmittedSerial' \in Nat
    BY DEF DestroyReturns, AssumedSerial, MaxOf, TypeOK
  <1>3. FenceInv'
    BY <1>1, <1>2 DEF TimelineInv, FenceInv
  <1>4. DependenciesRecorded'
    BY <1>1 DEF TimelineInv, DependenciesRecorded, TypeOK, taskVars
  <1>5. NoEarlySuccess'
    BY <1>1 DEF TimelineInv, NoEarlySuccess, TypeOK, taskVars
  <1> QED
    BY <1>1, <1>3, <1>4, <1>5 DEF TimelineInv, WaitersCover, TasksAhead, LiveDeletions

(* The GPU only ever takes work off the GPU.                               *)
LEMMA InvGpu ==
    ASSUME TypeOK, TimelineInv, GpuExecute \/ GpuLoss
    PROVE  TimelineInv'
  <1> USE DEF deviceVars, serialVars, taskVars, handleVars
  <1>1. /\ UNCHANGED <<mState, serialVars, mFencesInFlight, workSerial, taskVars, handleVars>>
        /\ gpuLost => gpuLost'
        /\ gpuLost' => gpuLost \/ \A w \in Work : workState'[w] # "Submitted"
        /\ \A w \in Work : \/ workState'[w] = workState[w]
                            \/ /\ workState[w] = "Submitted"
                               /\ workState'[w] \in {"Executed", "Abandoned"}
    BY DEF GpuExecute, GpuLoss, TypeOK
  <1>2. FenceInv' /\ TasksAhead'
    BY <1>1 DEF TimelineInv, FenceInv, TasksAhead
  <1>3. DependenciesRecorded' /\ WaitersCover'
    BY <1>1 DEF TimelineInv, DependenciesRecorded, WaitersCover, Covers, TypeOK
  <1>4. NoEarlySuccess' /\ LiveDeletions'
    BY <1>1 DEF TimelineInv, NoEarlySuccess, LiveDeletions, DeletedOnlyWhenUnused, TypeOK
  <1> QED
    BY <1>2, <1>3, <1>4 DEF TimelineInv

(* The Tick of APITick and Submit, in all its outcomes.                    *)
LEMMA InvTick ==
    ASSUME TypeOK, TimelineInv, mState = "Alive", NEW op, NEW encoded \in SUBSET Work,
           \A w \in encoded : workState[w] = "Unused",
           TickSkipped(op, encoded) \/ TickPasses(op, encoded) \/ TickLost \/ TickInternal
    PROVE  TimelineInv'
  <1>1. CASE TickSkipped(op, encoded)
    <2>1. mFutureSerial' = mFutureSerial /\ mFutureSerial \in Nat
      BY <1>1 DEF TickSkipped, serialVars, TypeOK
    <2>2. UNCHANGED <<mState, mCompletedSerial, mLastSubmittedSerial, mFencesInFlight, workSerial,
                      gpuLost, taskVars, handleVars>>
      BY <1>1 DEF TickSkipped, deviceVars, serialVars
    <2>3. \A w \in Work : \/ workState'[w] = workState[w]
                          \/ /\ workState[w] \in {"Unused", "Encoded"}
                             /\ workState'[w] \in {"Encoded", "Recording"}
      BY <1>1 DEF TickSkipped, Encode
    <2> QED
      BY <2>1, <2>2, <2>3, InvNewWork
  <1>2. CASE TickPasses(op, encoded)
    BY <1>2, InvTickPasses
  <1>3. CASE TickLost
    <2>1. /\ gpuLost /\ gpuLost' /\ DisconnectLost
          /\ mFencesInFlight' \subseteq mFencesInFlight
          /\ UNCHANGED <<workState, workSerial, taskVars, handleSerial, handleDep>>
      BY <1>3 DEF TickLost, gpuVars, handleVars, DeleteUpTo
    <2>2. \A h \in Handles : \/ handleState'[h] = handleState[h]
                             \/ handleState[h] = "Queued" /\ handleState'[h] = "Deleted"
      BY <1>3 DEF TickLost, handleVars, DeleteUpTo
    <2> QED
      BY <2>1, <2>2, InvLost
  <1>4. CASE TickInternal
    <2>1. \A w \in RecordingWork : w \in Work => workState[w] \in {"Recording", "Encoded"}
      BY DEF RecordingWork, WorkIn
    <2>2. PICK c \in PassedFences \cup {mCompletedSerial}, handedOver \in BOOLEAN :
            DisconnectInternal(c, RecordingWork, handedOver)
      BY <1>4 DEF TickInternal
    <2>3. UNCHANGED <<gpuLost, taskVars>>
      BY <1>4 DEF TickInternal
    <2> QED
      BY <2>1, <2>2, <2>3, InvInternal
  <1> QED
    BY <1>1, <1>2, <1>3, <1>4

(* The API calls.                                                          *)
LEMMA InvApiCall == TypeOK /\ TimelineInv /\ ApiCall => TimelineInv'
  <1> SUFFICES ASSUME TypeOK, TimelineInv, ApiCall PROVE TimelineInv'
    OBVIOUS
  <1>1. ASSUME Fail PROVE TimelineInv'
    BY <1>1, InvUnchanged DEF Fail
  <1>2. ASSUME NEW v \in Work, WriteBuffer(v) \/ UnmapAtCreation(v), ~Fail PROVE TimelineInv'
    <2>1. /\ UNCHANGED <<mState, mCompletedSerial, mLastSubmittedSerial, mFencesInFlight,
                         workSerial, gpuLost, taskVars, handleVars>>
          /\ workState[v] = "Unused"
          /\ workState' = [workState EXCEPT ![v] = "Recording"]
      BY <1>2 DEF WriteBuffer, UnmapAtCreation, NextWork, deviceVars, serialVars
    <2>2. mFutureSerial' \in Nat /\ mFutureSerial <= mFutureSerial'
      BY <1>2 DEF WriteBuffer, UnmapAtCreation, serialVars, AddFutureSerial, MaxOf,
         GetPendingCommandSerial, TypeOK
    <2>3. \A w \in Work : \/ workState'[w] = workState[w]
                          \/ /\ workState[w] \in {"Unused", "Encoded"}
                             /\ workState'[w] \in {"Encoded", "Recording"}
      BY <2>1 DEF TypeOK
    <2> QED
      BY <2>1, <2>2, <2>3, InvNewWork
  <1>3. ASSUME NEW v \in Work, Submit(v) PROVE TimelineInv'
    BY <1>3, InvTick, {v} \in SUBSET Work DEF Submit, NextWork
  <1>4. CASE APITick
    BY <1>4, InvTick, {} \in SUBSET Work DEF APITick
  <1>5. CASE LoseForTesting
    <2>1. \A w \in RecordingWork : w \in Work => workState[w] \in {"Recording", "Encoded"}
      BY DEF RecordingWork, WorkIn
    <2> QED
      BY <1>5, <2>1, InvInternal DEF LoseForTesting
  <1>6. CASE Destroy
    BY <1>6, InvUnchanged DEF Destroy, deviceVars
  <1> QED
    BY <1>1, <1>2, <1>3, <1>4, <1>5, <1>6, InvOnSubmittedWorkDone, InvDeleteWhenUnused
    DEF ApiCall

(* The later steps of a call.                                              *)
LEMMA InvStackStep == TypeOK /\ TimelineInv /\ StackStep => TimelineInv'
  <1> SUFFICES ASSUME TypeOK, TimelineInv, StackStep PROVE TimelineInv'
    OBVIOUS
  <1>1. ASSUME NEW v \in Tasks, FinishTask(v) \/ LoseTask(v) PROVE TimelineInv'
    <2>1. UNCHANGED <<mState, serialVars, gpuVars, gpuLost, taskSerial, taskDep, handleVars>>
      BY <1>1 DEF FinishTask, LoseTask, deviceVars
    <2>2. \A t \in Tasks : /\ taskState'[t] = "InFlight" => taskState[t] = "InFlight"
                           /\ taskState'[t] \in {"Extracted", "Success"} =>
                                    taskState[t] \in {"Extracted", "Success"}
      BY <1>1 DEF FinishTask, LoseTask, TasksToFinish, TypeOK
    <2> QED
      BY <2>1, <2>2, InvTaskStep
  <1>2. CASE LoseReturns
    <2>1. UNCHANGED <<mState, serialVars, gpuVars, gpuLost, taskSerial, taskDep, handleVars>>
      BY <1>2 DEF LoseReturns, deviceVars
    <2>2. \A t \in Tasks : /\ taskState'[t] = "InFlight" => taskState[t] = "InFlight"
                           /\ taskState'[t] \in {"Extracted", "Success"} =>
                                    taskState[t] \in {"Extracted", "Success"}
      BY <1>2 DEF LoseReturns, TypeOK
    <2> QED
      BY <2>1, <2>2, InvTaskStep
  <1>3. ASSUME NEW v \in Work, SubmitLost(v) PROVE TimelineInv'
    <2>1. /\ gpuLost /\ gpuLost' /\ DisconnectLost
          /\ UNCHANGED <<mFencesInFlight, workSerial, taskVars, handleState, handleSerial, handleDep>>
          /\ workState[v] = "Encoded" /\ workState' = [workState EXCEPT ![v] = "Recording"]
      BY <1>3 DEF SubmitLost, SubmitContinues, handleVars
    <2>2. \A w \in Work : \/ workState'[w] = workState[w]
                          \/ workState[w] = "Encoded" /\ workState'[w] = "Recording"
      BY <2>1 DEF TypeOK
    <2> QED
      BY <2>1, <2>2, InvLost
  <1>4. ASSUME NEW v \in Work, SubmitInternal(v) PROVE TimelineInv'
    <2>1. \A w \in RecordingWork \cup {v} : w \in Work => workState[w] \in {"Recording", "Encoded"}
      BY <1>4 DEF RecordingWork, WorkIn, SubmitInternal, SubmitContinues
    <2>2. PICK handedOver \in BOOLEAN :
            DisconnectInternal(mCompletedSerial, RecordingWork \cup {v}, handedOver)
      BY <1>4 DEF SubmitInternal
    <2>3. UNCHANGED <<gpuLost, taskVars>>
      BY <1>4 DEF SubmitInternal
    <2> QED
      BY <2>1, <2>2, <2>3, InvInternal
  <1>5. CASE SubmitFails \/ LoseReturnsFails \/ DestroyFails \/ DestroyReturnsFails
    BY <1>5, InvUnchanged DEF SubmitFails, LoseReturnsFails, DestroyFails, DestroyReturnsFails, Fail
  <1>6. CASE TickReturns
    BY <1>6, InvUnchanged DEF TickReturns, Fail, deviceVars
  <1>7. CASE LoseCallback \/ DestroyCallback \/ LoseStartsTasks
    BY <1>7, InvUnchanged DEF LoseCallback, DestroyCallback, LoseStartsTasks, deviceVars
  <1> QED
    BY <1>1, <1>2, <1>3, <1>4, <1>5, <1>6, <1>7, InvSubmitRecords, InvDestroyAlive,
       InvDestroyDisconnected, InvDestroyReturns DEF StackStep

LEMMA InvStep == TypeOK /\ TimelineInv /\ [Next]_vars => TimelineInv'
  <1>1. TypeOK /\ TimelineInv /\ UNCHANGED vars => TimelineInv'
    BY InvUnchanged DEF vars, deviceVars
  <1> QED
    BY <1>1, InvApiCall, InvStackStep, InvGpu DEF Next

(* The timeline invariant: in every state a device can reach, with         *)
(* callbacks that call, lose or destroy the device and a driver that fails *)
(* anywhere, the fences cover the work on the GPU and every task and       *)
(* handle that waits has a serial that covers what it waits for.           *)
THEOREM TimelineInvariant == Spec => []TimelineInv
  BY InvInit, InvStep, TypeCorrect, PTL DEF Spec

(* Queue::Tick never calls an OnSubmittedWorkDone callback with Success    *)
(* while work that was pending at the call is on the GPU or still to be    *)
(* submitted.                                                              *)
THEOREM SuccessIsNeverEarly == Spec => []NoEarlySuccess
  <1>1. TimelineInv => NoEarlySuccess
    BY DEF TimelineInv
  <1> QED
    BY <1>1, TimelineInvariant, PTL

(* While the device exists, the FencedDeleter frees no Vulkan handle that  *)
(* work on the GPU, or recorded for it, may use.                           *)
THEOREM DeletionsAreSafe == Spec => []LiveDeletions
  <1>1. TimelineInv => LiveDeletions
    BY DEF TimelineInv
  <1> QED
    BY <1>1, TimelineInvariant, PTL

(* When APITick reports an idle device, no callback is waiting and no      *)
(* fence is in flight: the application may stop ticking.                   *)
THEOREM IdleIsDone == Spec => []IdleMeansDone
  <1>1. TypeOK /\ TimelineInv => IdleMeansDone
    <2> SUFFICES ASSUME TypeOK, TimelineInv, mState = "Alive", IsDeviceIdle
                 PROVE  /\ \A t \in Tasks : taskState[t] # "InFlight"
                        /\ mFencesInFlight = {}
      BY DEF IdleMeansDone
    <2>1. mLastSubmittedSerial <= mCompletedSerial /\ mFutureSerial <= mCompletedSerial
      BY DEF IsDeviceIdle, MaxOf, TypeOK
    <2>2. \A t \in Tasks : taskState[t] # "InFlight"
      BY <2>1 DEF TimelineInv, TasksAhead, TypeOK
    <2>3. \A s \in mFencesInFlight : FALSE
      BY <2>1 DEF TimelineInv, FenceInv, TypeOK
    <2> QED
      BY <2>2, <2>3
  <1> QED
    BY <1>1, TimelineInvariant, TypeCorrect, PTL

-----------------------------------------------------------------------------
(* The order of the queue.                                                 *)

(* The serial last submitted never goes back.                              *)
LEMMA SerialsGrow ==
    ASSUME TypeOK, [Next]_vars
    PROVE  mLastSubmittedSerial <= mLastSubmittedSerial'
  <1> USE DEF TypeOK, serialVars
  <1>1. CASE UNCHANGED mLastSubmittedSerial
    BY <1>1
  <1>2. CASE AssumeCommandsComplete \/ DisconnectLost
    BY <1>2 DEF DisconnectLost, AssumeCommandsComplete, AssumedSerial, MaxOf
  <1>3. CASE \E c, recorded, handedOver : DisconnectInternal(c, recorded, handedOver)
    BY <1>3 DEF DisconnectInternal, AssumedSerial, MaxOf
  <1>4. ASSUME NEW op, NEW encoded, TickPasses(op, encoded)
        PROVE  mLastSubmittedSerial <= mLastSubmittedSerial'
    BY <1>4 DEF TickPasses, AssumedSerial, MaxOf
  <1>5. CASE DestroyReturns \/ \E w \in Work : SubmitRecords(w)
    <2>1. CASE DestroyReturns
      BY <2>1 DEF DestroyReturns, AssumedSerial, MaxOf
    <2>2. ASSUME NEW w \in Work, SubmitRecords(w) PROVE mLastSubmittedSerial <= mLastSubmittedSerial'
      BY <2>2 DEF SubmitRecords
    <2> QED
      BY <1>5, <2>1, <2>2
  <1>6. ASSUME NEW op, NEW encoded,
               TickSkipped(op, encoded) \/ TickPasses(op, encoded) \/ TickLost \/ TickInternal
        PROVE  mLastSubmittedSerial <= mLastSubmittedSerial'
    BY <1>1, <1>2, <1>3, <1>4, <1>6 DEF TickSkipped, TickLost, TickInternal
  <1>7. CASE ApiCall
    BY <1>1, <1>3, <1>6, <1>7 DEF ApiCall, WriteBuffer, UnmapAtCreation, OnSubmittedWorkDone,
       DeleteWhenUnused, Submit, APITick, LoseForTesting, Destroy, Fail
  <1>8. CASE StackStep
    BY <1>1, <1>2, <1>3, <1>5, <1>8 DEF StackStep, FinishTask, LoseTask, SubmitLost, SubmitInternal,
       SubmitFails, TickReturns, LoseCallback, LoseStartsTasks, LoseReturns, DestroyCallback,
       DestroyAlive, DestroyDisconnected, DestroyFails, DestroyReturnsFails,
       LoseReturnsFails, Fail
  <1>9. CASE GpuExecute \/ GpuLoss \/ UNCHANGED vars
    BY <1>1, <1>9 DEF GpuExecute, GpuLoss, vars
  <1> QED
    BY <1>7, <1>8, <1>9 DEF Next

(* The steps that touch the queue of tasks.                                *)
LEMMA TaskSteps ==
    ASSUME [Next]_vars
    PROVE  \/ \E t \in Tasks : OnSubmittedWorkDone(t) \/ FinishTask(t) \/ LoseTask(t)
           \/ LoseReturns
           \/ \E d : ExtractTasks(mCompletedSerial', d)
           \/ UNCHANGED taskVars
  <1>1. ASSUME NEW op, NEW encoded,
               TickSkipped(op, encoded) \/ TickPasses(op, encoded) \/ TickLost \/ TickInternal
        PROVE  UNCHANGED taskVars \/ \E d : ExtractTasks(mCompletedSerial', d)
    BY <1>1 DEF TickSkipped, TickPasses, TickLost, TickInternal
  <1>2. CASE ApiCall
    BY <1>1, <1>2 DEF ApiCall, WriteBuffer, UnmapAtCreation, DeleteWhenUnused, Submit, APITick,
       LoseForTesting, Destroy, Fail
  <1>3. CASE StackStep
    BY <1>3 DEF StackStep, SubmitRecords, SubmitLost, SubmitInternal, SubmitFails, TickReturns,
       LoseCallback, LoseStartsTasks, DestroyCallback, DestroyAlive, DestroyDisconnected,
       DestroyFails, DestroyReturns, DestroyReturnsFails,
       LoseReturnsFails, Fail, AssumeCommandsComplete, serialVars
  <1>4. CASE GpuExecute \/ GpuLoss \/ UNCHANGED vars
    BY <1>4 DEF GpuExecute, GpuLoss, vars
  <1> QED
    BY <1>2, <1>3, <1>4 DEF Next

LEMMA OrderStep == TypeOK /\ OrderInv /\ [Next]_vars => OrderInv'
  <1> SUFFICES ASSUME TypeOK, OrderInv, [Next]_vars PROVE OrderInv'
    OBVIOUS
  <1>0. /\ mLastSubmittedSerial \in Nat /\ mLastSubmittedSerial' \in Nat /\ mCompletedSerial' \in Nat
        /\ mLastSubmittedSerial <= mLastSubmittedSerial'
        /\ Tasks \subseteq Nat
        /\ taskSerial \in [Tasks -> Nat] /\ taskState \in [Tasks -> TaskStates]
    <2>1. TypeOK'
      BY TypeStep
    <2>2. Tasks \subseteq Nat
      BY BoundsAssumption DEF Tasks
    <2>3. mLastSubmittedSerial' \in Nat /\ mCompletedSerial' \in Nat
      BY <2>1 DEF TypeOK
    <2> QED
      BY <2>2, <2>3, SerialsGrow DEF TypeOK
  <1>1. ASSUME NEW t \in Tasks, OnSubmittedWorkDone(t) PROVE OrderInv'
    <2>1. /\ taskState[t] = "Unused" /\ mLastSubmittedSerial' = mLastSubmittedSerial
          /\ \A u \in Tasks : u < t => taskState[u] # "Unused"
      BY <1>1, BoundsAssumption DEF OnSubmittedWorkDone, NextTask, Tasks
    <2>2. \A u \in Tasks : t < u => taskState[u] = "Unused"
      BY <2>1 DEF OrderInv
    <2>3. \/ /\ taskState' = [taskState EXCEPT ![t] = "InFlight"]
             /\ taskSerial' = [taskSerial EXCEPT ![t] = mLastSubmittedSerial + 1]
          \/ /\ taskState' = [taskState EXCEPT ![t] = "DeviceLost"]
             /\ taskSerial' = taskSerial
      BY <1>1 DEF OnSubmittedWorkDone, GetPendingCommandSerial
    <2> QED
      BY <1>0, <2>1, <2>2, <2>3 DEF OrderInv, TaskStates
  <1>2. ASSUME NEW t \in Tasks, FinishTask(t) \/ LoseTask(t) PROVE OrderInv'
    <2>1. /\ taskSerial' = taskSerial
          /\ \/ taskState[t] = "Extracted" /\ taskState' = [taskState EXCEPT ![t] = "Success"]
             \/ taskState[t] = "InFlight" /\ taskState' = [taskState EXCEPT ![t] = "LostInQueue"]
      BY <1>2 DEF FinishTask, LoseTask, TasksToFinish
    <2> QED
      BY <1>0, <2>1 DEF OrderInv
  <1>3. CASE LoseReturns
    BY <1>0, <1>3 DEF LoseReturns, OrderInv
  <1>4. ASSUME NEW d, ExtractTasks(mCompletedSerial', d) PROVE OrderInv'
    <2>1. /\ taskSerial' = taskSerial
          /\ \A t \in Tasks : taskState'[t] = IF taskState[t] = "InFlight"
                                                  /\ taskSerial[t] <= mCompletedSerial'
                                                 THEN "Extracted" ELSE taskState[t]
      BY <1>4 DEF ExtractTasks
    <2> QED
      BY <1>0, <2>1 DEF OrderInv
  <1>5. CASE UNCHANGED taskVars
    BY <1>0, <1>5 DEF taskVars, OrderInv
  <1> QED
    BY <1>1, <1>2, <1>3, <1>4, <1>5, TaskSteps

(* OnSubmittedWorkDone callbacks are called with Success in the order of   *)
(* the calls, whatever calls their callbacks make and however the device   *)
(* is lost.                                                                *)
THEOREM TasksFinishInOrder == Spec => []QueueOrder
  <1>1. Init => OrderInv
    BY DEF Init, OrderInv
  <1>2. OrderInv => QueueOrder
    BY DEF OrderInv, QueueOrder
  <1> QED
    BY <1>1, <1>2, OrderStep, TypeCorrect, PTL DEF Spec

-----------------------------------------------------------------------------
(* Success means that the work has been executed.                          *)

(* How a step changes the stack: a Destroy leaves it only by returning.    *)
LEMMA CallSteps ==
    ASSUME [Next]_vars
    PROVE  \/ UNCHANGED stackVars
           \/ \E op \in FrameOps : PushFrame(op)
           \/ depth > 0 /\ EnterCallback
           \/ /\ depth > 0 /\ frame[depth].op \notin {"Destroy", "DestroyTasks"}
              /\ PopFrame \/ \E op \in FrameOps : ReplaceFrame(op)
           \/ depth > 0 /\ frame[depth].op = "Destroy" /\ ReplaceFrame("DestroyTasks")
           \/ depth > 0 /\ mState' = "Destroyed" /\ PopFrame
  <1> USE DEF FrameOps
  <1>1. ASSUME NEW op \in {"Tick", "Submit"}, NEW encoded,
               TickSkipped(op, encoded) \/ TickPasses(op, encoded) \/ TickLost \/ TickInternal
        PROVE  \E o \in FrameOps : PushFrame(o)
    BY <1>1 DEF TickSkipped, TickPasses, TickLost, TickInternal
  <1>2. CASE ApiCall
    BY <1>1, <1>2 DEF ApiCall, WriteBuffer, UnmapAtCreation, OnSubmittedWorkDone, DeleteWhenUnused,
       Submit, APITick, LoseForTesting, Destroy, Fail
  <1>3. CASE Fail
    BY <1>3 DEF Fail
  <1>4. CASE \/ \E t \in Tasks : FinishTask(t) \/ LoseTask(t)
             \/ LoseCallback \/ DestroyCallback
    BY <1>4 DEF FinishTask, LoseTask, LoseCallback, DestroyCallback, Running
  <1>5. CASE \/ \E w \in Work : SubmitRecords(w) \/ SubmitLost(w) \/ SubmitInternal(w)
             \/ LoseStartsTasks \/ LoseReturns
             \/ TickReturns /\ ~Fail
    BY <1>5 DEF SubmitRecords, SubmitLost, SubmitInternal, SubmitContinues, TickReturns,
       LoseStartsTasks, LoseReturns, Running
  <1>6. CASE DestroyAlive \/ DestroyDisconnected \/ DestroyReturns
    BY <1>6 DEF DestroyAlive, DestroyDisconnected, DestroyReturns, DestroyProceeds, Running
  <1>7. CASE GpuExecute \/ GpuLoss \/ UNCHANGED vars
    BY <1>7 DEF GpuExecute, GpuLoss, vars
  <1> QED
    BY <1>2, <1>3, <1>4, <1>5, <1>6, <1>7 DEF Next, StackStep, SubmitFails, DestroyFails,
       DestroyReturnsFails,
       LoseReturnsFails

(* A device goes from Alive to Disconnected to Destroyed.                  *)
LEMMA StateSteps ==
    ASSUME [Next]_vars
    PROVE  \/ mState' = mState
           \/ mState # "Destroyed" /\ mState' = "Disconnected"
           \/ mState' = "Destroyed"
  <1> USE DEF deviceVars, DisconnectLost, DisconnectInternal
  <1>1. ASSUME NEW op, NEW encoded,
               TickSkipped(op, encoded) \/ TickPasses(op, encoded) \/ TickLost \/ TickInternal
        PROVE  mState' = mState \/ mState' = "Disconnected"
    BY <1>1 DEF TickSkipped, TickPasses, TickLost, TickInternal
  <1>2. CASE ApiCall
    BY <1>1, <1>2 DEF ApiCall, WriteBuffer, UnmapAtCreation, OnSubmittedWorkDone, DeleteWhenUnused,
       Submit, APITick, LoseForTesting, Destroy, Fail
  <1>3. CASE StackStep
    BY <1>3 DEF StackStep, FinishTask, LoseTask, SubmitRecords, SubmitLost, SubmitInternal,
       SubmitContinues, SubmitFails, TickReturns, LoseCallback, LoseStartsTasks, LoseReturns,
       DestroyCallback, DestroyAlive, DestroyDisconnected, DestroyFails, DestroyReturns,
       DestroyReturnsFails,
       LoseReturnsFails, Fail
  <1>4. CASE GpuExecute \/ GpuLoss \/ UNCHANGED vars
    BY <1>4 DEF GpuExecute, GpuLoss, vars
  <1> QED
    BY <1>2, <1>3, <1>4 DEF Next

(* A destruction that has begun goes on until the device is destroyed.     *)
LEMMA DestroyingStays ==
    ASSUME TypeOK, StackClean, [Next]_vars
    PROVE  StackClean' /\ (Destroying => Destroying')
  <1> USE BoundsAssumption DEF Depths
  <1>0. /\ depth \in 0..MaxDepth /\ \A d \in Depths : d > depth => frame[d].op = "None"
        /\ frame \in [Depths -> [op : FrameOps, at : {"Code", "Callback"}]]
    BY DEF TypeOK, StackClean
  <1> DEFINE InDestroy(d, f) == f[d].op \in {"Destroy", "DestroyTasks"}
  <1>1. CASE \/ UNCHANGED stackVars
             \/ \E op \in FrameOps : PushFrame(op)
             \/ depth > 0 /\ EnterCallback
    <2>1. StackClean' /\ \A d \in Depths : InDestroy(d, frame) => InDestroy(d, frame')
      <3>1. CASE UNCHANGED stackVars
        BY <1>0, <3>1 DEF stackVars, StackClean
      <3>2. CASE \E op \in FrameOps : PushFrame(op)
        BY <1>0, <3>2 DEF PushFrame, StackClean
      <3>3. CASE depth > 0 /\ EnterCallback
        BY <1>0, <3>3 DEF EnterCallback, StackClean
      <3> QED
        BY <1>1, <3>1, <3>2, <3>3
    <2> QED
      BY <2>1, StateSteps DEF Destroying
  <1>2. CASE /\ depth > 0 /\ frame[depth].op \notin {"Destroy", "DestroyTasks"}
             /\ PopFrame \/ \E op \in FrameOps : ReplaceFrame(op)
    <2>1. StackClean' /\ \A d \in Depths : InDestroy(d, frame) => InDestroy(d, frame')
      BY <1>0, <1>2 DEF PopFrame, ReplaceFrame, NoFrame, StackClean
    <2> QED
      BY <2>1, StateSteps DEF Destroying
  <1>3. CASE depth > 0 /\ frame[depth].op = "Destroy" /\ ReplaceFrame("DestroyTasks")
    <2>1. StackClean' /\ InDestroy(depth, frame')
      BY <1>0, <1>3 DEF ReplaceFrame, StackClean
    <2> QED
      BY <1>0, <1>3, <2>1 DEF Destroying
  <1>4. CASE depth > 0 /\ mState' = "Destroyed" /\ PopFrame
    <2>1. StackClean'
      BY <1>0, <1>4 DEF PopFrame, NoFrame, StackClean
    <2> QED
      BY <1>4, <2>1 DEF Destroying
  <1> QED
    BY <1>1, <1>2, <1>3, <1>4, CallSteps

(* What the GPU has executed stays executed.                               *)
LEMMA ExecutedStays ==
    ASSUME TypeOK, [Next]_vars, NEW w \in Work, workState[w] = "Executed"
    PROVE  workState'[w] = "Executed"
  <1> USE DEF RecordingWork, WorkIn, gpuVars
  <1>1. CASE UNCHANGED workState
    BY <1>1
  <1>2. ASSUME NEW recorded, NEW handedOver, w \notin recorded,
               WaitForIdleForDestruction(recorded, handedOver)
        PROVE  workState'[w] = "Executed"
    BY <1>2 DEF WaitForIdleForDestruction
  <1>3. ASSUME NEW c, NEW recorded, NEW handedOver, w \notin recorded,
               DisconnectInternal(c, recorded, handedOver)
        PROVE  workState'[w] = "Executed"
    BY <1>2, <1>3 DEF DisconnectInternal
  <1>4. ASSUME NEW op, NEW encoded, w \notin encoded,
               TickSkipped(op, encoded) \/ TickPasses(op, encoded) \/ TickLost \/ TickInternal
        PROVE  workState'[w] = "Executed"
    <2>1. CASE TickSkipped(op, encoded)
      BY <1>4, <2>1 DEF TickSkipped, Encode
    <2>2. CASE TickPasses(op, encoded)
      BY <1>4, <2>2 DEF TickPasses, SubmitPendingCommands, Encode
    <2>3. CASE TickLost
      BY <1>1, <2>3 DEF TickLost
    <2>4. CASE TickInternal
      BY <1>3, <2>4 DEF TickInternal
    <2> QED
      BY <1>4, <2>1, <2>2, <2>3, <2>4
  <1>5. ASSUME NEW v \in Work,
               \/ WriteBuffer(v) \/ UnmapAtCreation(v) \/ Submit(v)
               \/ SubmitRecords(v) \/ SubmitLost(v) \/ SubmitInternal(v)
        PROVE  workState'[w] = "Executed"
    <2>1. CASE WriteBuffer(v) \/ UnmapAtCreation(v)
      BY <1>1, <2>1 DEF WriteBuffer, UnmapAtCreation, NextWork, Fail, TypeOK
    <2>2. CASE Submit(v)
      BY <1>4, <2>2 DEF Submit, NextWork
    <2>3. CASE SubmitRecords(v)
      BY <2>3 DEF SubmitRecords, SubmitContinues, SubmitPendingCommands
    <2>4. CASE SubmitLost(v)
      BY <2>4 DEF SubmitLost, SubmitContinues, TypeOK
    <2>5. CASE SubmitInternal(v)
      BY <1>3, <2>5 DEF SubmitInternal, SubmitContinues
    <2> QED
      BY <1>5, <2>1, <2>2, <2>3, <2>4, <2>5
  <1>6. CASE ApiCall
    <2>1. CASE APITick
      BY <1>4, <2>1 DEF APITick
    <2>2. CASE LoseForTesting
      BY <1>3, <2>2 DEF LoseForTesting
    <2>3. CASE Destroy \/ \E t \in Tasks : OnSubmittedWorkDone(t)
      BY <1>1, <2>3 DEF Destroy, OnSubmittedWorkDone
    <2>4. CASE \E h \in Handles : DeleteWhenUnused(h)
      BY <1>1, <2>4 DEF DeleteWhenUnused
    <2> QED
      BY <1>5, <1>6, <2>1, <2>2, <2>3, <2>4 DEF ApiCall
  <1>7. CASE DestroyAlive \/ DestroyReturns
    BY <1>2, <1>7 DEF DestroyAlive, DestroyReturns
  <1>8. CASE StackStep
    BY <1>1, <1>5, <1>7, <1>8 DEF StackStep, FinishTask, LoseTask, SubmitFails, TickReturns,
       LoseCallback, LoseStartsTasks, LoseReturns, DestroyCallback, DestroyDisconnected,
       DestroyFails, DestroyReturnsFails,
       LoseReturnsFails, Fail
  <1>9. CASE GpuExecute \/ GpuLoss \/ UNCHANGED vars
    BY <1>9 DEF GpuExecute, GpuLoss, vars
  <1> QED
    BY <1>6, <1>8, <1>9 DEF Next

(* A task is taken out of the queue by a Tick or by a destruction, and     *)
(* what it waits for does not change.                                      *)
LEMMA FinishedSteps ==
    ASSUME TypeOK, StackClean, [Next]_vars
    PROVE  \/ \E op \in {"Tick", "Submit"}, encoded \in SUBSET Work :
                  /\ mState = "Alive" /\ TickPasses(op, encoded)
                  /\ \A w \in encoded : workState[w] = "Unused"
           \/ Destroying'
           \/ \A t \in Tasks : taskState'[t] \in {"Extracted", "Success"} =>
                    taskState[t] \in {"Extracted", "Success"} /\ taskDep'[t] = taskDep[t]
  <1> DEFINE Same == \A t \in Tasks : taskState'[t] \in {"Extracted", "Success"} =>
                         taskState[t] \in {"Extracted", "Success"} /\ taskDep'[t] = taskDep[t]
  <1>1. CASE UNCHANGED taskVars
    BY <1>1 DEF taskVars
  <1>2. ASSUME NEW t \in Tasks, OnSubmittedWorkDone(t) \/ FinishTask(t) \/ LoseTask(t) PROVE Same
    BY <1>2 DEF OnSubmittedWorkDone, FinishTask, LoseTask, TasksToFinish, TypeOK
  <1>3. CASE LoseReturns
    BY <1>3 DEF LoseReturns
  <1>4. CASE DestroyAlive \/ DestroyDisconnected
    <2>1. Destroying
      <3>1. depth > 0 /\ frame[depth].op = "Destroy"
        BY <1>4 DEF DestroyAlive, DestroyDisconnected, DestroyProceeds, Running
      <3>2. depth \in Depths
        BY <3>1, BoundsAssumption DEF TypeOK, Depths
      <3> QED
        BY <3>1, <3>2 DEF Destroying
    <2> QED
      BY <2>1, DestroyingStays
  <1>5. ASSUME NEW op \in {"Tick", "Submit"}, NEW encoded \in SUBSET Work, mState = "Alive",
               \A w \in encoded : workState[w] = "Unused",
               TickSkipped(op, encoded) \/ TickPasses(op, encoded) \/ TickLost \/ TickInternal
        PROVE  \/ \E o \in {"Tick", "Submit"}, e \in SUBSET Work :
                     /\ mState = "Alive" /\ TickPasses(o, e)
                     /\ \A w \in e : workState[w] = "Unused"
               \/ Same
    <2>1. CASE TickPasses(op, encoded)
      BY <1>5, <2>1
    <2>2. CASE TickSkipped(op, encoded) \/ TickLost \/ TickInternal
      <3>1. UNCHANGED taskVars
        BY <2>2 DEF TickSkipped, TickLost, TickInternal
      <3> QED
        BY <3>1 DEF taskVars
    <2> QED
      BY <1>5, <2>1, <2>2
  <1>6. ASSUME NEW v \in Work, Submit(v)
        PROVE  \/ \E o \in {"Tick", "Submit"}, e \in SUBSET Work :
                     /\ mState = "Alive" /\ TickPasses(o, e)
                     /\ \A w \in e : workState[w] = "Unused"
               \/ Same
    <2>1. {v} \in SUBSET Work /\ \A w \in {v} : workState[w] = "Unused"
      BY <1>6 DEF Submit, NextWork
    <2> QED
      BY <1>5, <1>6, <2>1 DEF Submit
  <1>7. CASE APITick
    BY <1>5, <1>7, {} \in SUBSET Work DEF APITick
  <1> HIDE DEF Same
  <1>8. CASE ApiCall
    BY <1>1, <1>2, <1>6, <1>7, <1>8 DEF ApiCall, WriteBuffer, UnmapAtCreation, DeleteWhenUnused,
       LoseForTesting, Destroy, Fail, Same
  <1>9. CASE StackStep
    BY <1>1, <1>2, <1>3, <1>4, <1>9 DEF StackStep, SubmitRecords, SubmitLost, SubmitInternal,
       SubmitFails, TickReturns, LoseCallback, LoseStartsTasks, DestroyCallback, DestroyFails,
       DestroyReturns, DestroyReturnsFails,
       LoseReturnsFails, Fail, Same
  <1>10. CASE GpuExecute \/ GpuLoss \/ UNCHANGED vars
    BY <1>1, <1>10 DEF GpuExecute, GpuLoss, vars
  <1> QED
    BY <1>8, <1>9, <1>10 DEF Next, Same

LEMMA BlocksTickPasses ==
    ASSUME TypeOK, TimelineInv, UnexecutedBlocks, mState = "Alive", ~Destroying,
           NEW op, NEW encoded, TickPasses(op, encoded)
    PROVE  /\ gpuLost' = gpuLost
           /\ \A w \in Work : workState'[w] \notin {"Dropped", "Abandoned", "Recording"}
  <1>1. /\ gpuLost' = gpuLost /\ ~FenceCheckFails
        /\ \A w \in Work : workState'[w] = IF w \in RecordingWork THEN "Submitted"
                                           ELSE Encode(encoded)[w]
    BY DEF TickPasses, SubmitPendingCommands
  <1>2. ASSUME NEW w \in Work PROVE workState'[w] \notin {"Dropped", "Abandoned", "Recording"}
    <2>1. workState[w] # "Dropped"
      BY DEF UnexecutedBlocks
    <2>2. workState[w] # "Abandoned"
      <3> SUFFICES ASSUME workState[w] = "Abandoned" PROVE FALSE
        OBVIOUS
      <3>1. gpuLost /\ workSerial[w] \in mFencesInFlight
        BY DEF UnexecutedBlocks
      <3>2. workSerial[w] \in PassedFences
        BY <1>1, <3>1 DEF FenceCheckFails
      <3>3. FenceSignaled(workSerial[w])
        BY <3>2 DEF PassedFences, TypeOK
      <3> QED
        BY <3>3 DEF FenceSignaled
    <2> QED
      BY <1>1, <2>1, <2>2 DEF Encode, RecordingWork, WorkIn
  <1> QED
    BY <1>1, <1>2

LEMMA BlocksStep ==
    ASSUME TypeOK, TimelineInv, StackClean, UnexecutedBlocks, [Next]_vars
    PROVE  UnexecutedBlocks'
  <1> SUFFICES ASSUME mState' = "Alive", ~Destroying', NEW w \in Work
               PROVE  /\ workState'[w] # "Dropped"
                      /\ workState'[w] = "Abandoned" => gpuLost' /\ workSerial'[w] \in mFencesInFlight'
    BY DEF UnexecutedBlocks
  <1> USE DEF gpuVars, DisconnectLost, DisconnectInternal, WorkStates
  <1>0. /\ mState = "Alive" /\ ~Destroying /\ workState[w] # "Dropped"
        /\ workState[w] = "Abandoned" => gpuLost /\ workSerial[w] \in mFencesInFlight
    BY StateSteps, DestroyingStays DEF UnexecutedBlocks
  <1> DEFINE Goal == /\ workState'[w] # "Dropped"
                     /\ workState'[w] = "Abandoned" => gpuLost' /\ workSerial'[w] \in mFencesInFlight'
  <1>1. CASE UNCHANGED <<workState, workSerial, mFencesInFlight, gpuLost>>
    BY <1>0, <1>1
  <1>2. ASSUME NEW op, NEW encoded,
               TickSkipped(op, encoded) \/ TickPasses(op, encoded) \/ TickLost \/ TickInternal
        PROVE  Goal
    <2>1. CASE TickSkipped(op, encoded)
      BY <1>0, <2>1 DEF TickSkipped, Encode
    <2>2. CASE TickPasses(op, encoded)
      BY <1>0, <2>2, BlocksTickPasses
    <2> QED
      BY <1>2, <2>1, <2>2 DEF TickLost, TickInternal
  <1>3. ASSUME NEW v \in Work, WriteBuffer(v) \/ UnmapAtCreation(v) PROVE Goal
    <2>1. CASE Fail
      BY <1>1, <2>1 DEF Fail
    <2>2. CASE ~Fail
      <3>1. /\ workState' = [workState EXCEPT ![v] = "Recording"]
            /\ UNCHANGED <<workSerial, mFencesInFlight, gpuLost>>
        BY <1>3, <2>2 DEF WriteBuffer, UnmapAtCreation
      <3> QED
        BY <1>0, <3>1 DEF TypeOK
    <2> QED
      BY <2>1, <2>2
  <1>4. ASSUME NEW v \in Work, SubmitRecords(v) PROVE Goal
    <2>1. /\ workState' = [u \in Work |-> IF u \in RecordingWork \cup {v} THEN "Submitted"
                                          ELSE workState[u]]
          /\ workSerial' = [u \in Work |-> IF u \in RecordingWork \cup {v} THEN mLastSubmittedSerial + 1
                                          ELSE workSerial[u]]
          /\ mFencesInFlight \subseteq mFencesInFlight' /\ gpuLost' = gpuLost
      BY <1>4 DEF SubmitRecords, SubmitPendingCommands
    <2> QED
      BY <1>0, <2>1
  <1>5. CASE GpuExecute
    BY <1>0, <1>5 DEF GpuExecute
  <1>6. CASE GpuLoss
    <2>1. workState[w] = "Submitted" => workSerial[w] \in mFencesInFlight
      BY <1>0 DEF TimelineInv, FenceInv
    <2> QED
      BY <1>0, <1>6, <2>1 DEF GpuLoss
  <1>7. CASE DestroyAlive \/ DestroyDisconnected \/ DestroyReturns
    <2>1. depth > 0 /\ frame[depth].op \in {"Destroy", "DestroyTasks"}
      BY <1>7 DEF DestroyAlive, DestroyDisconnected, DestroyReturns, DestroyProceeds, Running
    <2>2. depth \in Depths
      BY <2>1, BoundsAssumption DEF TypeOK, Depths
    <2> QED
      BY <1>0, <2>1, <2>2 DEF Destroying
  <1> HIDE DEF Goal
  <1>8. CASE ApiCall
    BY <1>1, <1>2, <1>3, <1>8 DEF ApiCall, OnSubmittedWorkDone, DeleteWhenUnused, Submit, APITick,
       LoseForTesting, Destroy, Goal
  <1>9. CASE StackStep
    BY <1>1, <1>4, <1>7, <1>9 DEF StackStep, FinishTask, LoseTask, SubmitLost, SubmitInternal,
       SubmitFails, TickReturns, LoseCallback, LoseStartsTasks, LoseReturns, DestroyCallback,
       DestroyFails, DestroyReturnsFails,
       LoseReturnsFails, Fail, Goal
  <1>10. CASE UNCHANGED vars
    BY <1>1, <1>10 DEF vars
  <1> QED
    BY <1>5, <1>6, <1>8, <1>9, <1>10 DEF Next, Goal

LEMMA ExecutedStep ==
    ASSUME TypeOK, TimelineInv, ExecutedInv, [Next]_vars
    PROVE  ExecutedInv'
  <1>0. TypeOK' /\ TimelineInv' /\ StackClean' /\ UnexecutedBlocks'
    BY TypeStep, InvStep, DestroyingStays, BlocksStep DEF ExecutedInv
  <1>1. SuccessMeansExecuted'
    <2> SUFFICES ASSUME ~Destroying', NEW t \in Tasks, taskState'[t] \in {"Extracted", "Success"},
                        NEW w \in taskDep'[t]
                 PROVE  workState'[w] = "Executed"
      BY DEF SuccessMeansExecuted
    <2>0. ~Destroying /\ w \in Work
      BY <1>0, DestroyingStays DEF ExecutedInv, TypeOK
    <2>1. CASE taskState[t] \in {"Extracted", "Success"} /\ taskDep'[t] = taskDep[t]
      BY <2>0, <2>1, ExecutedStays DEF ExecutedInv, SuccessMeansExecuted
    <2>2. ASSUME NEW op, NEW encoded, mState = "Alive", TickPasses(op, encoded)
          PROVE  workState'[w] = "Executed"
      <3>1. workState'[w] \notin {"Dropped", "Abandoned", "Recording"}
        BY <2>0, <2>2, BlocksTickPasses DEF ExecutedInv
      <3>2. workState'[w] # "Submitted"
        BY <1>0 DEF TimelineInv, NoEarlySuccess
      <3>3. workState'[w] \notin {"Unused", "Encoded"}
        BY <1>0 DEF TimelineInv, DependenciesRecorded
      <3>4. workState'[w] \in WorkStates
        BY <1>0, <2>0 DEF TypeOK
      <3> QED
        BY <3>1, <3>2, <3>3, <3>4 DEF WorkStates
    <2> QED
      BY <2>1, <2>2, FinishedSteps DEF ExecutedInv
  <1> QED
    BY <1>0, <1>1 DEF ExecutedInv

(* Unless the device is being destroyed, an OnSubmittedWorkDone callback   *)
(* that Queue::Tick calls with Success finds all the work of its call      *)
(* executed, with any driver error, any loss and any call from callbacks.  *)
THEOREM SuccessIsExecuted == Spec => []SuccessMeansExecuted
  <1>1. Init => ExecutedInv
    <2>1. ASSUME Init, NEW d \in Depths PROVE frame[d].op = "None"
      BY <2>1 DEF Init, NoFrame
    <2> QED
      BY <2>1 DEF Init, ExecutedInv, StackClean, UnexecutedBlocks, SuccessMeansExecuted
  <1>2. TypeOK /\ TimelineInv /\ ExecutedInv /\ [Next]_vars => ExecutedInv'
    BY ExecutedStep
  <1>3. ExecutedInv => SuccessMeansExecuted
    BY DEF ExecutedInv
  <1> QED
    BY <1>1, <1>2, <1>3, TypeCorrect, TimelineInvariant, PTL DEF Spec

-----------------------------------------------------------------------------
(* A device that is used in order meets no failed assertion, and is quiet  *)
(* once it is destroyed.                                                   *)

(* The stack, by what happens to it.                                       *)
LEMMA CallsStay ==
    ASSUME TypeOK, CallsInv, UNCHANGED stackVars \/ (depth > 0 /\ EnterCallback),
           mState' = mState
    PROVE  CallsInv' /\ NoCallToFinish' = NoCallToFinish /\ InDestroyTasks' = InDestroyTasks
           /\ depth' = depth /\ \A d \in Depths : frame'[d].op = frame[d].op
  <1>1. depth' = depth /\ \A d \in Depths : frame'[d].op = frame[d].op
    BY DEF TypeOK, stackVars, EnterCallback
  <1> QED
    BY <1>1 DEF CallsInv, StackClean, NoCallToFinish, InDestroyTasks

LEMMA CallsPush ==
    ASSUME TypeOK, CallsInv, NEW op \in {"Tick", "Submit", "Lose", "Destroy"}, PushFrame(op),
           depth = 0 \/ frame[depth].op \in {"Tick", "Submit"},
           op = "Destroy" => depth = 0,
           op = "Lose" => mState' = "Disconnected",
           mState' \in {mState, "Disconnected"} /\ mState' # "Destroyed"
    PROVE  /\ CallsInv' /\ ~InDestroyTasks /\ ~InDestroyTasks'
           /\ depth = 0 => NoCallToFinish
           /\ depth = 0 /\ op \in {"Lose", "Destroy"} => NoCallToFinish'
  <1> USE BoundsAssumption DEF Depths
  <1>1. /\ depth \in 0..MaxDepth /\ frame \in [Depths -> [op : FrameOps, at : {"Code", "Callback"}]]
        /\ depth' = depth + 1 /\ depth + 1 \in Depths
        /\ frame' = [frame EXCEPT ![depth + 1] = [op |-> op, at |-> "Code"]]
    BY DEF TypeOK, PushFrame
  <1>2. /\ frame'[depth + 1].op = op
        /\ \A d \in Depths : d # depth + 1 => frame'[d].op = frame[d].op
    BY <1>1
  <1>3. \A d \in Depths : /\ d <= depth => frame[d].op \in {"Tick", "Submit"}
                          /\ d > depth => frame[d].op = "None"
    BY <1>1 DEF CallsInv, StackClean
  <1>4. CallsInv'
    BY <1>1, <1>2, <1>3 DEF CallsInv, StackClean
  <1> QED
    BY <1>1, <1>2, <1>3, <1>4 DEF NoCallToFinish, InDestroyTasks

LEMMA CallsPop ==
    ASSUME TypeOK, CallsInv, depth > 0, PopFrame,
           mState' = mState \/ (mState' = "Destroyed" /\ frame[depth].op = "DestroyTasks")
    PROVE  /\ CallsInv' /\ ~InDestroyTasks'
           /\ NoCallToFinish => NoCallToFinish'
           /\ frame[depth].op = "DestroyTasks" => depth = 1 /\ NoCallToFinish'
           /\ frame[depth].op \in {"Tick", "Submit", "Lose", "LoseTasks"} => ~InDestroyTasks
  <1> USE BoundsAssumption DEF Depths
  <1>1. /\ depth \in Depths /\ frame \in [Depths -> [op : FrameOps, at : {"Code", "Callback"}]]
        /\ depth' = depth - 1
        /\ frame' = [frame EXCEPT ![depth] = NoFrame]
    BY DEF TypeOK, PopFrame
  <1>2. /\ frame'[depth].op = "None"
        /\ \A d \in Depths : d # depth => frame'[d].op = frame[d].op
    BY <1>1 DEF NoFrame
  <1>3. \A d \in Depths : /\ d < depth => frame[d].op \in {"Tick", "Submit"}
                          /\ d > depth => frame[d].op = "None"
                          /\ frame[d].op \in {"Destroy", "DestroyTasks"} => d = 1
                          /\ frame[d].op \in {"Lose", "LoseTasks"} => mState = "Disconnected"
    BY <1>1 DEF CallsInv, StackClean
  <1>4. frame[depth].op = "DestroyTasks" => depth = 1
    BY <1>1, <1>3
  <1>5. mState # "Destroyed"
    BY DEF CallsInv
  <1>6. CallsInv'
    BY <1>1, <1>2, <1>3, <1>4, <1>5 DEF CallsInv, StackClean
  <1> QED
    BY <1>1, <1>2, <1>3, <1>4, <1>6 DEF NoCallToFinish, InDestroyTasks

LEMMA CallsReplace ==
    ASSUME TypeOK, CallsInv, depth > 0, NEW op \in {"Lose", "LoseTasks", "DestroyTasks"},
           ReplaceFrame(op),
           op = "DestroyTasks" => frame[depth].op = "Destroy",
           op # "DestroyTasks" => mState' = "Disconnected" /\ frame[depth].op \in {"Submit", "Lose"},
           mState' \in {mState, "Disconnected"}
    PROVE  /\ CallsInv' /\ ~InDestroyTasks
           /\ InDestroyTasks' <=> op = "DestroyTasks"
           /\ depth = 1 => NoCallToFinish'
           /\ NoCallToFinish => NoCallToFinish'
           /\ op = "DestroyTasks" => depth = 1
           /\ op = "LoseTasks" => depth' > 0 /\ frame'[depth'].op = "LoseTasks"
  <1> USE BoundsAssumption DEF Depths
  <1>1. /\ depth \in Depths /\ frame \in [Depths -> [op : FrameOps, at : {"Code", "Callback"}]]
        /\ depth' = depth
        /\ frame' = [frame EXCEPT ![depth] = [op |-> op, at |-> "Code"]]
    BY DEF TypeOK, ReplaceFrame
  <1>2. /\ frame'[depth].op = op
        /\ \A d \in Depths : d # depth => frame'[d].op = frame[d].op
    BY <1>1
  <1>3. \A d \in Depths : /\ d < depth => frame[d].op \in {"Tick", "Submit"}
                          /\ d > depth => frame[d].op = "None"
                          /\ frame[d].op \in {"Destroy", "DestroyTasks"} => d = 1
                          /\ frame[d].op \in {"Lose", "LoseTasks"} => mState = "Disconnected"
    BY <1>1 DEF CallsInv, StackClean
  <1>4. op = "DestroyTasks" => depth = 1
    BY <1>1, <1>3
  <1>5. mState # "Destroyed" /\ mState' # "Destroyed"
    BY DEF CallsInv
  <1>6. CallsInv'
    BY <1>1, <1>2, <1>3, <1>4, <1>5 DEF CallsInv, StackClean
  <1> QED
    BY <1>1, <1>2, <1>3, <1>4, <1>6 DEF NoCallToFinish, InDestroyTasks

(* The device is disconnected by an error that is not its loss: no Tick or *)
(* Submit is in progress, and nothing stays recorded.                      *)
LEMMA CalmInternal ==
    ASSUME TypeOK, CalmInv, NEW completed, NEW recorded, NEW handedOver \in BOOLEAN,
           DisconnectInternal(completed, recorded, handedOver), RecordingWork \subseteq recorded,
           UNCHANGED <<gpuLost, taskVars>>,
           CallsInv', NoCallToFinish', ~InDestroyTasks', ~InDestroyTasks,
           \A t \in Tasks : taskState[t] # "LostInQueue"
    PROVE  CalmInv'
  <1>1. /\ mState' = "Disconnected" /\ assertFailed' = assertFailed
        /\ mFutureSerial' <= mCompletedSerial' /\ mCompletedSerial' = mLastSubmittedSerial'
        /\ mFutureSerial' = mFutureSerial
    BY DEF DisconnectInternal, AssumedSerial, MaxOf, TypeOK
  <1>2. RecordingWork' = {}
    BY DEF DisconnectInternal, WaitForIdleForDestruction, RecordingWork, WorkIn
  <1>3. LossInv'
    BY <1>1, <1>2 DEF LossInv
  <1>4. TaskInv'
    BY <1>1 DEF CalmInv, TaskInv, taskVars
  <1> QED
    BY <1>1, <1>3, <1>4 DEF CalmInv, DestroyedIsQuiet

(* It is disconnected by its loss, which later submissions meet too.       *)
LEMMA CalmLost ==
    ASSUME TypeOK, CalmInv, DisconnectLost, gpuLost, mRecordingContext = "Ready",
           UNCHANGED <<mRecordingContext, gpuLost, taskVars>>,
           CallsInv', ~InDestroyTasks', ~InDestroyTasks,
           \A t \in Tasks : taskState[t] # "LostInQueue"
    PROVE  CalmInv'
  <1>1. /\ mState' = "Disconnected" /\ assertFailed' = assertFailed
        /\ mFutureSerial' <= mCompletedSerial' /\ mCompletedSerial' = mLastSubmittedSerial'
        /\ mFutureSerial' = mFutureSerial
    BY DEF DisconnectLost, AssumeCommandsComplete, AssumedSerial, MaxOf, TypeOK
  <1>2. LossInv'
    BY <1>1 DEF LossInv
  <1>3. TaskInv'
    BY <1>1 DEF CalmInv, TaskInv, taskVars
  <1> QED
    BY <1>1, <1>2, <1>3 DEF CalmInv, DestroyedIsQuiet

(* A call that is not made from a loss or a destruction.                   *)
LEMMA CalmAtCall ==
    ASSUME TypeOK, CalmInv, mState = "Alive", depth = 0 \/ frame[depth].op \in {"Tick", "Submit"}
    PROVE  /\ ~InDestroyTasks /\ mRecordingContext = "Ready"
           /\ \A t \in Tasks : taskState[t] # "LostInQueue"
  <1> USE BoundsAssumption DEF Depths
  <1>1. \A d \in Depths : frame[d].op \in {"Tick", "Submit", "None"}
    BY DEF CalmInv, CallsInv, StackClean, TypeOK
  <1>2. ~InDestroyTasks
    BY <1>1 DEF InDestroyTasks
  <1> QED
    BY <1>2 DEF CalmInv, LossInv, TaskInv, TypeOK

(* The Tick of APITick and of Submit.                                      *)
LEMMA CalmTick ==
    ASSUME TypeOK, CalmInv, mState = "Alive", FromWork,
           NEW op \in {"Tick", "Submit"}, NEW encoded,
           \/ TickSkipped(op, encoded) \/ TickPasses(op, encoded) \/ TickLost
           \/ TickInternal /\ depth = 0
    PROVE  CalmInv'
  <1> USE DEF deviceVars, serialVars
  <1>0. /\ ~InDestroyTasks /\ mRecordingContext = "Ready" /\ CallsInv
        /\ \A t \in Tasks : taskState[t] # "LostInQueue"
    BY CalmAtCall DEF CalmInv, FromWork
  <1>1. ASSUME mState' = mState, PushFrame(op), mRecordingContext' = mRecordingContext,
               assertFailed' = assertFailed, mFutureSerial' = mFutureSerial, taskSerial' = taskSerial,
               \A t \in Tasks : taskState'[t] \in {taskState[t], "Extracted"}
        PROVE  CalmInv'
    <2>1. CallsInv' /\ ~InDestroyTasks'
      BY <1>0, <1>1, CallsPush DEF FromWork
    <2>2. LossInv'
      BY <1>0, <1>1, <2>1 DEF LossInv
    <2>3. TaskInv'
      BY <1>0, <1>1, <2>1 DEF CalmInv, TaskInv
    <2> QED
      BY <1>1, <2>1, <2>2, <2>3 DEF CalmInv, DestroyedIsQuiet
  <1>2. CASE TickSkipped(op, encoded)
    BY <1>1, <1>2 DEF TickSkipped, taskVars
  <1>3. CASE TickPasses(op, encoded)
    BY <1>1, <1>3 DEF TickPasses, SubmitPendingCommands, ExtractTasks
  <1>4. CASE TickLost
    <2>1. CallsInv' /\ ~InDestroyTasks'
      BY <1>0, <1>4, CallsPush DEF FromWork, TickLost, DisconnectLost
    <2> QED
      BY <1>0, <1>4, <2>1, CalmLost DEF TickLost, gpuVars
  <1>5. CASE TickInternal /\ depth = 0
    <2>1. PICK c : \E handedOver \in BOOLEAN : DisconnectInternal(c, RecordingWork, handedOver)
      <3>1. \/ DisconnectInternal(mCompletedSerial, RecordingWork, FALSE)
            \/ \E c : \E handedOver \in BOOLEAN : DisconnectInternal(c, RecordingWork, handedOver)
        BY <1>5 DEF TickInternal
      <3> QED
        BY <3>1, Zenon
    <2>2. depth = 0
      BY <1>5
    <2>3. CallsInv' /\ ~InDestroyTasks' /\ NoCallToFinish'
      BY <1>0, <1>5, <2>1, <2>2, CallsPush DEF TickInternal, DisconnectInternal
    <2> QED
      BY <1>0, <1>5, <2>1, <2>3, CalmInternal DEF TickInternal
  <1> QED
    BY <1>2, <1>3, <1>4, <1>5

(* The API calls.                                                          *)
LEMMA CalmApiCall ==
    ASSUME TypeOK, CalmInv, orderly, orderly', ApiCall
    PROVE  CalmInv'
  <1> USE DEF deviceVars, serialVars, gpuVars
  <1>0. CallsInv
    BY DEF CalmInv
  <1>1. ASSUME NEW v \in Work, WriteBuffer(v) \/ UnmapAtCreation(v) PROVE CalmInv'
    <2>1. mState = "Alive" /\ (depth = 0 \/ frame[depth].op \in {"Tick", "Submit"})
      BY <1>1 DEF WriteBuffer, UnmapAtCreation, Note, FromWork
    <2>2. ~InDestroyTasks /\ mRecordingContext = "Ready"
      BY <2>1, CalmAtCall
    <2>3. /\ UNCHANGED <<mState, assertFailed, mRecordingContext, gpuLost, taskVars, stackVars>>
          /\ mFutureSerial' \in Nat /\ mFutureSerial <= mFutureSerial'
      BY <1>1, <2>2 DEF WriteBuffer, UnmapAtCreation, AddFutureSerial, MaxOf,
         GetPendingCommandSerial, TypeOK
    <2>4. /\ CallsInv' /\ ~InDestroyTasks' /\ depth' = depth
          /\ \A d \in Depths : frame'[d].op = frame[d].op
      BY <1>0, <2>2, <2>3, CallsStay
    <2>5. LossInv'
      BY <2>1, <2>2, <2>3, <2>4 DEF LossInv
    <2>6. TaskInv'
      BY <2>1, <2>3, <2>4, CalmAtCall DEF CalmInv, TaskInv, taskVars, TypeOK
    <2> QED
      BY <2>1, <2>3, <2>4, <2>5, <2>6 DEF CalmInv, DestroyedIsQuiet
  <1>2. ASSUME NEW t \in Tasks, OnSubmittedWorkDone(t) PROVE CalmInv'
    <2>1. depth = 0 \/ frame[depth].op \in {"Tick", "Submit"}
      BY <1>2 DEF OnSubmittedWorkDone, Note, FromWork
    <2>2. UNCHANGED <<mState, assertFailed, mCompletedSerial, mLastSubmittedSerial,
                      mRecordingContext, workState, gpuLost, stackVars>>
      BY <1>2 DEF OnSubmittedWorkDone
    <2>3. /\ CallsInv' /\ NoCallToFinish' = NoCallToFinish /\ InDestroyTasks' = InDestroyTasks
          /\ depth' = depth
          /\ \A d \in Depths : frame'[d].op = frame[d].op
      BY <1>0, <2>2, CallsStay
    <2>4. CASE mState = "Alive"
      <3>1. ~InDestroyTasks /\ \A u \in Tasks : taskState[u] # "LostInQueue"
        BY <2>1, <2>4, CalmAtCall
      <3>2. /\ taskState' = [taskState EXCEPT ![t] = "InFlight"]
            /\ taskSerial' = [taskSerial EXCEPT ![t] = GetPendingCommandSerial]
            /\ GetPendingCommandSerial <= mFutureSerial' /\ mFutureSerial <= mFutureSerial'
            /\ mFutureSerial' \in Nat
        BY <1>2, <2>4 DEF OnSubmittedWorkDone, AddFutureSerial, MaxOf, GetPendingCommandSerial,
           TypeOK
      <3>3. TaskInv'
        BY <2>3, <3>1, <3>2 DEF CalmInv, TaskInv, TypeOK
      <3>4. LossInv'
        BY <2>2, <2>3, <2>4, <3>1 DEF CalmInv, LossInv
      <3> QED
        BY <2>2, <2>3, <2>4, <3>3, <3>4 DEF CalmInv, DestroyedIsQuiet
    <2>5. CASE mState # "Alive"
      <3>1. /\ taskState' = [taskState EXCEPT ![t] = "DeviceLost"]
            /\ UNCHANGED <<taskSerial, mFutureSerial>>
        BY <1>2, <2>5 DEF OnSubmittedWorkDone
      <3>2. TaskInv'
        <4>1. \A u \in Tasks : taskState'[u] \in {taskState[u], "DeviceLost"}
          BY <3>1 DEF TypeOK
        <4>2. depth > 0 => frame'[depth].op = frame[depth].op
          BY <2>3, BoundsAssumption DEF TypeOK, Depths
        <4> QED
          BY <2>3, <3>1, <4>1, <4>2 DEF CalmInv, TaskInv
      <3>3. LossInv'
        BY <2>2, <2>3, <3>1 DEF CalmInv, LossInv, RecordingWork, WorkIn
      <3>4. DestroyedIsQuiet'
        BY <2>2, <3>1 DEF CalmInv, DestroyedIsQuiet, WorkIn, TypeOK
      <3> QED
        BY <2>2, <2>3, <3>2, <3>3, <3>4 DEF CalmInv
    <2> QED
      BY <2>4, <2>5
  <1>3. ASSUME NEW h \in Handles, DeleteWhenUnused(h) PROVE CalmInv'
    <2>1. UNCHANGED <<mState, assertFailed, serialVars, gpuVars, gpuLost, taskVars, stackVars>>
      BY <1>3 DEF DeleteWhenUnused
    <2> QED
      BY <2>1 DEF CalmInv, CallsInv, StackClean, LossInv, TaskInv, NoCallToFinish, InDestroyTasks,
         DestroyedIsQuiet, RecordingWork, WorkIn, taskVars, stackVars
  <1>4. ASSUME NEW v \in Work, Submit(v) PROVE CalmInv'
    <2>1. mState = "Alive" /\ FromWork
      BY <1>4 DEF Submit, Note, FromWork
    <2> QED
      BY <1>4, <2>1, CalmTick DEF Submit, Note
  <1>5. CASE APITick
    <2>1. mState = "Alive" /\ FromWork
      BY <1>5 DEF APITick, Note, FromWork
    <2> QED
      BY <1>5, <2>1, CalmTick DEF APITick, Note
  <1>6. CASE LoseForTesting
    <2>1. depth = 0 /\ mState = "Alive"
      BY <1>6 DEF LoseForTesting, Note
    <2>2. CallsInv' /\ ~InDestroyTasks' /\ ~InDestroyTasks /\ NoCallToFinish'
      BY <1>0, <1>6, <2>1, CallsPush DEF LoseForTesting, DisconnectInternal
    <2>3. \A t \in Tasks : taskState[t] # "LostInQueue"
      BY <2>1, CalmAtCall
    <2> QED
      BY <1>6, <2>2, <2>3, CalmInternal DEF LoseForTesting
  <1>7. CASE Destroy
    <2>1. depth = 0 /\ mState # "Destroyed"
      BY <1>7 DEF Destroy, Note
    <2>2. CallsInv' /\ ~InDestroyTasks' /\ ~InDestroyTasks /\ NoCallToFinish'
      BY <1>0, <1>7, <2>1, CallsPush DEF Destroy
    <2>3. UNCHANGED <<mState, assertFailed, serialVars, gpuVars, gpuLost, taskVars>>
      BY <1>7 DEF Destroy
    <2>4. LossInv'
      BY <2>2, <2>3 DEF CalmInv, LossInv, RecordingWork, WorkIn
    <2>5. TaskInv'
      BY <2>1, <2>2, <2>3 DEF CalmInv, TaskInv, taskVars
    <2> QED
      BY <2>1, <2>2, <2>3, <2>4, <2>5 DEF CalmInv, DestroyedIsQuiet
  <1> QED
    BY <1>1, <1>2, <1>3, <1>4, <1>5, <1>6, <1>7 DEF ApiCall

(* The later steps of a call.                                              *)
LEMMA CalmStackStep ==
    ASSUME TypeOK, TimelineInv, CalmInv, orderly, orderly', StackStep
    PROVE  CalmInv'
  <1> USE DEF deviceVars, serialVars, gpuVars
  <1>0. CallsInv /\ LossInv /\ TaskInv /\ ~assertFailed /\ DestroyedIsQuiet
    BY DEF CalmInv
  <1>1. ASSUME depth > 0 PROVE mState # "Destroyed" /\ depth \in Depths
    BY <1>0, <1>1, BoundsAssumption DEF CallsInv, TypeOK, Depths
  <1>2. ASSUME NEW t \in Tasks, FinishTask(t) \/ LoseTask(t) PROVE CalmInv'
    <2>1. /\ depth > 0 /\ EnterCallback
          /\ UNCHANGED <<mState, assertFailed, serialVars, gpuVars, gpuLost, taskSerial>>
      BY <1>2 DEF FinishTask, LoseTask, Running
    <2>2. /\ CallsInv' /\ NoCallToFinish' = NoCallToFinish /\ InDestroyTasks' = InDestroyTasks
          /\ depth' = depth /\ frame'[depth].op = frame[depth].op
      BY <1>0, <1>1, <2>1, CallsStay
    <2>3. \A u \in Tasks : \/ taskState'[u] \in {taskState[u], "Success"}
                           \/ taskState'[u] = "LostInQueue" /\ frame[depth].op = "LoseTasks"
      BY <1>2 DEF FinishTask, LoseTask, Running, TypeOK
    <2>4. TaskInv'
      BY <1>0, <2>1, <2>2, <2>3 DEF TaskInv
    <2>5. LossInv'
      BY <1>0, <2>1, <2>2 DEF LossInv, RecordingWork, WorkIn
    <2> QED
      BY <1>0, <1>1, <2>1, <2>2, <2>4, <2>5 DEF CalmInv, DestroyedIsQuiet
  <1>3. CASE LoseReturns
    <2>1. /\ depth > 0 /\ frame[depth].op = "LoseTasks" /\ PopFrame
          /\ UNCHANGED <<mState, assertFailed, serialVars, gpuVars, gpuLost, taskSerial>>
          /\ \A u \in Tasks : taskState'[u] \notin {"InFlight", "LostInQueue"}
      BY <1>3 DEF LoseReturns, Running
    <2>2. CallsInv' /\ ~InDestroyTasks' /\ ~InDestroyTasks /\ (NoCallToFinish => NoCallToFinish')
      BY <1>0, <2>1, CallsPop
    <2>3. LossInv'
      BY <1>0, <2>1, <2>2 DEF LossInv, RecordingWork, WorkIn
    <2> QED
      BY <1>0, <1>1, <2>1, <2>2, <2>3 DEF CalmInv, DestroyedIsQuiet, TaskInv
  <1>4. ASSUME depth > 0, frame[depth].op = "Submit"
        PROVE  /\ ~InDestroyTasks /\ mRecordingContext = "Ready"
               /\ mState = "Disconnected" => gpuLost
               /\ \A t \in Tasks : taskState[t] # "LostInQueue"
    <2>1. ~NoCallToFinish
      BY <1>1, <1>4 DEF NoCallToFinish
    <2>2. ~InDestroyTasks
      BY <1>0, <1>1, <1>4, BoundsAssumption DEF InDestroyTasks, CallsInv, StackClean, Depths, TypeOK
    <2> QED
      BY <1>0, <1>4, <2>1, <2>2 DEF LossInv, TaskInv, TypeOK
  <1>5. ASSUME NEW v \in Work, SubmitRecords(v) PROVE CalmInv'
    <2>1. /\ depth > 0 /\ frame[depth].op = "Submit" /\ ~gpuLost /\ PopFrame
          /\ UNCHANGED <<mState, assertFailed, mRecordingContext, mFutureSerial, taskVars>>
      BY <1>5 DEF SubmitRecords, SubmitContinues, Running, SubmitPendingCommands
    <2>2. mState = "Alive" /\ ~InDestroyTasks /\ mRecordingContext = "Ready"
          /\ \A t \in Tasks : taskState[t] # "LostInQueue"
      BY <1>1, <1>4, <2>1 DEF TypeOK
    <2>3. CallsInv' /\ ~InDestroyTasks'
      BY <1>0, <2>1, CallsPop
    <2>4. LossInv' /\ TaskInv'
      BY <1>0, <2>1, <2>2, <2>3 DEF LossInv, TaskInv, taskVars
    <2> QED
      BY <1>0, <2>1, <2>2, <2>3, <2>4 DEF CalmInv, DestroyedIsQuiet
  <1>6. ASSUME NEW v \in Work, SubmitLost(v) PROVE CalmInv'
    <2>1. /\ depth > 0 /\ frame[depth].op = "Submit" /\ ReplaceFrame("Lose")
          /\ DisconnectLost /\ gpuLost /\ UNCHANGED <<mRecordingContext, gpuLost, taskVars>>
      BY <1>6 DEF SubmitLost, SubmitContinues, Running
    <2>2. CallsInv' /\ ~InDestroyTasks'
      BY <1>0, <2>1, CallsReplace DEF DisconnectLost
    <2> QED
      BY <1>4, <2>1, <2>2, CalmLost
  <1>7. ASSUME NEW v \in Work, SubmitInternal(v) PROVE CalmInv'
    <2>1. /\ depth > 0 /\ frame[depth].op = "Submit" /\ ReplaceFrame("Lose")
          /\ UNCHANGED <<gpuLost, taskVars>>
      BY <1>7 DEF SubmitInternal, SubmitContinues, Running
    <2>2. PICK handedOver \in BOOLEAN :
            DisconnectInternal(mCompletedSerial, RecordingWork \cup {v}, handedOver)
      BY <1>7 DEF SubmitInternal
    <2>3. depth = 1
      BY <1>7 DEF SubmitInternal, Note
    <2>4. CallsInv' /\ ~InDestroyTasks' /\ NoCallToFinish'
      BY <1>0, <2>1, <2>2, <2>3, CallsReplace DEF DisconnectInternal
    <2> QED
      BY <1>4, <2>1, <2>2, <2>4, CalmInternal
  <1>8. ~SubmitFails
    BY <1>1, <1>4 DEF SubmitFails, Running
  <1>9. CASE TickReturns
    <2>1. /\ depth > 0 /\ frame[depth].op = "Tick"
      BY <1>9 DEF TickReturns, Running
    <2>2. PopFrame /\ UNCHANGED <<mState, assertFailed, serialVars, gpuVars, gpuLost, taskVars>>
      BY <1>1, <1>9, <2>1 DEF TickReturns
    <2>3. CallsInv' /\ ~InDestroyTasks' /\ ~InDestroyTasks /\ (NoCallToFinish => NoCallToFinish')
      BY <1>0, <2>1, <2>2, CallsPop
    <2>4. LossInv'
      BY <1>0, <2>2, <2>3 DEF LossInv, RecordingWork, WorkIn
    <2>5. TaskInv'
      BY <1>0, <2>1, <2>2, <2>3 DEF TaskInv, taskVars
    <2> QED
      BY <1>0, <1>1, <2>1, <2>2, <2>3, <2>4, <2>5 DEF CalmInv, DestroyedIsQuiet
  <1>10. CASE LoseCallback \/ DestroyCallback
    <2>1. /\ depth > 0 /\ EnterCallback
          /\ UNCHANGED <<mState, assertFailed, serialVars, gpuVars, gpuLost, taskVars>>
      BY <1>10 DEF LoseCallback, DestroyCallback, Running
    <2>2. /\ CallsInv' /\ NoCallToFinish' = NoCallToFinish /\ InDestroyTasks' = InDestroyTasks
          /\ depth' = depth /\ frame'[depth].op = frame[depth].op
      BY <1>0, <1>1, <2>1, CallsStay
    <2>3. LossInv' /\ TaskInv'
      BY <1>0, <2>1, <2>2 DEF LossInv, TaskInv, RecordingWork, WorkIn, taskVars
    <2> QED
      BY <1>0, <1>1, <2>1, <2>2, <2>3 DEF CalmInv, DestroyedIsQuiet
  <1>11. CASE LoseStartsTasks
    <2>1. /\ depth > 0 /\ frame[depth].op = "Lose" /\ ReplaceFrame("LoseTasks")
          /\ UNCHANGED <<mState, assertFailed, serialVars, gpuVars, gpuLost, taskVars>>
      BY <1>11 DEF LoseStartsTasks, Running
    <2>2. mState = "Disconnected"
      BY <1>0, <1>1, <2>1 DEF CallsInv
    <2>3. CallsInv' /\ ~InDestroyTasks' /\ ~InDestroyTasks /\ (NoCallToFinish => NoCallToFinish')
          /\ depth' > 0 /\ frame'[depth'].op = "LoseTasks"
      BY <1>0, <2>1, <2>2, CallsReplace
    <2>4. LossInv' /\ TaskInv'
      BY <1>0, <2>1, <2>3 DEF LossInv, TaskInv, RecordingWork, WorkIn, taskVars
    <2> QED
      BY <1>0, <2>1, <2>2, <2>3, <2>4 DEF CalmInv, DestroyedIsQuiet
  <1>12. ASSUME depth > 0, frame[depth].op = "Destroy"
         PROVE  /\ depth = 1 /\ ~InDestroyTasks
                /\ \A t \in Tasks : taskState[t] # "LostInQueue"
    <2>1. depth = 1
      BY <1>0, <1>1, <1>12 DEF CallsInv
    <2>2. ~InDestroyTasks
      BY <1>0, <1>1, <1>12 DEF InDestroyTasks, CallsInv
    <2> QED
      BY <1>0, <1>12, <2>1, <2>2 DEF TaskInv
  <1>13. CASE DestroyAlive
    <2>1. /\ depth > 0 /\ frame[depth].op = "Destroy" /\ ReplaceFrame("DestroyTasks")
          /\ mState = "Alive" /\ UNCHANGED <<mState, assertFailed, gpuLost, mFutureSerial>>
      BY <1>13 DEF DestroyAlive, DestroyProceeds, Running, AssumeCommandsComplete
    <2>2. /\ CallsInv' /\ InDestroyTasks' /\ NoCallToFinish'
      BY <1>0, <1>12, <2>1, CallsReplace
    <2>3. RecordingWork' = {}
      BY <1>13 DEF DestroyAlive, WaitForIdleForDestruction, RecordingWork, WorkIn
    <2>4. mCompletedSerial' = mLastSubmittedSerial'
      BY <1>13 DEF DestroyAlive, AssumeCommandsComplete
    <2>5. LossInv'
      BY <2>1, <2>2, <2>3, <2>4 DEF LossInv
    <2>6. \A t \in Tasks : taskState'[t] \notin {"InFlight", "LostInQueue"}
      <3>1. mFutureSerial <= AssumedSerial(mLastSubmittedSerial)
            /\ AssumedSerial(mLastSubmittedSerial) \in Nat /\ mFutureSerial \in Nat
        BY DEF AssumedSerial, MaxOf, TypeOK
      <3>2. \A t \in Tasks : taskState[t] = "InFlight" =>
                 taskSerial[t] <= AssumedSerial(mLastSubmittedSerial)
        BY <1>0, <3>1 DEF TaskInv, TypeOK
      <3>3. ExtractTasks(AssumedSerial(mLastSubmittedSerial), depth)
        BY <1>13 DEF DestroyAlive
      <3> QED
        BY <1>12, <2>1, <3>2, <3>3 DEF ExtractTasks
    <2> QED
      BY <1>0, <2>1, <2>2, <2>5, <2>6 DEF CalmInv, DestroyedIsQuiet, TaskInv
  <1>14. CASE DestroyDisconnected
    <2>1. /\ depth > 0 /\ frame[depth].op = "Destroy" /\ ReplaceFrame("DestroyTasks")
          /\ mState = "Disconnected"
          /\ UNCHANGED <<mState, assertFailed, serialVars, gpuVars, gpuLost>>
      BY <1>14 DEF DestroyDisconnected, DestroyProceeds, DestroyAsserts, Running
    <2>2. /\ CallsInv' /\ InDestroyTasks' /\ NoCallToFinish'
      BY <1>0, <1>12, <2>1, CallsReplace
    <2>3. LossInv'
      BY <1>0, <2>1, <2>2 DEF LossInv, RecordingWork, WorkIn
    <2>4. \A t \in Tasks : taskState'[t] \notin {"InFlight", "LostInQueue"}
      <3>1. \A t \in Tasks : taskState[t] = "InFlight" => taskSerial[t] <= mCompletedSerial
        BY <1>0, <2>1 DEF LossInv, TaskInv, TypeOK
      <3>2. ExtractTasks(mCompletedSerial, depth)
        BY <1>14 DEF DestroyDisconnected
      <3> QED
        BY <1>12, <2>1, <3>1, <3>2 DEF ExtractTasks
    <2> QED
      BY <1>0, <2>1, <2>2, <2>3, <2>4 DEF CalmInv, DestroyedIsQuiet, TaskInv
  <1>15. ~DestroyFails
    <2>1. SUFFICES ASSUME DestroyFails PROVE FALSE
      OBVIOUS
    <2>2. depth > 0 /\ frame[depth].op = "Destroy" /\ mState # "Alive" /\ ~DestroyAsserts
      BY <2>1 DEF DestroyFails, DestroyProceeds, Running
    <2>3. mState = "Disconnected"
      BY <1>1, <2>2 DEF TypeOK
    <2> QED
      BY <1>0, <1>12, <2>2, <2>3 DEF DestroyAsserts, LossInv
  <1>16. CASE DestroyReturns
    <2>1. /\ depth > 0 /\ frame[depth].op = "DestroyTasks" /\ PopFrame /\ mState' = "Destroyed"
          /\ UNCHANGED <<assertFailed, mFutureSerial, gpuLost, taskVars>>
      BY <1>16 DEF DestroyReturns, Running
    <2>2. InDestroyTasks
      BY <1>1, <2>1 DEF InDestroyTasks
    <2>3. /\ CallsInv' /\ ~InDestroyTasks' /\ NoCallToFinish'
      BY <1>0, <2>1, CallsPop
    <2>4. \A t \in Tasks : taskState[t] \notin {"InFlight", "LostInQueue"}
      BY <1>0, <2>1, <2>2 DEF TaskInv
    <2>5. \A w \in Work : workState[w] # "Submitted"
      BY <1>0, <1>1, <2>1, <2>2 DEF LossInv, TimelineInv, FenceInv, TypeOK
    <2>6. \A w \in Work : workState'[w] # "Submitted"
      <3>1. gpuLost \/ RecordingWork = {}
        BY <1>0, <2>2 DEF LossInv
      <3> QED
        BY <1>16, <2>5, <3>1 DEF DestroyReturns
    <2>7. LossInv' /\ TaskInv'
      BY <2>1, <2>3, <2>4 DEF LossInv, TaskInv, taskVars
    <2>8. DestroyedIsQuiet'
      BY <2>1, <2>4, <2>6 DEF DestroyedIsQuiet, WorkIn, taskVars
    <2> QED
      BY <1>0, <2>1, <2>3, <2>7, <2>8 DEF CalmInv
  <1>17. ~DestroyReturnsFails
    BY <1>1 DEF DestroyReturnsFails, Running
  <1>18. ~LoseReturnsFails
    BY <1>1 DEF LoseReturnsFails, Running
  <1> QED
    BY <1>2, <1>3, <1>5, <1>6, <1>7, <1>8, <1>9, <1>10, <1>11, <1>13, <1>14, <1>15, <1>16, <1>17,
       <1>18        DEF StackStep

(* A step of the GPU, or none.                                             *)
LEMMA CalmQuiet ==
    ASSUME TypeOK, CalmInv, orderly,
           UNCHANGED <<mState, assertFailed, serialVars, mRecordingContext>>,
           UNCHANGED <<taskVars, stackVars>>, gpuLost' \in {gpuLost, TRUE},
           \A w \in Work :
              \/ workState'[w] = workState[w]
              \/ workState[w] = "Submitted" /\ workState'[w] \notin {"Recording", "Submitted"}
    PROVE  CalmInv'
  <1> USE DEF serialVars
  <1>1. gpuLost => gpuLost'
    OBVIOUS
  <1>2. CallsInv' /\ NoCallToFinish' = NoCallToFinish /\ InDestroyTasks' = InDestroyTasks
    BY CallsStay DEF CalmInv
  <1>3. RecordingWork' = RecordingWork
    BY DEF RecordingWork, WorkIn
  <1>4. LossInv'
    BY <1>1, <1>2, <1>3 DEF CalmInv, LossInv
  <1>5. TaskInv'
    BY <1>2 DEF CalmInv, TaskInv, taskVars, stackVars
  <1>6. DestroyedIsQuiet'
    BY DEF CalmInv, DestroyedIsQuiet, WorkIn, taskVars
  <1> QED
    BY <1>2, <1>4, <1>5, <1>6 DEF CalmInv

(* A device that is no longer used in order stays so.                      *)
LEMMA OrderStays == ASSUME [Next]_vars, orderly' PROVE orderly
  BY DEF Next, ApiCall, StackStep, GpuExecute, GpuLoss, vars, Note, WriteBuffer, UnmapAtCreation,
     OnSubmittedWorkDone, DeleteWhenUnused, APITick, Submit, LoseForTesting, Destroy, FinishTask,
     LoseTask, SubmitRecords, SubmitLost, SubmitInternal, SubmitFails, TickReturns, LoseCallback,
     LoseStartsTasks, LoseReturns, LoseReturnsFails, DestroyCallback, DestroyAlive,
     DestroyDisconnected, DestroyFails, DestroyReturns, DestroyReturnsFails

LEMMA CalmStep == TypeOK /\ TimelineInv /\ OrderlyInv /\ [Next]_vars => OrderlyInv'
  <1> SUFFICES ASSUME TypeOK, TimelineInv, OrderlyInv, [Next]_vars, orderly'
               PROVE  CalmInv'
    BY DEF OrderlyInv
  <1> USE DEF deviceVars, serialVars, gpuVars
  <1>0. orderly /\ CalmInv
    BY OrderStays DEF OrderlyInv
  <1>1. CASE GpuExecute
    BY <1>0, <1>1, CalmQuiet DEF GpuExecute
  <1>2. CASE GpuLoss
    BY <1>0, <1>2, CalmQuiet DEF GpuLoss
  <1>3. CASE UNCHANGED vars
    BY <1>0, <1>3, CalmQuiet DEF vars
  <1> QED
    BY <1>0, <1>1, <1>2, <1>3, CalmApiCall, CalmStackStep DEF Next

LEMMA CalmInit == Init => OrderlyInv
  BY BoundsAssumption DEF Init, OrderlyInv, CalmInv, CallsInv, StackClean, LossInv, TaskInv,
     NoCallToFinish, InDestroyTasks, DestroyedIsQuiet, RecordingWork, WorkIn, NoFrame, Depths,
     Work, Tasks

LEMMA CalmInvariant == Spec => []OrderlyInv
  BY CalmInit, CalmStep, TypeCorrect, TimelineInvariant, PTL DEF Spec

(* No ASSERT of Tick, Submit, HandleError or Destroy fails and none uses a *)
(* recording context, a queue or a task manager that was reset, in any     *)
(* behaviour up to the call that ends the device from inside a callback.   *)
THEOREM AssertionsHold == Spec => []NoAssertFails
  <1>1. OrderlyInv => NoAssertFails
    BY DEF OrderlyInv, CalmInv, NoAssertFails
  <1> QED
    BY <1>1, CalmInvariant, PTL

(* As long as no callback has ended the device, Destroy leaves nothing on  *)
(* the GPU and no task in the queue, which ~QueueBase asserts.             *)
THEOREM DestroyEndsEverything == Spec => []DestroyedIsQuiet
  <1>1. OrderlyInv => DestroyedIsQuiet
    BY DEF OrderlyInv, CalmInv, DestroyedIsQuiet
  <1> QED
    BY <1>1, CalmInvariant, PTL
=============================================================================
