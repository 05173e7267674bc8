------------------------ MODULE BufferMappingProofs ------------------------
(***************************************************************************)
(* Proofs about BufferMapping, for any number of requests, serials and     *)
(* nested calls: callbacks are called once, requests are never lost, CPU   *)
(* and GPU never have the buffer together, and the buffer implements       *)
(* BufferMapProtocol.                                                      *)
(***************************************************************************)
EXTENDS MCBufferMapping, TLAPS

(* A call pushed on, popped off or replaced on the stack leaves it typed.  *)
LEMMA MappingStack ==
    ASSUME MappingTypeOK, NEW op \in FrameOps, NEW at \in {"Code", "Callback"},
           \/ Push(op, at)
           \/ depth > 0 /\ (Pop \/ Replace(op, at))
           \/ UNCHANGED stackVars
    PROVE  depth' \in 0..MaxDepth /\ frame' \in [Depths -> [op : FrameOps, at : {"Code", "Callback"}]]
  <1> USE MappingBounds DEF Depths
  <1>1. CASE Push(op, at)
    BY <1>1 DEF MappingTypeOK, Push
  <1>2. CASE depth > 0 /\ Pop
    BY <1>2 DEF MappingTypeOK, Pop, FrameOps
  <1>3. CASE depth > 0 /\ Replace(op, at)
    BY <1>3 DEF MappingTypeOK, Replace
  <1>4. CASE UNCHANGED stackVars
    BY <1>4 DEF MappingTypeOK, stackVars
  <1> QED
    BY <1>1, <1>2, <1>3, <1>4

(* A new task, and the tasks that Queue::Tick moves out of the queue.      *)
LEMMA MappingTrack ==
    ASSUME MappingTypeOK, NEW t \in Tasks, NEW kind \in {"Map", "WorkDone"}, TrackTask(t, kind)
    PROVE  /\ taskState' \in [Tasks -> {"Unused", "InFlight", "Extracted", "Done"}]
           /\ taskKind' \in [Tasks -> {"None", "Map", "WorkDone"}]
           /\ taskSerial' \in [Tasks -> Nat] /\ taskFrame' \in [Tasks -> 0..MaxDepth]
           /\ mFutureSerial' \in Nat
  BY DEF MappingTypeOK, TrackTask, GetPendingCommandSerial, MaxOf

LEMMA MappingExtract ==
    ASSUME MappingTypeOK, NEW serial, NEW d \in 0..MaxDepth, ExtractTasks(serial, d)
    PROVE  /\ taskState' \in [Tasks -> {"Unused", "InFlight", "Extracted", "Done"}]
           /\ taskKind' \in [Tasks -> {"None", "Map", "WorkDone"}]
           /\ taskSerial' \in [Tasks -> Nat] /\ taskFrame' \in [Tasks -> 0..MaxDepth]
  BY DEF MappingTypeOK, ExtractTasks

LEMMA MappingAssume ==
    ASSUME MappingTypeOK, NEW last \in Nat, AssumeCommandsComplete(last)
    PROVE  /\ mCompletedSerial' \in Nat /\ mLastSubmittedSerial' \in Nat /\ gpuSerial' \in Nat
  BY DEF MappingTypeOK, AssumeCommandsComplete, AssumedSerial, MaxOf

LEMMA MappingTick ==
    ASSUME MappingTypeOK, depth < MaxDepth, DeviceTick
    PROVE  /\ mCompletedSerial' \in Nat /\ mLastSubmittedSerial' \in Nat /\ gpuSerial' \in Nat
           /\ mFutureSerial' \in Nat /\ useSerial' \in Nat
           /\ recording' \in {"Empty", "Other", "Uses"}
           /\ taskState' \in [Tasks -> {"Unused", "InFlight", "Extracted", "Done"}]
           /\ taskKind' \in [Tasks -> {"None", "Map", "WorkDone"}]
           /\ taskSerial' \in [Tasks -> Nat] /\ taskFrame' \in [Tasks -> 0..MaxDepth]
  <1>1. CASE ~TickNeeded
    BY <1>1 DEF DeviceTick, MappingTypeOK, serialVars, useVars, taskVars
  <1>2. CASE TickNeeded
    <2>1. depth + 1 \in 0..MaxDepth
      BY MappingBounds DEF MappingTypeOK
    <2>2. ExtractTasks(mCompletedSerial', depth + 1)
      BY <1>2 DEF DeviceTick
    <2>3. /\ mCompletedSerial' \in Nat /\ mLastSubmittedSerial' \in Nat /\ gpuSerial' \in Nat
          /\ mFutureSerial' \in Nat /\ useSerial' \in Nat
          /\ recording' \in {"Empty", "Other", "Uses"}
      BY <1>2 DEF DeviceTick, MappingTypeOK, AssumeCommandsComplete, AssumedSerial, MaxOf
    <2> QED
      BY <2>1, <2>2, <2>3, MappingExtract
  <1> QED
    BY <1>1, <1>2

(* A request is answered.                                                  *)
LEMMA MappingAnswer ==
    ASSUME MappingTypeOK, NEW status \in Answers, CallMapCallback(status)
    PROVE  answer' \in [Tasks -> Answers] /\ mMapCallback' \in 0..MaxTasks
  <1> DEFINE with == IF answer[mMapCallback] # "Waiting" THEN "Twice"
                     ELSE IF deviceState # "Alive" THEN "DeviceLost" ELSE status
  <1>1. with \in Answers
    BY DEF Answers
  <1>2. answer' = [answer EXCEPT ![mMapCallback] = with] /\ mMapCallback' = 0
    BY DEF CallMapCallback
  <1>3. answer \in [Tasks -> Answers]
    BY DEF MappingTypeOK
  <1> HIDE DEF with
  <1>4. answer' \in [Tasks -> Answers]
    BY <1>1, <1>2, <1>3
  <1>5. mMapCallback' \in 0..MaxTasks
    BY <1>2, MappingBounds
  <1> QED
    BY <1>4, <1>5

LEMMA MappingRun ==
    ASSUME MappingTypeOK, NEW t \in Tasks, NEW status \in Answers, RunTask(t, status), depth > 0
    PROVE  /\ answer' \in [Tasks -> Answers] /\ mMapCallback' \in 0..MaxTasks
           /\ taskState' \in [Tasks -> {"Unused", "InFlight", "Extracted", "Done"}]
           /\ depth' \in 0..MaxDepth
           /\ frame' \in [Depths -> [op : FrameOps, at : {"Code", "Callback"}]]
  <1>1. taskState' \in [Tasks -> {"Unused", "InFlight", "Extracted", "Done"}]
    BY DEF RunTask, MappingTypeOK
  <1>2. frame[depth].op \in FrameOps
    BY MappingBounds DEF MappingTypeOK, Depths
  <1>3. Replace(frame[depth].op, "Callback") \/ UNCHANGED stackVars
    BY DEF RunTask
  <1>4. answer' \in [Tasks -> Answers] /\ mMapCallback' \in 0..MaxTasks
    <2>1. CASE UNCHANGED <<answer, mMapCallback>>
      BY <2>1 DEF MappingTypeOK
    <2>2. CASE CallMapCallback(status)
      BY <2>2, MappingAnswer
    <2> QED
      BY <2>1, <2>2 DEF RunTask
  <1> QED
    BY <1>1, <1>2, <1>3, <1>4, MappingStack

(* Each action leaves every variable typed.                                *)
LEMMA MappingTypeStep == MappingTypeOK /\ [Next]_vars => MappingTypeOK'
  <1> SUFFICES ASSUME MappingTypeOK, [Next]_vars PROVE MappingTypeOK'
    OBVIOUS
  <1> USE MappingBounds DEF serialVars, useVars, bufferVars, taskVars, FrameOps, Answers
  <1>1. ASSUME NEW t \in Tasks, MapAsync(t) PROVE MappingTypeOK'
    <2>1. answer' \in [Tasks -> Answers] /\ mLastMapID' \in 0..MaxTasks /\ mMapCallback' \in 0..MaxTasks
      BY <1>1 DEF MapAsync, MappingTypeOK, Tasks
    <2>2. recording' \in {"Empty", "Other", "Uses"}
      BY <1>1 DEF MapAsync, MappingTypeOK
    <2> QED
      BY <1>1, <2>1, <2>2, MappingTrack, MappingStack DEF MapAsync, MappingTypeOK
  <1>2. ASSUME NEW t \in Tasks, OnSubmittedWorkDone(t) PROVE MappingTypeOK'
    BY <1>2, MappingTrack, MappingStack DEF OnSubmittedWorkDone, MappingTypeOK
  <1>3. CASE UnmapCalls
    BY <1>3, MappingAnswer, MappingStack DEF UnmapCalls, MappingTypeOK
  <1>4. CASE UnmapReturns
    BY <1>4, MappingStack DEF UnmapReturns, UnmapEnds, Running, MappingTypeOK
  <1>5. CASE UnmapMapped
    BY <1>5, MappingStack DEF UnmapMapped, UnmapEnds, MappingTypeOK
  <1>6. CASE UnmapAtCreation
    BY <1>6, MappingStack DEF UnmapAtCreation, MappingTypeOK
  <1>7. CASE DestroyCalls
    BY <1>7, MappingAnswer, MappingStack DEF DestroyCalls, MappingTypeOK
  <1>8. CASE DestroyReturns
    <2>1. Pop /\ depth > 0 /\ mMapCallback' \in 0..MaxTasks
      BY <1>8 DEF DestroyReturns, Running, MappingTypeOK
    <2> QED
      BY <1>8, <2>1, MappingStack DEF DestroyReturns, DestroyEnds, MappingTypeOK
  <1>9. CASE DestroyAtOnce
    BY <1>9, MappingStack DEF DestroyAtOnce, DestroyEnds, MappingTypeOK
  <1>10. CASE LockTwice
    BY <1>10, MappingStack DEF LockTwice, MappingTypeOK
  <1>11. CASE WriteBuffer
    BY <1>11, MappingStack DEF WriteBuffer, GetPendingCommandSerial, MaxOf, MappingTypeOK
  <1>12. CASE Tick
    BY <1>12, MappingTick, MappingStack DEF Tick, Push, MappingTypeOK
  <1>13. CASE Submit
    BY <1>13, MappingTick, MappingStack DEF Submit, Push, MappingTypeOK
  <1>14. CASE LoseForTesting
    BY <1>14, MappingAssume, MappingStack DEF LoseForTesting, MappingTypeOK
  <1>15. CASE DeviceDestroy
    BY <1>15, MappingAssume, MappingStack DEF DeviceDestroy, MappingTypeOK
  <1>16. ASSUME NEW t \in Tasks, FinishTask(t) PROVE MappingTypeOK'
    <2>1. RunTask(t, "Success") /\ depth > 0
      BY <1>16 DEF FinishTask, Running
    <2> QED
      BY <1>16, <2>1, MappingRun DEF FinishTask, MappingTypeOK
  <1>17. ASSUME NEW t \in Tasks, LoseTask(t) PROVE MappingTypeOK'
    <2>1. RunTask(t, "DeviceLost") /\ depth > 0
      BY <1>17 DEF LoseTask, Running
    <2> QED
      BY <1>17, <2>1, MappingRun DEF LoseTask, MappingTypeOK
  <1>18. CASE TickReturns \/ LoseReturns
    BY <1>18, MappingStack DEF TickReturns, LoseReturns, Running, MappingTypeOK
  <1>19. CASE SubmitReturns
    BY <1>19, MappingStack DEF SubmitReturns, Running, MappingTypeOK
  <1>20. CASE DeviceDestroyTicks
    BY <1>20, MappingExtract, MappingStack DEF DeviceDestroyTicks, Running, MappingTypeOK
  <1>21. CASE DeviceDestroyReturns
    BY <1>21, MappingAssume, MappingStack DEF DeviceDestroyReturns, Running, MappingTypeOK
  <1>22. CASE GpuExecute
    BY <1>22, MappingStack DEF GpuExecute, MappingTypeOK
  <1>23. CASE UNCHANGED vars
    BY <1>23, MappingStack DEF vars, MappingTypeOK
  <1> QED
    BY <1>1, <1>2, <1>3, <1>4, <1>5, <1>6, <1>7, <1>8, <1>9, <1>10, <1>11, <1>12, <1>13, <1>14,
       <1>15, <1>16, <1>17, <1>18, <1>19, <1>20, <1>21, <1>22, <1>23
       DEF Next, StackStep, ApiCall

(* The state in which a buffer is created.                                 *)
LEMMA MappingTypeInit == Init => MappingTypeOK
  <1> SUFFICES ASSUME Init PROVE MappingTypeOK
    OBVIOUS
  <1>1. mStagingBuffer \in BOOLEAN /\ isMappable \in BOOLEAN /\ inList \in BOOLEAN
        /\ deadlocked \in BOOLEAN
    BY Zenon DEF Init
  <1>2. /\ taskFrame \in [Tasks -> 0..MaxDepth] /\ depth \in 0..MaxDepth
        /\ mMapCallback \in 0..MaxTasks /\ mLastMapID \in 0..MaxTasks
        /\ frame \in [Depths -> [op : FrameOps, at : {"Code", "Callback"}]]
        /\ answer \in [Tasks -> Answers]
    BY MappingBounds DEF Init, FrameOps, Answers
  <1> QED
    BY <1>1, <1>2 DEF Init, MappingTypeOK

(* The steps that call or set a map callback; no other touches a request.  *)
LEMMA RequestSteps ==
    ASSUME [Next]_vars
    PROVE  \/ \E t \in Tasks : MapAsync(t) \/ FinishTask(t) \/ LoseTask(t)
           \/ UnmapCalls \/ UnmapReturns \/ UnmapMapped \/ DestroyCalls \/ DestroyReturns
           \/ UNCHANGED <<answer, mMapCallback, mLastMapID>>
  BY DEF Next, vars, StackStep, ApiCall, bufferVars, OnSubmittedWorkDone, UnmapAtCreation,
         DestroyAtOnce, LockTwice, WriteBuffer, Tick, Submit, LoseForTesting, DeviceDestroy,
         TickReturns, LoseReturns, SubmitReturns, DeviceDestroyTicks, DeviceDestroyReturns,
         GpuExecute

(* Calling the callback answers the request that waits for it.             *)
LEMMA CallMapCallbackOnce ==
    ASSUME MappingTypeOK, CallbackInv, CalledOnce, mMapCallback # 0,
           NEW status \in Answers \ {"Twice"}, CallMapCallback(status)
    PROVE  /\ mMapCallback' = 0 /\ mMapCallback \in Tasks
           /\ answer' = [answer EXCEPT ![mMapCallback] =
                            IF deviceState # "Alive" THEN "DeviceLost" ELSE status]
           /\ CalledOnce'
  <1>1. mMapCallback \in Tasks /\ answer[mMapCallback] = "Waiting"
    BY MappingBounds DEF MappingTypeOK, CallbackInv, Waiting, Tasks
  <1> DEFINE with == IF deviceState # "Alive" THEN "DeviceLost" ELSE status
  <1>2. answer' = [answer EXCEPT ![mMapCallback] = with] /\ mMapCallback' = 0
    BY <1>1 DEF CallMapCallback
  <1>3. with # "Twice"
    OBVIOUS
  <1>4. answer \in [Tasks -> Answers]
    BY DEF MappingTypeOK
  <1>5. ASSUME NEW with2, answer' = [answer EXCEPT ![mMapCallback] = with2], with2 # "Twice"
        PROVE  CalledOnce'
    BY <1>4, <1>5 DEF CalledOnce
  <1> QED
    BY <1>1, <1>2, <1>3, <1>5

LEMMA RunTaskOnce ==
    ASSUME MappingTypeOK, CallbackInv, CalledOnce, NEW t \in Tasks,
           NEW status \in Answers \ {"Twice"}, RunTask(t, status)
    PROVE  \/ UNCHANGED <<answer, mMapCallback>>
           \/ /\ taskKind[t] = "Map" /\ mMapCallback = t /\ mLastMapID = t
              /\ mMapCallback' = 0
              /\ answer' = [answer EXCEPT ![t] =
                               IF deviceState # "Alive" THEN "DeviceLost" ELSE status]
              /\ CalledOnce'
  BY CallMapCallbackOnce DEF RunTask, CallsBack, CallbackInv

LEMMA OnceStep ==
    MappingTypeOK /\ CallbackInv /\ CalledOnce /\ [Next]_vars => CallbackInv' /\ CalledOnce'
  <1> SUFFICES ASSUME MappingTypeOK, CallbackInv, CalledOnce, [Next]_vars
               PROVE  CallbackInv' /\ CalledOnce'
    OBVIOUS
  <1>1. ASSUME NEW t \in Tasks, MapAsync(t) PROVE CallbackInv' /\ CalledOnce'
    BY <1>1 DEF MapAsync, CallbackInv, CalledOnce, Waiting, MappingTypeOK, Tasks
  <1>2. ASSUME NEW t \in Tasks, NEW status \in Answers \ {"Twice"}, RunTask(t, status),
               mLastMapID' = mLastMapID
        PROVE  CallbackInv' /\ CalledOnce'
    BY <1>2, RunTaskOnce DEF CallbackInv, CalledOnce, Waiting
  <1>3. ASSUME NEW t \in Tasks, FinishTask(t) \/ LoseTask(t) PROVE CallbackInv' /\ CalledOnce'
    BY <1>2, <1>3 DEF FinishTask, LoseTask, Answers
  <1>4. CASE UnmapCalls
    BY <1>4, CallMapCallbackOnce DEF UnmapCalls, CallsBack, CallbackInv, Answers
  <1>5. CASE DestroyCalls
    BY <1>5, CallMapCallbackOnce DEF DestroyCalls, CallsBack, CallbackInv, Answers
  <1>6. CASE UnmapReturns \/ UnmapMapped \/ DestroyReturns
    BY <1>6 DEF UnmapReturns, UnmapMapped, UnmapEnds, DestroyReturns, CallbackInv, CalledOnce
  <1>7. CASE UNCHANGED <<answer, mMapCallback, mLastMapID>>
    BY <1>7 DEF CallbackInv, CalledOnce, Waiting
  <1> QED
    BY <1>1, <1>3, <1>4, <1>5, <1>6, <1>7, RequestSteps

(* Whatever is called from whatever callback, no callback of MapAsync is   *)
(* called twice, and every variable keeps its type.                        *)
THEOREM CallbacksRunOnce == Spec => [](MappingTypeOK /\ CalledOnce)
  <1>1. Init => MappingTypeOK /\ CallbackInv /\ CalledOnce
    BY MappingTypeInit DEF Init, CallbackInv, CalledOnce
  <1>2. MappingTypeOK /\ CallbackInv /\ CalledOnce /\ [Next]_vars =>
            (MappingTypeOK /\ CallbackInv /\ CalledOnce)'
    BY MappingTypeStep, OnceStep
  <1> QED
    BY <1>1, <1>2, PTL DEF Spec

-----------------------------------------------------------------------------
(* Requests are not lost.                                                  *)

(* From a callback of Unmap or of a destruction nothing is called that     *)
(* maps, destroys, ticks or submits.                                       *)
LEMMA CalmCalls ==
    ASSUME CalmUnmapCallbacks, MappingTypeOK, depth > 0, frame[depth].op \in {"Unmap", "Destroy"},
           NEW op \in {"MapAsync", "Destroy", "Submit", "Tick", "LoseForTesting", "DeviceDestroy"}
    PROVE  ~CanCall(op)
  BY MappingOps DEF CalmUnmapCallbacks, CanCall

(* A call that starts: none of Unmap and Destroy is below it.              *)
LEMMA PushStack ==
    ASSUME MappingTypeOK, StackInv, NEW op \in FrameOps \ {"None"}, NEW at, Push(op, at),
           depth > 0 => frame[depth].op \notin {"Unmap", "Destroy"},
           deviceState' = deviceState \/ deviceState' # "Alive",
           op = "Lose" => deviceState' # "Alive",
           op \in {"Unmap", "Destroy"} => mMapCallback' = 0,
           op = "Destroy" => ~inList',
           op = "Unmap" => mState' = "Mapped" /\ answer'[mLastMapID'] = "Unmapped"
    PROVE  StackInv'
  <1>1. depth \in Nat /\ depth' = depth + 1 /\ depth' \in Depths /\ depth' > 0
    BY MappingBounds DEF Push, MappingTypeOK, Depths
  <1>2. frame'[depth'].op = op /\ \A d \in Depths : d # depth' => frame'[d] = frame[d]
    BY <1>1 DEF Push, MappingTypeOK
  <1>3. \A d \in Depths : /\ d > depth => frame[d].op = "None"
                          /\ d < depth => frame[d].op \notin {"Unmap", "Destroy"}
                          /\ frame[d].op = "Lose" => deviceState # "Alive"
    BY DEF StackInv
  <1>4. ASSUME NEW d \in Depths
        PROVE  /\ d > depth' => frame'[d].op = "None"
               /\ d < depth' => frame'[d].op \notin {"Unmap", "Destroy"}
               /\ frame'[d].op = "Lose" => deviceState' # "Alive"
    <2>1. d \in Nat /\ (d = depth' \/ d > depth' \/ d < depth \/ (d = depth /\ depth > 0))
      BY <1>1, MappingBounds DEF Depths
    <2>2. CASE d = depth'
      BY <1>1, <1>2, <2>2
    <2>3. CASE d # depth'
      <3>1. frame'[d] = frame[d]
        BY <1>2, <2>3
      <3>2. /\ d > depth => frame[d].op = "None"
            /\ d < depth => frame[d].op \notin {"Unmap", "Destroy"}
            /\ frame[d].op = "Lose" => deviceState # "Alive"
        BY <1>3
      <3>3. (d > depth' => d > depth) /\ (d < depth' => d < depth \/ (d = depth /\ depth > 0))
        BY <1>1, <2>1
      <3> QED
        BY <3>1, <3>2, <3>3
    <2> QED
      BY <2>2, <2>3
  <1> QED
    BY <1>1, <1>2, <1>4 DEF StackInv

(* A call that returns, or goes on: what is below it stays as it is.       *)
LEMMA PopStack ==
    ASSUME MappingTypeOK, StackInv, depth > 0, Pop,
           deviceState' = deviceState \/ deviceState' # "Alive"
    PROVE  StackInv'
  BY MappingBounds DEF StackInv, Pop, MappingTypeOK, Depths

LEMMA ReplaceStack ==
    ASSUME MappingTypeOK, StackInv, depth > 0, NEW op \in FrameOps, NEW at, Replace(op, at),
           op \notin {"Lose", "Unmap", "Destroy"} \/ (op = "Lose" /\ frame[depth].op = "Lose"),
           deviceState' = deviceState
    PROVE  StackInv'
  BY MappingBounds DEF StackInv, Replace, MappingTypeOK, Depths

(* Moving tasks out of the queue keeps them.                               *)
TasksStay ==
    \A t \in Tasks : /\ taskKind'[t] = taskKind[t]
                     /\ taskState'[t] = "Unused" => taskState[t] = "Unused"
                     /\ taskState[t] \in {"InFlight", "Extracted"} =>
                            taskState'[t] \in {"InFlight", "Extracted"}

LEMMA ExtractStays ==
    ASSUME MappingTypeOK, NEW serial, NEW d, ExtractTasks(serial, d)
    PROVE  TasksStay
  BY DEF MappingTypeOK, ExtractTasks, TasksStay

(* A task is finished by Tick, Submit, loss or destruction: if it is the   *)
(* waiting request it answers it.                                          *)
LEMMA RunTaskKeeps ==
    ASSUME MappingIInv, NEW t \in Tasks, NEW status \in {"Success", "DeviceLost"},
           RunTask(t, status), depth > 0,
           frame[depth].op \in {"Tick", "Submit", "DeviceDestroyTick", "Lose"},
           status = "DeviceLost" => deviceState # "Alive",
           taskState[t] \in {"InFlight", "Extracted"},
           UNCHANGED <<deviceState, mState, inList, mLastMapID, taskKind>>
    PROVE  NoLostRequest' /\ RequestInv' /\ StackInv' /\ BufferInv'
  <1> USE DEF MappingIInv, MappingInv
  <1>1. frame[depth].op \in FrameOps
    BY DEF FrameOps
  <1>2. Replace(frame[depth].op, "Callback") \/ (UNCHANGED <<stackVars, answer, mMapCallback>>)
    BY DEF RunTask
  <1>3. StackInv'
    BY <1>1, <1>2, ReplaceStack DEF StackInv, stackVars
  <1>4. taskState' = [taskState EXCEPT ![t] = "Done"]
    BY DEF RunTask
  <1>5. CASE UNCHANGED <<answer, mMapCallback>>
    <2>1. ~Waiting(t)
      BY <1>5, CallMapCallbackOnce
         DEF NoLostRequest, RunTask, RequestInv, CallsBack, CallMapCallback, MappingTypeOK, Waiting, Tasks
    <2> QED
      BY <1>3, <1>4, <1>5, <2>1 DEF NoLostRequest, RequestInv, BufferInv, Waiting, MappingTypeOK
  <1>6. CASE /\ taskKind[t] = "Map" /\ mMapCallback = t /\ mLastMapID = t
             /\ mMapCallback' = 0
             /\ answer' = [answer EXCEPT ![t] =
                               IF deviceState # "Alive" THEN "DeviceLost" ELSE status]
    BY <1>3, <1>4, <1>6 DEF NoLostRequest, RequestInv, BufferInv, Waiting, MappingTypeOK
  <1> QED
    BY <1>5, <1>6, RunTaskOnce DEF Answers

LEMMA MappingIStep ==
    ASSUME CalmUnmapCallbacks, MappingIInv, [Next]_vars
    PROVE  NoLostRequest' /\ RequestInv' /\ StackInv' /\ BufferInv'
  <1> DEFINE Keeps == NoLostRequest' /\ RequestInv' /\ StackInv' /\ BufferInv'
  <1> USE MappingBounds DEF MappingIInv, MappingInv, serialVars, useVars, bufferVars, taskVars, FrameOps
  <1>0. /\ MappingTypeOK /\ CallbackInv /\ CalledOnce
        /\ mMapCallback \in Tasks \cup {0} /\ mLastMapID \in Tasks \cup {0}
    BY DEF MappingTypeOK, Tasks
  <1>1. ASSUME NEW t \in Tasks, MapAsync(t) PROVE Keeps
    <2>1. depth > 0 => frame[depth].op \notin {"Unmap", "Destroy"}
      BY <1>1, CalmCalls DEF MapAsync
    <2>2. StackInv'
      BY <1>1, <2>1 DEF MapAsync, StackInv, stackVars
    <2>3. \A u \in Tasks : ~Waiting(u)
      BY <1>1 DEF NoLostRequest, MapAsync, ValidateMapAsync
    <2>4. /\ mLastMapID' = t /\ mMapCallback' = t /\ mState' = "Mapped" /\ inList' = inList
          /\ answer' = [answer EXCEPT ![t] = "Waiting"]
          /\ taskState' = [taskState EXCEPT ![t] = "InFlight"]
          /\ taskKind' = [taskKind EXCEPT ![t] = "Map"]
          /\ deviceState' = deviceState /\ t # 0
      BY <1>1 DEF MapAsync, TrackTask, Tasks
    <2> QED
      BY <2>2, <2>3, <2>4 DEF NoLostRequest, RequestInv, BufferInv, Waiting, MappingTypeOK
  <1>2. ASSUME NEW t \in Tasks, OnSubmittedWorkDone(t) PROVE Keeps
    BY <1>2 DEF OnSubmittedWorkDone, TrackTask, NextTask, NoLostRequest, RequestInv, BufferInv,
                Waiting, StackInv, stackVars, MappingTypeOK
  <1>3. CASE UnmapCalls
    <2>1. /\ mMapCallback' = 0 /\ mMapCallback \in Tasks
          /\ answer' = [answer EXCEPT ![mMapCallback] = "Unmapped"]
      BY <1>0, <1>3, CallMapCallbackOnce DEF UnmapCalls, CallsBack, Answers
    <2>2. Push("Unmap", "Callback") /\ UNCHANGED <<mState, mLastMapID, deviceState, taskState, taskKind, inList>>
      BY <1>3 DEF UnmapCalls
    <2>3. mLastMapID = mMapCallback /\ mState = "Mapped" /\ Waiting(mMapCallback)
      BY <1>3 DEF UnmapCalls, CallsBack, CallbackInv
    <2>4. depth > 0 => frame[depth].op \notin {"Unmap", "Destroy"}
      BY <1>3, <2>1 DEF StackInv, UnmapCalls, CallsBack
    <2>5. StackInv'
      BY <1>0, <2>1, <2>2, <2>3, <2>4, PushStack DEF MappingTypeOK
    <2> QED
      BY <2>1, <2>2, <2>3, <2>5 DEF NoLostRequest, RequestInv, BufferInv, Waiting, MappingTypeOK
  <1>4. CASE UnmapReturns
    <2>1. depth > 0 /\ Pop /\ mMapCallback = 0 /\ StackInv'
      BY <1>4, PopStack DEF UnmapReturns, Running, StackInv
    <2> QED
      BY <1>4, <2>1 DEF UnmapReturns, UnmapEnds, NoLostRequest, RequestInv, BufferInv, Waiting,
                        MappingTypeOK, Tasks
  <1>5. CASE UnmapMapped
    <2>1. mMapCallback = 0
      BY <1>5 DEF UnmapMapped, CallsBack
    <2>2. StackInv'
      BY <1>5, <2>1 DEF UnmapMapped, UnmapEnds, StackInv, stackVars
    <2> QED
      BY <1>5, <2>1, <2>2 DEF UnmapMapped, UnmapEnds, NoLostRequest, RequestInv, BufferInv,
                              Waiting, MappingTypeOK, Tasks
  <1>6. CASE UnmapAtCreation
    BY <1>6 DEF UnmapAtCreation, NoLostRequest, RequestInv, BufferInv, Waiting, StackInv, stackVars
  <1>7. CASE DestroyCalls
    <2>1. /\ mMapCallback' = 0 /\ mMapCallback \in Tasks
          /\ answer' = [answer EXCEPT ![mMapCallback] =
                           IF deviceState # "Alive" THEN "DeviceLost" ELSE "Destroyed"]
      BY <1>0, <1>7, CallMapCallbackOnce DEF DestroyCalls, CallsBack, Answers
    <2>2. Push("Destroy", "Callback") /\ UNCHANGED <<mState, mLastMapID, deviceState, taskState, taskKind>>
      BY <1>7 DEF DestroyCalls
    <2>3. mLastMapID = mMapCallback /\ mState = "Mapped" /\ Waiting(mMapCallback)
      BY <1>7 DEF DestroyCalls, CallsBack, CallbackInv
    <2>4. depth > 0 => frame[depth].op \notin {"Unmap", "Destroy"}
      BY <1>7, <2>1 DEF StackInv, DestroyCalls, CallsBack
    <2>5. StackInv'
      BY <1>0, <1>7, <2>1, <2>2, <2>3, <2>4, PushStack DEF DestroyCalls
    <2> QED
      BY <2>1, <2>2, <2>3, <2>5 DEF NoLostRequest, RequestInv, BufferInv, Waiting, MappingTypeOK
  <1>8. CASE DestroyReturns
    <2>1. depth > 0 /\ Pop /\ mMapCallback = 0 /\ StackInv'
      BY <1>8, PopStack DEF DestroyReturns, Running, StackInv
    <2>2. ~inList
      BY <1>8 DEF DestroyReturns, Running, StackInv
    <2> QED
      BY <1>8, <2>1, <2>2 DEF DestroyReturns, DestroyEnds, NoLostRequest, RequestInv, BufferInv, Waiting,
                        MappingTypeOK, Tasks
  <1>9. CASE DestroyAtOnce
    <2>1. mState # "Mapped" \/ mMapCallback = 0
      BY <1>9 DEF DestroyAtOnce, CallsBack
    <2>2. depth > 0 => frame[depth].op \notin {"Unmap", "Destroy"}
      BY <1>0, <1>9, CalmCalls DEF DestroyAtOnce, DestroyCalled, Running
    <2>3. StackInv'
      BY <1>9, <2>2 DEF DestroyAtOnce, StackInv, stackVars
    <2> QED
      BY <1>9, <2>1, <2>3 DEF DestroyAtOnce, DestroyEnds, NoLostRequest, RequestInv, BufferInv,
                              Waiting, MappingTypeOK, Tasks
  <1>10. CASE LockTwice \/ WriteBuffer \/ GpuExecute
    BY <1>10 DEF LockTwice, WriteBuffer, GpuExecute, NoLostRequest, RequestInv, BufferInv, Waiting,
                 StackInv, stackVars
  <1>11. CASE Tick \/ Submit
    <2>1. depth > 0 => frame[depth].op \notin {"Unmap", "Destroy"}
      BY <1>0, <1>11, CalmCalls DEF Tick, Submit
    <2>2. (Push("Tick", "Code") \/ Push("Submit", "Code")) /\ UNCHANGED <<deviceState, bufferVars>>
      BY <1>11 DEF Tick, Submit
    <2>3. StackInv'
      BY <1>0, <2>1, <2>2, PushStack
    <2>4. TasksStay
      <3>1. UNCHANGED taskVars \/ ExtractTasks(mCompletedSerial', depth + 1)
        BY <1>11 DEF Tick, Submit, DeviceTick
      <3> QED
        BY <1>0, <3>1, ExtractStays DEF TasksStay
    <2> QED
      BY <2>2, <2>3, <2>4 DEF TasksStay, NoLostRequest, RequestInv, BufferInv, Waiting
  <1>12. CASE LoseForTesting \/ DeviceDestroy
    <2>1. depth > 0 => frame[depth].op \notin {"Unmap", "Destroy"}
      BY <1>0, <1>12, CalmCalls DEF LoseForTesting, DeviceDestroy
    <2>2. StackInv'
      BY <1>0, <1>12, <2>1, PushStack DEF LoseForTesting, DeviceDestroy
    <2> QED
      BY <1>12, <2>2 DEF LoseForTesting, DeviceDestroy, NoLostRequest, RequestInv, BufferInv, Waiting
  <1>13. ASSUME NEW t \in Tasks, FinishTask(t) PROVE Keeps
    BY <1>13, RunTaskKeeps DEF FinishTask, Running, TasksToFinish
  <1>14. ASSUME NEW t \in Tasks, LoseTask(t) PROVE Keeps
    <2>1. deviceState # "Alive" /\ depth > 0 /\ frame[depth].op = "Lose"
      BY <1>0, <1>14 DEF LoseTask, Running, StackInv, MappingTypeOK, Depths
    <2> QED
      BY <1>14, <2>1, RunTaskKeeps DEF LoseTask
  <1>15. CASE TickReturns \/ LoseReturns \/ SubmitReturns \/ DeviceDestroyReturns
    <2>1. /\ depth > 0 /\ Pop /\ UNCHANGED <<bufferVars, taskVars>>
          /\ deviceState' = deviceState \/ deviceState' # "Alive"
      BY <1>15 DEF TickReturns, LoseReturns, SubmitReturns, DeviceDestroyReturns, Running
    <2>2. StackInv'
      BY <1>0, <2>1, PopStack
    <2> QED
      BY <2>1, <2>2 DEF NoLostRequest, RequestInv, BufferInv, Waiting
  <1>16. CASE DeviceDestroyTicks
    <2>1. StackInv'
      BY <1>0, <1>16, ReplaceStack DEF DeviceDestroyTicks, Running
    <2>2. TasksStay
      BY <1>0, <1>16, ExtractStays DEF DeviceDestroyTicks
    <2> QED
      BY <1>16, <2>1, <2>2 DEF TasksStay, DeviceDestroyTicks, NoLostRequest, RequestInv, BufferInv, Waiting
  <1>17. CASE UNCHANGED vars
    BY <1>17 DEF vars, NoLostRequest, RequestInv, BufferInv, Waiting, StackInv, stackVars
  <1> QED
    BY <1>1, <1>2, <1>3, <1>4, <1>5, <1>6, <1>7, <1>8, <1>9, <1>10, <1>11, <1>12, <1>13, <1>14,
       <1>15, <1>16, <1>17 DEF Next, StackStep, ApiCall

LEMMA MappingIInit == Init => MappingIInv
  <1> SUFFICES ASSUME Init PROVE MappingIInv
    OBVIOUS
  <1>1. StackInv
    BY MappingBounds DEF Init, StackInv, Depths
  <1>2. /\ CallbackInv /\ CalledOnce /\ NoLostRequest /\ RequestInv /\ BufferInv
    BY DEF Init, CallbackInv, CalledOnce, NoLostRequest, RequestInv, BufferInv, Waiting
  <1> QED
    BY <1>1, <1>2, MappingTypeInit DEF MappingIInv, MappingInv

LEMMA MappingIPreserved ==
    ASSUME CalmUnmapCallbacks
    PROVE  MappingIInv /\ [Next]_vars => MappingIInv'
  BY MappingTypeStep, OnceStep, MappingIStep DEF MappingIInv, MappingInv

(* An application that maps, destroys, ticks and submits from any callback *)
(* but those run by Unmap and Destroy loses no request: the one that waits *)
(* is the one the buffer remembers, and a task will answer it.             *)
THEOREM RequestsAreNeverLost == CalmUnmapCallbacks => (Spec => []MappingInv)
  <1> SUFFICES ASSUME CalmUnmapCallbacks PROVE Spec => []MappingInv
    OBVIOUS
  <1>1. MappingIInv => MappingInv
    BY DEF MappingIInv
  <1> QED
    BY <1>1, MappingIInit, MappingIPreserved, PTL DEF Spec

-----------------------------------------------------------------------------
(* The CPU and the GPU never have the buffer together.                     *)

(* Completing all commands, and a tick of the device.                      *)
LEMMA AssumeSerials ==
    ASSUME MappingTypeOK, NEW last \in Nat, AssumeCommandsComplete(last), mLastSubmittedSerial <= last
    PROVE  /\ mCompletedSerial' = gpuSerial' /\ gpuSerial' = mLastSubmittedSerial'
           /\ last < mLastSubmittedSerial' /\ mLastSubmittedSerial' \in Nat
  BY DEF MappingTypeOK, AssumeCommandsComplete, AssumedSerial, MaxOf

LEMMA TickSerials ==
    ASSUME MappingTypeOK, SerialInv, MapCoversUses, BufferInv, DeviceTick,
           UNCHANGED <<answer, mState, mLastMapID>>
    PROVE  /\ SerialInv'
           /\ mState' = "Mapped" =>
                 /\ useSerial' <= taskSerial'[mLastMapID']
                 /\ recording' = "Uses" => taskSerial'[mLastMapID'] > mLastSubmittedSerial'
  <1>0. mState = "Mapped" => mLastMapID \in Tasks
    BY MappingBounds DEF MappingTypeOK, BufferInv, Tasks
  <1>1. CASE ~TickNeeded
    BY <1>1 DEF DeviceTick, serialVars, useVars, taskVars, SerialInv, MapCoversUses
  <1>2. CASE TickNeeded
    <2> DEFINE submitted == IF recording = "Empty" THEN mLastSubmittedSerial
                                                   ELSE mLastSubmittedSerial + 1
    <2>1. /\ submitted \in Nat /\ mLastSubmittedSerial <= submitted
          /\ recording = "Uses" => submitted = mLastSubmittedSerial + 1
      BY DEF MappingTypeOK
    <2>2. /\ recording' = "Empty" /\ useSerial' = IF recording = "Uses" THEN submitted ELSE useSerial
          /\ ExtractTasks(mCompletedSerial', depth + 1)
      BY <1>2 DEF DeviceTick
    <2>3. /\ mCompletedSerial <= mCompletedSerial' /\ mCompletedSerial' \in Nat
          /\ mCompletedSerial' <= gpuSerial' /\ gpuSerial' <= mLastSubmittedSerial'
          /\ submitted <= mLastSubmittedSerial' /\ mLastSubmittedSerial' \in Nat /\ gpuSerial' \in Nat
      <3>1. CASE gpuSerial = submitted
        BY <1>2, <2>1, <3>1, AssumeSerials DEF DeviceTick, SerialInv, MappingTypeOK
      <3>2. CASE gpuSerial # submitted
        BY <1>2, <2>1, <3>2 DEF DeviceTick, SerialInv, MappingTypeOK
      <3> QED
        BY <3>1, <3>2
    <2> HIDE DEF submitted
    <2>4. taskSerial' = taskSerial
      BY <2>2 DEF ExtractTasks
    <2>5. useSerial' <= mLastSubmittedSerial'
      BY <2>1, <2>2, <2>3 DEF SerialInv, MappingTypeOK
    <2>6. ASSUME NEW t \in Tasks, taskState'[t] = "Extracted" \/ answer'[t] = "Success"
          PROVE  taskSerial'[t] <= mCompletedSerial'
      <3>1. taskSerial[t] \in Nat /\ mCompletedSerial \in Nat
        BY DEF MappingTypeOK
      <3>2. CASE taskState[t] = "Extracted" \/ answer[t] = "Success"
        BY <2>3, <2>4, <3>1, <3>2 DEF SerialInv
      <3>3. CASE ~(taskState[t] = "Extracted" \/ answer[t] = "Success")
        BY <2>2, <2>4, <2>6, <3>3 DEF ExtractTasks
      <3> QED
        BY <3>2, <3>3
    <2>7. mState' = "Mapped" => useSerial' <= taskSerial'[mLastMapID']
      BY <1>0, <2>1, <2>2, <2>4 DEF MapCoversUses, MappingTypeOK
    <2> QED
      BY <2>2, <2>3, <2>5, <2>6, <2>7 DEF SerialInv
  <1> QED
    BY <1>1, <1>2

(* How a step changes the stack.                                           *)
LEMMA StackSteps ==
    ASSUME [Next]_vars
    PROVE  \/ UNCHANGED stackVars
           \/ depth > 0 /\ Pop
           \/ depth > 0 /\ Replace(frame[depth].op, "Callback")
           \/ depth > 0 /\ frame[depth].op = "DeviceDestroy" /\ Replace("DeviceDestroyTick", "Code")
           \/ Submit /\ Push("Submit", "Code")
           \/ \E op \in FrameOps \ {"None", "Submit"}, at \in {"Code", "Callback"} : Push(op, at)
  <1>1. CASE StackStep
    <2>1. CASE \E t \in Tasks : FinishTask(t) \/ LoseTask(t)
      BY <2>1 DEF FinishTask, LoseTask, RunTask, Running
    <2>2. CASE TickReturns \/ SubmitReturns \/ LoseReturns \/ UnmapReturns \/ DestroyReturns
               \/ DeviceDestroyReturns \/ DeviceDestroyTicks
      BY <2>2 DEF TickReturns, SubmitReturns, LoseReturns, UnmapReturns, DestroyReturns,
                  DeviceDestroyReturns, DeviceDestroyTicks, Running
    <2>3. CASE DestroyCalls \/ DestroyAtOnce
      BY <2>3 DEF DestroyCalls, DestroyAtOnce, FrameOps
    <2> QED
      BY <1>1, <2>1, <2>2, <2>3 DEF StackStep
  <1>2. CASE ApiCall
    BY <1>2 DEF ApiCall, MapAsync, OnSubmittedWorkDone, UnmapCalls, UnmapMapped, UnmapAtCreation,
                DestroyCalls, DestroyAtOnce, LockTwice, WriteBuffer, Submit, Tick, LoseForTesting,
                DeviceDestroy, FrameOps
  <1>3. CASE GpuExecute \/ UNCHANGED vars
    BY <1>3 DEF GpuExecute, vars
  <1> QED
    BY <1>1, <1>2, <1>3 DEF Next

(* While a Submit is in progress the buffer is not mapped.                 *)
LEMMA SubmittingKeeps ==
    ASSUME CalmUnmapCallbacks, "MapAsync" \notin SubmitCallbackOps, MappingIInv, MapCoversUses,
           [Next]_vars
    PROVE  Submitting' => mState' # "Mapped"
  <1> SUFFICES ASSUME Submitting', mState' = "Mapped" PROVE FALSE
    OBVIOUS
  <1>0. MappingTypeOK /\ StackInv
    BY DEF MappingIInv, MappingInv
  <1>1. ASSUME NEW t \in Tasks, MapAsync(t) PROVE FALSE
    <2>1. Submitting /\ CanCall("MapAsync")
      BY <1>1 DEF MapAsync, stackVars, Submitting
    <2>2. depth > 0
      <3>1. PICK d \in Depths : frame[d].op = "Submit"
        BY <2>1 DEF Submitting
      <3>2. ~(d > depth)
        BY <1>0, <3>1 DEF StackInv
      <3> QED
        BY <1>0, <3>2, MappingBounds DEF MappingTypeOK, Depths
    <2> QED
      BY <2>1, <2>2 DEF CanCall, CalmUnmapCallbacks
  <1>2. CASE Submit
    BY <1>2 DEF Submit, ValidateCanUseOnQueueNow, bufferVars
  <1>3. CASE ~Submit /\ ~\E t \in Tasks : MapAsync(t)
    <2>1. mState = "Mapped"
      BY <1>3 DEF Next, vars, StackStep, ApiCall, bufferVars, OnSubmittedWorkDone, UnmapCalls,
         UnmapReturns, UnmapEnds, UnmapMapped, UnmapAtCreation, DestroyCalls, DestroyReturns,
         DestroyEnds, DestroyAtOnce, LockTwice, WriteBuffer, Tick, LoseForTesting, DeviceDestroy,
         FinishTask, LoseTask, TickReturns, LoseReturns, SubmitReturns, DeviceDestroyTicks,
         DeviceDestroyReturns, GpuExecute
    <2>2. Submitting
      <3>1. PICK d \in Depths : frame'[d].op = "Submit"
        BY DEF Submitting
      <3>2. frame \in [Depths -> [op : FrameOps, at : {"Code", "Callback"}]] /\ depth \in 0..MaxDepth
        BY <1>0 DEF MappingTypeOK
      <3>3. frame[d].op = "Submit"
        <4>1. CASE UNCHANGED stackVars
          BY <3>1, <4>1 DEF stackVars
        <4>2. CASE depth > 0 /\ Pop
          BY <3>1, <3>2, <4>2, MappingBounds DEF Pop, Depths
        <4>3. CASE depth > 0 /\ Replace(frame[depth].op, "Callback")
          BY <3>1, <3>2, <4>3, MappingBounds DEF Replace, Depths
        <4>4. CASE depth > 0 /\ Replace("DeviceDestroyTick", "Code")
          BY <3>1, <3>2, <4>4, MappingBounds DEF Replace, Depths
        <4>5. ASSUME NEW op \in FrameOps \ {"None", "Submit"}, NEW at, Push(op, at)
              PROVE  frame[d].op = "Submit"
          BY <3>1, <3>2, <4>5, MappingBounds DEF Push, Depths
        <4> QED
          BY <1>3, <4>1, <4>2, <4>3, <4>4, <4>5, StackSteps
      <3> QED
        BY <3>3 DEF Submitting
    <2> QED
      BY <2>1, <2>2 DEF MapCoversUses
  <1> QED
    BY <1>1, <1>2, <1>3

LEMMA ExclusiveStep ==
    ASSUME CalmUnmapCallbacks, "MapAsync" \notin SubmitCallbackOps, MappingIInv, SerialInv,
           MapCoversUses, [Next]_vars
    PROVE  SerialInv' /\ MapCoversUses'
  <1> DEFINE Covers == mState = "Mapped" =>
                          /\ useSerial <= taskSerial[mLastMapID]
                          /\ recording = "Uses" => taskSerial[mLastMapID] > mLastSubmittedSerial
  <1> SUFFICES SerialInv' /\ Covers'
    BY SubmittingKeeps DEF MapCoversUses
  <1> USE MappingBounds DEF serialVars, useVars, bufferVars, taskVars
  <1>0. /\ MappingTypeOK /\ CallbackInv /\ CalledOnce /\ BufferInv /\ RequestInv
        /\ mState = "Mapped" => mLastMapID \in Tasks
        /\ Covers
    BY DEF MappingIInv, MappingInv, MappingTypeOK, BufferInv, Tasks, MapCoversUses
  <1>1. ASSUME NEW t \in Tasks, MapAsync(t) PROVE SerialInv' /\ Covers'
    BY <1>0, <1>1 DEF MapAsync, TrackTask, NextTask, GetPendingCommandSerial, SerialInv, MappingTypeOK
  <1>2. ASSUME NEW t \in Tasks, OnSubmittedWorkDone(t) PROVE SerialInv' /\ Covers'
    <2>1. /\ taskState[t] = "Unused" /\ answer[t] = "None"
          /\ mState = "Mapped" => mLastMapID # t
      BY <1>0, <1>2 DEF OnSubmittedWorkDone, TrackTask, NextTask, RequestInv, BufferInv
    <2>2. /\ UNCHANGED <<mCompletedSerial, mLastSubmittedSerial, gpuSerial, useVars, bufferVars>>
          /\ \A u \in Tasks \ {t} : taskState'[u] = taskState[u] /\ taskSerial'[u] = taskSerial[u]
          /\ taskState'[t] = "InFlight"
      BY <1>0, <1>2 DEF OnSubmittedWorkDone, TrackTask, MappingTypeOK
    <2> QED
      BY <1>0, <2>1, <2>2 DEF SerialInv
  <1>3. CASE UnmapCalls \/ DestroyCalls
    <2>1. /\ UNCHANGED <<serialVars, useVars, mState, mLastMapID, taskVars>>
          /\ \A t \in Tasks : answer'[t] = "Success" => answer[t] = "Success"
      <3>1. CASE UnmapCalls
        BY <1>0, <1>3, <3>1, CallMapCallbackOnce DEF UnmapCalls, CallsBack, Answers, MappingTypeOK
      <3>2. CASE DestroyCalls
        BY <1>0, <1>3, <3>2, CallMapCallbackOnce DEF DestroyCalls, CallsBack, Answers, MappingTypeOK
      <3> QED
        BY <1>3, <3>1, <3>2
    <2> QED
      BY <1>0, <2>1 DEF SerialInv
  <1>4. CASE UnmapReturns \/ UnmapMapped \/ DestroyReturns \/ DestroyAtOnce \/ UnmapAtCreation
             \/ WriteBuffer
    BY <1>0, <1>4 DEF UnmapReturns, UnmapMapped, UnmapEnds, DestroyReturns, DestroyAtOnce, DestroyEnds,
                UnmapAtCreation, WriteBuffer, ValidateCanUseOnQueueNow, SerialInv
  <1>5. CASE LockTwice \/ TickReturns \/ LoseReturns \/ UNCHANGED vars
    BY <1>0, <1>5 DEF LockTwice, TickReturns, LoseReturns, vars, SerialInv
  <1>6. CASE Tick \/ Submit
    BY <1>0, <1>6, TickSerials DEF Tick, Submit
  <1>7. ASSUME NEW t \in Tasks, FinishTask(t) PROVE SerialInv' /\ Covers'
    <2>1. /\ taskState[t] = "Extracted" /\ RunTask(t, "Success")
          /\ UNCHANGED <<serialVars, useVars, mState, mLastMapID, taskSerial>>
      BY <1>7 DEF FinishTask, TasksToFinish
    <2>2. \A u \in Tasks : taskState'[u] = "Extracted" \/ answer'[u] = "Success" =>
                               taskState[u] = "Extracted" \/ answer[u] = "Success"
      <3>1. taskState' = [taskState EXCEPT ![t] = "Done"]
        BY <2>1 DEF RunTask
      <3>2. \A u \in Tasks \ {t} : answer'[u] = answer[u]
        BY <1>0, <2>1, RunTaskOnce DEF Answers, MappingTypeOK
      <3> QED
        BY <1>0, <2>1, <3>1, <3>2 DEF MappingTypeOK
    <2> QED
      BY <1>0, <2>1, <2>2 DEF SerialInv
  <1>8. ASSUME NEW t \in Tasks, LoseTask(t) PROVE SerialInv' /\ Covers'
    <2>1. /\ RunTask(t, "DeviceLost")
          /\ UNCHANGED <<serialVars, useVars, mState, mLastMapID, taskSerial>>
      BY <1>8 DEF LoseTask
    <2>2. \A u \in Tasks : taskState'[u] = "Extracted" \/ answer'[u] = "Success" =>
                               taskState[u] = "Extracted" \/ answer[u] = "Success"
      <3>1. taskState' = [taskState EXCEPT ![t] = "Done"]
        BY <2>1 DEF RunTask
      <3>2. \A u \in Tasks : answer'[u] = answer[u] \/ answer'[u] = "DeviceLost"
        <4>1. "DeviceLost" \in Answers \ {"Twice"}
          BY DEF Answers
        <4> QED
          BY <1>0, <2>1, <4>1, RunTaskOnce DEF MappingTypeOK
      <3> QED
        BY <1>0, <3>1, <3>2 DEF MappingTypeOK
    <2> QED
      BY <1>0, <2>1, <2>2 DEF SerialInv
  <1>9. CASE SubmitReturns
    <2>1. mState # "Mapped"
      <3>1. Submitting
        BY <1>0, <1>9 DEF SubmitReturns, Running, Submitting, MappingTypeOK, Depths
      <3> QED
        BY <3>1 DEF MapCoversUses
    <2> QED
      BY <1>0, <1>9, <2>1 DEF SubmitReturns, SerialInv, MappingTypeOK
  <1>10. ASSUME AssumeCommandsComplete(mLastSubmittedSerial), recording' = "Empty",
                UNCHANGED <<useSerial, bufferVars, taskVars>>
         PROVE  SerialInv' /\ Covers'
    <2>1. /\ mCompletedSerial' = gpuSerial' /\ gpuSerial' = mLastSubmittedSerial'
          /\ mLastSubmittedSerial < mLastSubmittedSerial' /\ mLastSubmittedSerial' \in Nat
      BY <1>0, <1>10, AssumeSerials DEF MappingTypeOK
    <2> QED
      BY <1>0, <1>10, <2>1 DEF SerialInv, MappingTypeOK
  <1>11. CASE LoseForTesting \/ DeviceDestroyReturns
    BY <1>10, <1>11 DEF LoseForTesting, DeviceDestroyReturns
  <1>12. CASE DeviceDestroy
    <2>1. CASE deviceState = "Alive"
      BY <1>10, <1>12, <2>1 DEF DeviceDestroy
    <2>2. CASE deviceState # "Alive"
      BY <1>0, <1>12, <2>2 DEF DeviceDestroy, SerialInv
    <2> QED
      BY <2>1, <2>2
  <1>13. CASE DeviceDestroyTicks
    BY <1>0, <1>13 DEF DeviceDestroyTicks, ExtractTasks, SerialInv, MappingTypeOK
  <1>14. CASE GpuExecute
    BY <1>0, <1>14 DEF GpuExecute, SerialInv, MappingTypeOK
  <1> QED
    BY <1>1, <1>2, <1>3, <1>4, <1>5, <1>6, <1>7, <1>8, <1>9, <1>11, <1>12, <1>13, <1>14
       DEF Next, StackStep, ApiCall

(* From the Success of MapAsync to Unmap no pending or submitted command   *)
(* uses the buffer, for an application that in addition does not map from  *)
(* callbacks that run while it submits.                                    *)
THEOREM MappedMeansExclusive ==
    CalmUnmapCallbacks /\ "MapAsync" \notin SubmitCallbackOps => (Spec => []ExclusiveWhenMapped)
  <1> SUFFICES ASSUME CalmUnmapCallbacks, "MapAsync" \notin SubmitCallbackOps
               PROVE  Spec => []ExclusiveWhenMapped
    OBVIOUS
  <1>1. Init => MappingIInv /\ SerialInv /\ MapCoversUses
    <2>1. Init => SerialInv
      BY DEF Init, SerialInv
    <2>2. Init => ~Submitting /\ mState # "Mapped"
      <3>1. ASSUME Init, NEW d \in Depths PROVE frame[d].op = "None"
        BY <3>1 DEF Init
      <3> QED
        BY <3>1 DEF Init, Submitting
    <2> QED
      BY <2>1, <2>2, MappingIInit DEF MapCoversUses
  <1>2. MappingIInv /\ SerialInv /\ MapCoversUses /\ [Next]_vars =>
            (MappingIInv /\ SerialInv /\ MapCoversUses)'
    BY MappingIPreserved, ExclusiveStep
  <1>3. MappingIInv /\ SerialInv /\ MapCoversUses => ExclusiveWhenMapped
    <2> SUFFICES ASSUME MappingIInv, SerialInv, MapCoversUses, HasMapping PROVE ~InUse
      BY DEF ExclusiveWhenMapped
    <2>1. MappingTypeOK /\ mLastMapID \in Tasks /\ mState = "Mapped"
      BY MappingBounds DEF MappingIInv, MappingInv, MappingTypeOK, HasMapping, Tasks
    <2>2. taskSerial[mLastMapID] <= mCompletedSerial /\ taskSerial[mLastMapID] \in Nat
      BY <2>1 DEF HasMapping, SerialInv, MappingTypeOK
    <2> QED
      BY <2>1, <2>2 DEF InUse, SerialInv, MapCoversUses, MappingTypeOK
  <1> QED
    BY <1>1, <1>2, <1>3, PTL DEF Spec

-----------------------------------------------------------------------------
(* The buffer implements the mapping protocol.                             *)

(* What Phase is, case by case.                                            *)
PhaseTable ==
    /\ Destroying => Phase = "gone"
    /\ ~Destroying =>
          /\ mState = "Unmapped" => Phase = "unmapped"
          /\ mState = "MappedAtCreation" => Phase = "mapped"
          /\ mState = "Destroyed" => Phase = "gone"
          /\ mState = "Mapped" =>
                CASE answer[mLastMapID] = "Waiting" -> Phase = "pending"
                  [] answer[mLastMapID] = "Unmapped" -> Phase = "unmapped"
                  [] answer[mLastMapID] = "DeviceLost" -> Phase = "lost"
                  [] OTHER -> Phase = "mapped"

LEMMA PhaseIs == PhaseTable /\ PhaseTable'
  <1>1. PhaseTable
    BY DEF PhaseTable, Phase, Waiting
  <1>2. PhaseTable'
    BY DEF PhaseTable, Phase, Waiting
  <1> QED
    BY <1>1, <1>2

(* Only Destroy and its return change whether Destroy is on the stack.     *)
LEMMA DestroyingStays ==
    ASSUME MappingTypeOK, StackInv, NEW op \in FrameOps \ {"Destroy"}, NEW at,
           \/ UNCHANGED stackVars
           \/ Push(op, at)
           \/ depth > 0 /\ frame[depth].op # "Destroy" /\ (Pop \/ Replace(op, at))
    PROVE  Destroying' = Destroying
  <1>1. /\ frame \in [Depths -> [op : FrameOps, at : {"Code", "Callback"}]]
        /\ depth \in 0..MaxDepth /\ \A d \in Depths : d > depth => frame[d].op = "None"
    BY DEF MappingTypeOK, StackInv
  <1>2. ASSUME NEW d \in Depths PROVE (frame'[d].op = "Destroy") = (frame[d].op = "Destroy")
    <2>1. CASE UNCHANGED stackVars
      BY <2>1 DEF stackVars
    <2>2. CASE Push(op, at)
      BY <1>1, <2>2, MappingBounds DEF Push, Depths
    <2>3. CASE depth > 0 /\ frame[depth].op # "Destroy" /\ Pop
      BY <1>1, <2>3, MappingBounds DEF Pop, Depths
    <2>4. CASE depth > 0 /\ frame[depth].op # "Destroy" /\ Replace(op, at)
      BY <1>1, <2>4, MappingBounds DEF Replace, Depths
    <2> QED
      BY <2>1, <2>2, <2>3, <2>4
  <1> QED
    BY <1>2 DEF Destroying

LEMMA NotDestroying ==
    ASSUME MappingTypeOK, StackInv, depth > 0 => frame[depth].op # "Destroy"
    PROVE  ~Destroying
  BY MappingBounds DEF MappingTypeOK, StackInv, Destroying, Depths

(* A step that leaves the buffer and its answers alone.                    *)
LEMMA PhaseStays ==
    ASSUME Destroying' = Destroying, UNCHANGED <<mState, mLastMapID, answer>>
    PROVE  UNCHANGED Protocol!protocolVars
  BY DEF Phase, Waiting, Protocol!protocolVars

(* Each step of the buffer is one of the protocol, or changes nothing of   *)
(* what the protocol speaks of.                                            *)
LEMMA ProtocolStep ==
    ASSUME CalmUnmapCallbacks, MappingIInv, [Next]_vars
    PROVE  [Protocol!Next]_(Protocol!protocolVars)
  <1> DEFINE Step == [Protocol!Next]_(Protocol!protocolVars)
  <1> SUFFICES Step
    OBVIOUS
  <1> USE MappingBounds
  <1>0. /\ MappingTypeOK /\ CalledOnce /\ NoLostRequest /\ CallbackInv /\ RequestInv
        /\ StackInv /\ BufferInv
        /\ answer \in [Tasks -> Answers]
        /\ mState = "Mapped" => mLastMapID \in Tasks
    BY DEF MappingIInv, MappingInv, MappingTypeOK, BufferInv, Tasks
  <1>1. ASSUME NEW t \in Tasks, MapAsync(t) PROVE Step
    <2>1. ~Destroying
      BY <1>0, <1>1, CalmCalls, NotDestroying DEF MapAsync
    <2>2. ~Destroying'
      BY <1>0, <1>1, <2>1, DestroyingStays DEF MapAsync, FrameOps
    <2>3. Phase = "unmapped"
      BY <1>1, <2>1, PhaseIs DEF MapAsync, ValidateMapAsync, PhaseTable
    <2>4. answer[t] = "None"
      BY <1>0, <1>1 DEF MapAsync, TrackTask, NextTask, RequestInv
    <2>5. mState' = "Mapped" /\ mLastMapID' = t /\ answer' = [answer EXCEPT ![t] = "Waiting"]
      BY <1>1 DEF MapAsync
    <2>6. Phase' = "pending"
      BY <1>0, <2>2, <2>5, PhaseIs DEF PhaseTable
    <2>7. Protocol!Request(t)
      BY <2>3, <2>4, <2>5, <2>6 DEF Protocol!Request
    <2> QED
      BY <2>7 DEF Protocol!Next
  <1>2. CASE UnmapCalls
    <2>1. /\ mMapCallback # 0 /\ mState = "Mapped" /\ deviceState = "Alive"
          /\ CallMapCallback("Unmapped") /\ Push("Unmap", "Callback")
          /\ mState' = "Mapped" /\ mLastMapID' = mLastMapID
      BY <1>2 DEF UnmapCalls, CallsBack
    <2>2. mLastMapID = mMapCallback /\ answer[mLastMapID] = "Waiting" /\ mLastMapID \in Tasks
      BY <1>0, <2>1 DEF CallbackInv, Waiting
    <2>3. answer' = [answer EXCEPT ![mLastMapID] = "Unmapped"]
      BY <2>1, <2>2 DEF CallMapCallback
    <2>4. ~Destroying
      BY <1>0, <2>1, NotDestroying DEF StackInv
    <2>5. ~Destroying'
      BY <1>0, <2>1, <2>4, DestroyingStays DEF FrameOps
    <2>6. Phase = "pending"
      BY <2>1, <2>2, <2>4, PhaseIs DEF PhaseTable
    <2>7. Phase' = "unmapped"
      BY <1>0, <2>1, <2>2, <2>3, <2>5, PhaseIs DEF PhaseTable
    <2> QED
      BY <2>1, <2>3, <2>6, <2>7 DEF Protocol!Next, Protocol!Cancel, Protocol!Reply
  <1>3. CASE DestroyCalls
    <2>1. /\ mMapCallback # 0 /\ mState = "Mapped" /\ ~Destroying
          /\ CallMapCallback("Destroyed") /\ Push("Destroy", "Callback")
          /\ mLastMapID' = mLastMapID
      BY <1>3 DEF DestroyCalls, CallsBack, MutexHeld, Destroying
    <2>2. mLastMapID = mMapCallback /\ answer[mLastMapID] = "Waiting"
      BY <1>0, <2>1 DEF CallbackInv, Waiting
    <2>3. \/ answer' = [answer EXCEPT ![mLastMapID] = "Destroyed"]
          \/ answer' = [answer EXCEPT ![mLastMapID] = "DeviceLost"]
      BY <2>2, <2>1 DEF CallMapCallback
    <2>4. Destroying'
      <3>1. depth + 1 \in Depths /\ depth' = depth + 1
            /\ frame' = [frame EXCEPT ![depth + 1] = [op |-> "Destroy", at |-> "Callback"]]
        BY <1>0, <2>1 DEF Push, MappingTypeOK, Depths
      <3>2. frame'[depth + 1].op = "Destroy"
        BY <1>0, <3>1 DEF MappingTypeOK
      <3> QED
        BY <3>1, <3>2 DEF Destroying
    <2>5. Phase = "pending" /\ Phase' = "gone"
      BY <2>1, <2>2, <2>4, PhaseIs DEF PhaseTable
    <2> QED
      BY <2>1, <2>3, <2>5 DEF Protocol!Next, Protocol!Destroy, Protocol!Reply
  <1>4. CASE UnmapReturns
    <2>1. /\ depth > 0 /\ frame[depth].op = "Unmap" /\ Pop /\ mState' = "Unmapped"
          /\ UNCHANGED <<mLastMapID, answer>>
      BY <1>4 DEF UnmapReturns, UnmapEnds, Running
    <2>2. ~Destroying /\ ~Destroying'
      BY <1>0, <2>1, NotDestroying, DestroyingStays DEF FrameOps
    <2>3. mState = "Unmapped" \/ (mState = "Mapped" /\ answer[mLastMapID] = "Unmapped")
      BY <1>0, <2>1 DEF StackInv
    <2>4. Phase = "unmapped" /\ Phase' = "unmapped"
      BY <2>1, <2>2, <2>3, PhaseIs DEF PhaseTable
    <2> QED
      BY <2>1, <2>4 DEF Protocol!protocolVars
  <1>5. CASE UnmapMapped
    <2>1. /\ deviceState = "Alive" /\ mState = "Mapped" /\ ~CallsBack(mLastMapID)
          /\ mState' = "Unmapped" /\ UNCHANGED <<mLastMapID, answer, stackVars>>
      BY <1>5 DEF UnmapMapped, UnmapEnds
    <2>2. Destroying' = Destroying
      BY <2>1 DEF Destroying, stackVars
    <2>3. answer[mLastMapID] # "Waiting" /\ answer[mLastMapID] # "DeviceLost"
      BY <1>0, <2>1 DEF NoLostRequest, Waiting, CallsBack, RequestInv, Tasks
    <2>4. \/ Phase = "gone" /\ Phase' = "gone"
          \/ Phase \in {"mapped", "unmapped"} /\ Phase' = "unmapped"
      BY <2>1, <2>2, <2>3, PhaseIs DEF PhaseTable
    <2> QED
      BY <2>1, <2>4 DEF Protocol!Next, Protocol!Release, Protocol!protocolVars
  <1>6. CASE UnmapAtCreation
    <2>1. /\ mState = "MappedAtCreation"
          /\ mState' = "Unmapped" /\ UNCHANGED <<mLastMapID, answer, stackVars>>
      BY <1>6 DEF UnmapAtCreation
    <2>2. Destroying' = Destroying
      BY <2>1 DEF Destroying, stackVars
    <2>3. \/ Phase = "gone" /\ Phase' = "gone"
          \/ Phase = "mapped" /\ Phase' = "unmapped"
      BY <2>1, <2>2, PhaseIs DEF PhaseTable
    <2> QED
      BY <2>1, <2>3 DEF Protocol!Next, Protocol!Release, Protocol!protocolVars
  <1>7. CASE DestroyReturns
    <2>1. /\ depth > 0 /\ frame[depth].op = "Destroy" /\ mState' = "Destroyed"
          /\ UNCHANGED <<mLastMapID, answer>>
      BY <1>7 DEF DestroyReturns, DestroyEnds, Running
    <2>2. Destroying
      BY <1>0, <2>1 DEF Destroying, MappingTypeOK, Depths
    <2>3. Phase = "gone" /\ Phase' = "gone"
      BY <2>1, <2>2, PhaseIs DEF PhaseTable
    <2> QED
      BY <2>1, <2>3 DEF Protocol!protocolVars
  <1>8. CASE DestroyAtOnce
    <2>1. /\ ~Destroying /\ inList /\ mState' = "Destroyed"
          /\ mState # "Mapped" \/ ~CallsBack(mLastMapID)
          /\ UNCHANGED <<mLastMapID, answer>>
      BY <1>8 DEF DestroyAtOnce, DestroyEnds, MutexHeld, Destroying
    <2>2. mState = "Mapped" => answer[mLastMapID] # "Waiting"
      BY <1>0, <2>1 DEF NoLostRequest, Waiting, CallsBack, Tasks
    <2>3. mState \in {"Unmapped", "Mapped", "MappedAtCreation"}
      BY <1>0, <2>1 DEF BufferInv, MappingTypeOK
    <2>4. Phase # "gone" /\ Phase # "pending" /\ Phase' = "gone"
      BY <2>1, <2>2, <2>3, PhaseIs DEF PhaseTable
    <2> QED
      BY <2>1, <2>4 DEF Protocol!Next, Protocol!Destroy
  <1>9. ASSUME NEW t \in Tasks, FinishTask(t) \/ LoseTask(t) PROVE Step
    <2>1. PICK status \in {"Success", "DeviceLost"} :
             /\ RunTask(t, status) /\ depth > 0 /\ UNCHANGED <<mState, mLastMapID>>
             /\ frame[depth].op \in {"Tick", "Submit", "DeviceDestroyTick", "Lose"}
             /\ status = "DeviceLost" => deviceState # "Alive"
      BY <1>0, <1>9 DEF FinishTask, LoseTask, Running, StackInv, MappingTypeOK, Depths
    <2>2. ~Destroying
      BY <1>0, <2>1, NotDestroying
    <2>3. Destroying' = Destroying
      <3>1. UNCHANGED stackVars \/ Replace(frame[depth].op, "Callback")
        BY <2>1 DEF RunTask
      <3> QED
        BY <1>0, <2>1, <3>1, DestroyingStays DEF FrameOps
    <2>4. status \in Answers \ {"Twice"}
      BY DEF Answers
    <2>5. CASE UNCHANGED <<answer, mMapCallback>>
      BY <2>1, <2>3, <2>5, PhaseStays
    <2>6. CASE /\ mMapCallback = t /\ mLastMapID = t
               /\ answer' = [answer EXCEPT ![t] = IF deviceState # "Alive" THEN "DeviceLost" ELSE status]
      <3>1. answer[t] = "Waiting" /\ mState = "Mapped"
        BY <1>0, <2>6 DEF CallbackInv, NoLostRequest, Waiting, Tasks
      <3>2. Phase = "pending"
        BY <2>2, <2>6, <3>1, PhaseIs DEF PhaseTable
      <3>3. CASE deviceState # "Alive"
        <4>1. answer' = [answer EXCEPT ![t] = "DeviceLost"]
          BY <2>6, <3>3
        <4>2. Phase' = "lost"
          BY <1>0, <2>1, <2>2, <2>3, <2>6, <3>1, <4>1, PhaseIs DEF PhaseTable
        <4> QED
          BY <2>1, <2>6, <3>2, <4>1, <4>2 DEF Protocol!Next, Protocol!Lose, Protocol!Reply
      <3>4. CASE deviceState = "Alive"
        <4>1. answer' = [answer EXCEPT ![t] = "Success"]
          BY <2>1, <2>6, <3>4
        <4>2. Phase' = "mapped"
          BY <1>0, <2>1, <2>2, <2>3, <2>6, <3>1, <4>1, PhaseIs DEF PhaseTable
        <4> QED
          BY <2>1, <2>6, <3>2, <4>1, <4>2 DEF Protocol!Next, Protocol!Grant, Protocol!Reply
      <3> QED
        BY <3>3, <3>4
    <2> QED
      BY <1>0, <2>1, <2>4, <2>5, <2>6, RunTaskOnce
  <1>10. ASSUME UNCHANGED bufferVars, Destroying' = Destroying PROVE Step
    BY <1>10, PhaseStays DEF bufferVars
  <1>11. CASE \E t \in Tasks : OnSubmittedWorkDone(t)
    BY <1>0, <1>10, <1>11, DestroyingStays DEF OnSubmittedWorkDone, FrameOps
  <1>12. CASE LockTwice \/ WriteBuffer \/ GpuExecute \/ UNCHANGED vars
    BY <1>0, <1>10, <1>12, DestroyingStays DEF LockTwice, WriteBuffer, GpuExecute, vars, FrameOps
  <1>13. CASE Tick \/ Submit \/ LoseForTesting \/ DeviceDestroy
    BY <1>0, <1>10, <1>13, DestroyingStays DEF Tick, Submit, LoseForTesting, DeviceDestroy, FrameOps
  <1>14. CASE TickReturns \/ SubmitReturns \/ LoseReturns \/ DeviceDestroyReturns \/ DeviceDestroyTicks
    <2>1. /\ UNCHANGED bufferVars /\ depth > 0 /\ frame[depth].op # "Destroy"
          /\ Pop \/ Replace("DeviceDestroyTick", "Code")
      BY <1>14 DEF TickReturns, SubmitReturns, LoseReturns, DeviceDestroyReturns,
                   DeviceDestroyTicks, Running
    <2> QED
      BY <1>0, <1>10, <2>1, DestroyingStays DEF FrameOps
  <1> QED
    BY <1>1, <1>2, <1>3, <1>4, <1>5, <1>6, <1>7, <1>8, <1>9, <1>11, <1>12, <1>13, <1>14
       DEF Next, StackStep, ApiCall

(* BufferBase implements the mapping protocol: every request is answered   *)
(* once, with Success exactly when the application gets the buffer, and    *)
(* the buffer changes hands in no other way, whatever Unmap, Destroy, loss *)
(* and callbacks do in between.                                            *)
THEOREM BufferImplementsProtocol == CalmUnmapCallbacks => (Spec => MappingProtocol)
  <1> SUFFICES ASSUME CalmUnmapCallbacks PROVE Spec => MappingProtocol
    OBVIOUS
  <1>1. Init => Protocol!Init
    <2> SUFFICES ASSUME Init PROVE Protocol!Init
      OBVIOUS
    <2>1. MappingTypeOK /\ StackInv /\ depth = 0
      BY MappingIInit DEF MappingIInv, MappingInv, Init
    <2>2. ~Destroying
      BY <2>1, NotDestroying
    <2> QED
      BY <2>2, PhaseIs DEF Init, PhaseTable, Protocol!Init
  <1>2. MappingIInv /\ [Next]_vars => [Protocol!Next]_(Protocol!protocolVars)
    BY ProtocolStep
  <1> QED
    BY <1>1, <1>2, MappingIInit, MappingIPreserved, PTL DEF Spec, MappingProtocol, Protocol!Spec
=============================================================================
