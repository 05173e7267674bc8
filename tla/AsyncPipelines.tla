--------------------------- MODULE AsyncPipelines ---------------------------
(***************************************************************************)
(* Compute pipelines of a dawn_native device on the Vulkan backend: those  *)
(* created at once, those created by a worker thread, the tasks that take  *)
(* their callbacks back to the application's thread, the pipeline cache    *)
(* and the reference counts.  Render pipelines have the same code.         *)
(*                                                                         *)
(* Each worker thread runs one task.  The application's thread runs the    *)
(* callbacks inside Tick, the setters of callbacks, device loss and        *)
(* Destroy, and callbacks call the API again: its calls are a stack.       *)
(***************************************************************************)
EXTENDS Integers, Sequences, FiniteSets, SequencesExt

CONSTANTS
    MaxCreations,   \* bound: calls that create a pipeline
    MaxDepth,       \* bound: nesting of API calls made from callbacks
    Descriptors,    \* pipelines with equal descriptors are shared
    CallbackOps,    \* API calls made from callbacks
    ShutDownOps     \* ... from the callbacks that Destroy runs

Ops == {"CreateAsync", "Create", "Release", "Tick", "SetCallback", "Lose", "Destroy"}

ASSUME AsyncBounds ==
    /\ MaxCreations \in Nat /\ MaxDepth \in Nat \ {0}
    /\ CallbackOps \subseteq Ops /\ ShutDownOps \subseteq Ops

Creations == 1..MaxCreations   \* a creation, and the pipeline object it makes

VARIABLES
    mState,                      \* of the device; Destroyed: its managers are gone
    descriptor, initialized,
    refs, appRefs,               \* mRefCount, and how many of them are the application's
    tracked, mIsCachedReference, \* in the device's list of objects; put in the cache
    cache,                       \* mCaches->computePipelines, 0 for no pipeline
    answer,                      \* what the callback of each creation was called with
    worker,                      \* where each worker thread is
    mPendingTasks, mCallbackTaskQueue,
    frames,                      \* the API calls in progress, the last one on top
    tickNeeded,                  \* what the application knows from APITick
    halted                       \* why the process has stopped

pipelineVars == <<descriptor, initialized, refs, appRefs, tracked, mIsCachedReference, cache>>
taskVars     == <<mPendingTasks, mCallbackTaskQueue>>
vars == <<mState, pipelineVars, answer, worker, taskVars, frames, tickNeeded, halted>>

Calls   == {"Tick", "SetCallback", "Lose", "Destroy"}
Answers == {"None", "Waiting", "Success", "Error", "DeviceLost", "DeviceDestroyed", "Twice"}
Frame   == [call : Calls, at : {"Wait", "Code", "Callback", "Last"}, waits : SUBSET Creations,
            tasks : Seq(Creations), held : SUBSET Creations]

(* Every variable has its type.                                            *)
AsyncTypeOK ==
    /\ mState \in {"Alive", "Disconnected", "Destroyed"}
    /\ descriptor \in [Creations -> Descriptors]
    /\ initialized \in [Creations -> BOOLEAN]
    /\ refs \in [Creations -> Nat] /\ appRefs \in [Creations -> Nat]
    /\ tracked \in [Creations -> BOOLEAN] /\ mIsCachedReference \in [Creations -> BOOLEAN]
    /\ cache \in [Descriptors -> 0..MaxCreations]
    /\ answer \in [Creations -> Answers]
    /\ worker \in [Creations -> {"None", "Start", "Initialized", "Added", "Deleting",
                                 "Released", "Removed", "Complete"}]
    /\ mPendingTasks \subseteq Creations
    /\ mCallbackTaskQueue \in Seq(Creations)
    /\ frames \in Seq(Frame) /\ Len(frames) <= MaxDepth
    /\ tickNeeded \in BOOLEAN
    /\ halted \in {"None", "NullPipeline", "NullManager", "NullCaches", "RefCount",
                   "Unreachable"}

Init ==
    /\ mState = "Alive"
    /\ descriptor \in [Creations -> Descriptors]
    /\ initialized = [p \in Creations |-> FALSE]
    /\ refs = [p \in Creations |-> 0] /\ appRefs = [p \in Creations |-> 0]
    /\ tracked = [p \in Creations |-> FALSE]
    /\ mIsCachedReference = [p \in Creations |-> FALSE]
    /\ cache = [d \in Descriptors |-> 0]
    /\ answer = [r \in Creations |-> "None"]
    /\ worker = [r \in Creations |-> "None"]
    /\ mPendingTasks = {} /\ mCallbackTaskQueue = <<>>
    /\ frames = <<>>
    /\ tickNeeded = FALSE
    /\ halted = "None"

-----------------------------------------------------------------------------
(* The stack, the reference counts and the cache.                          *)

Top == frames[Len(frames)]
SetTop(f) == frames' = [frames EXCEPT ![Len(frames)] = f]
Pop == Front(frames)
Push(call, at, waits, tasks) ==
    frames' = Append(frames, [call |-> call, at |-> at, waits |-> waits, tasks |-> tasks,
                              held |-> {}])

CanCall(op) ==
    /\ halted = "None"
    /\ \/ frames = <<>>
       \/ /\ frames # <<>> /\ Top.at \in {"Callback", "Last"} /\ Len(frames) < MaxDepth
          /\ op \in IF Top.call = "Destroy" THEN ShutDownOps ELSE CallbackOps

Halt(why) ==
    /\ halted' = why
    /\ UNCHANGED <<mState, pipelineVars, answer, worker, taskVars, frames, tickNeeded>>

(* DestroyImpl of the pipelines in dead that are still in the list.        *)
Uncached(dead) ==
    [d \in Descriptors |->
        IF cache[d] \in {p \in dead : tracked[p] /\ mIsCachedReference[p]} THEN 0 ELSE cache[d]]

(* The application's thread gives back references.  The last one destroys  *)
(* the pipeline.                                                           *)
Release(newRefs) ==
    LET dead == {p \in Creations : refs[p] > 0 /\ newRefs[p] = 0}
    IN  /\ refs' = newRefs
        /\ tracked' = [p \in Creations |-> tracked[p] /\ p \notin dead]
        /\ cache' = Uncached(dead)

-----------------------------------------------------------------------------
(* The API.                                                                *)

NextCreation(r) == answer[r] = "None" /\ \A q \in 1..(r - 1) : answer[q] # "None"

(* Creation r is answered with the pipeline c of the cache, which gets one *)
(* more reference.  Reference asserts that it still has one.               *)
GiveCached(r, c) ==
    IF refs[c] = 0
      THEN halted' = "RefCount" /\ UNCHANGED <<refs, appRefs, answer>>
      ELSE /\ refs' = [refs EXCEPT ![c] = @ + 1]
           /\ appRefs' = [appRefs EXCEPT ![c] = @ + 1]
           /\ answer' = [answer EXCEPT ![r] = "Success"]
           /\ UNCHANGED halted

(* A worker thread is started for the pipeline.                            *)
PostTask(r) ==
    /\ mPendingTasks' = mPendingTasks \cup {r}
    /\ worker' = [worker EXCEPT ![r] = "Start"]

(* Mutant: the pipeline is initialised although the cache had one.         *)
CreateComputePipelineAsyncAnyway(r) ==
    LET c == cache[descriptor[r]]
    IN  /\ CanCall("CreateAsync") /\ NextCreation(r) /\ mState = "Alive"
        /\ answer' = [answer EXCEPT ![r] = IF c = 0 THEN "Waiting" ELSE "Success"]
        /\ refs' = [p \in Creations |->
                IF p = r THEN 1 ELSE IF p = c THEN refs[p] + 1 ELSE refs[p]]
        /\ appRefs' = [p \in Creations |-> IF p = c THEN appRefs[p] + 1 ELSE appRefs[p]]
        /\ tracked' = [tracked EXCEPT ![r] = TRUE]
        /\ PostTask(r)
        /\ tickNeeded' = TRUE
        /\ UNCHANGED <<mState, descriptor, initialized, mIsCachedReference, cache,
                       mCallbackTaskQueue, frames, halted>>

(* Posted to a worker, unless the cache has the pipeline.                  *)
CreateComputePipelineAsync(r) ==
    LET c == cache[descriptor[r]]
    IN  /\ CanCall("CreateAsync") /\ NextCreation(r)
        /\ \/ /\ mState # "Alive"
              /\ answer' = [answer EXCEPT ![r] = "Error"]
              /\ UNCHANGED <<refs, appRefs, tracked, worker, mPendingTasks, tickNeeded, halted>>
           \/ /\ mState = "Alive" /\ c # 0
              /\ GiveCached(r, c)
              /\ UNCHANGED <<tracked, worker, mPendingTasks, tickNeeded>>
           \/ /\ mState = "Alive" /\ c = 0
              /\ answer' = [answer EXCEPT ![r] = "Waiting"]
              /\ refs' = [refs EXCEPT ![r] = 1]
              /\ tracked' = [tracked EXCEPT ![r] = TRUE]
              /\ PostTask(r)
              /\ tickNeeded' = TRUE
              /\ UNCHANGED <<appRefs, halted>>
        /\ UNCHANGED <<mState, descriptor, initialized, mIsCachedReference, cache,
                       mCallbackTaskQueue, frames>>

(* Initialize runs at once and may fail.                                   *)
CreateComputePipeline(r) ==
    LET c == cache[descriptor[r]]
    IN  /\ CanCall("Create") /\ NextCreation(r)
        /\ \/ /\ mState # "Alive" \/ c = 0
              /\ answer' = [answer EXCEPT ![r] = "Error"]
              /\ UNCHANGED <<pipelineVars, halted>>
           \/ /\ mState = "Alive" /\ c = 0
              /\ answer' = [answer EXCEPT ![r] = "Success"]
              /\ initialized' = [initialized EXCEPT ![r] = TRUE]
              /\ refs' = [refs EXCEPT ![r] = 1] /\ appRefs' = [appRefs EXCEPT ![r] = 1]
              /\ tracked' = [tracked EXCEPT ![r] = TRUE]
              /\ mIsCachedReference' = [mIsCachedReference EXCEPT ![r] = TRUE]
              /\ cache' = [cache EXCEPT ![descriptor[r]] = r]
              /\ UNCHANGED <<descriptor, halted>>
           \/ /\ mState = "Alive" /\ c # 0
              /\ GiveCached(r, c)
              /\ UNCHANGED <<descriptor, initialized, tracked, mIsCachedReference, cache>>
        /\ UNCHANGED <<mState, worker, taskVars, frames, tickNeeded>>

(* The last reference to a cached pipeline that DestroyObjects has not     *)
(* seen, when mCaches is gone.                                             *)
NeedsCaches(p) == mState = "Destroyed" /\ refs[p] = 1 /\ tracked[p] /\ mIsCachedReference[p]

(* The application releases one of its references, maybe before the worker *)
(* has released its own.                                                   *)
ReleasePipeline(p) ==
    /\ CanCall("Release") /\ appRefs[p] > 0
    /\ IF NeedsCaches(p)
         THEN Halt("NullCaches")
         ELSE /\ appRefs' = [appRefs EXCEPT ![p] = @ - 1]
              /\ Release([refs EXCEPT ![p] = @ - 1])
              /\ UNCHANGED <<mState, descriptor, initialized, mIsCachedReference, answer, worker,
                             taskVars, frames, tickNeeded, halted>>

(* The tasks are moved out of the queue before the first callback.         *)
AcquireCallbackTasks == mCallbackTaskQueue' = <<>>

(* APITick up to FlushCallbackTaskQueue; a lost device is not ticked.      *)
Tick ==
    /\ CanCall("Tick") /\ mState = "Alive"
    /\ Push("Tick", "Code", {}, mCallbackTaskQueue)
    /\ AcquireCallbackTasks
    /\ UNCHANGED <<mState, pipelineVars, answer, worker, mPendingTasks, tickNeeded, halted>>

(* APISetLoggingCallback and its siblings flush the queue first.           *)
SetCallback ==
    /\ CanCall("SetCallback") /\ mState = "Alive"
    /\ Push("SetCallback", "Code", {}, mCallbackTaskQueue)
    /\ AcquireCallbackTasks
    /\ UNCHANGED <<mState, pipelineVars, answer, worker, mPendingTasks, tickNeeded, halted>>

(* Mutant: the tasks in flight are not waited for.                         *)
LoseDeviceWithoutWait ==
    /\ CanCall("Lose") /\ mState = "Alive"
    /\ mState' = "Disconnected"
    /\ Push("Lose", "Code", {}, mCallbackTaskQueue)
    /\ AcquireCallbackTasks
    /\ UNCHANGED <<pipelineVars, answer, worker, mPendingTasks, tickNeeded, halted>>

(* HandleError with a device loss, up to WaitAllPendingTasks.              *)
LoseDevice ==
    /\ CanCall("Lose") /\ mState = "Alive"
    /\ mState' = "Disconnected"
    /\ Push("Lose", "Wait", mPendingTasks, <<>>)
    /\ mPendingTasks' = {}
    /\ UNCHANGED <<pipelineVars, answer, worker, mCallbackTaskQueue, tickNeeded, halted>>

(* DeviceBase::Destroy up to WaitAllPendingTasks.                          *)
Destroy ==
    /\ CanCall("Destroy") /\ mState # "Destroyed"
    /\ Push("Destroy", "Wait", mPendingTasks, <<>>)
    /\ mPendingTasks' = {}
    /\ UNCHANGED <<mState, pipelineVars, answer, worker, mCallbackTaskQueue, tickNeeded, halted>>

-----------------------------------------------------------------------------
(* The rest of those calls.                                                *)

InFrame(at) == halted = "None" /\ frames # <<>> /\ Top.at = at

(* Mutant: the events are not waited for.                                  *)
WaitedForNone(waits) == TRUE

WaitedFor(waits) == \A r \in waits : worker[r] = "Complete"

(* WaitAllPendingTasks returns, and AcquireCallbackTasks.                  *)
WaitEnds ==
    /\ InFrame("Wait") /\ WaitedFor(Top.waits)
    /\ SetTop([Top EXCEPT !.at = "Code", !.waits = {}, !.tasks = mCallbackTaskQueue])
    /\ AcquireCallbackTasks
    /\ UNCHANGED <<mState, pipelineVars, answer, worker, mPendingTasks, tickNeeded, halted>>

Answer(r, status) ==
    answer' = [answer EXCEPT ![r] = IF @ = "Waiting" THEN status ELSE "Twice"]

(* Finish: the pipeline goes into the cache, or makes way for the one that *)
(* is there by now, and the task's reference goes to the application.      *)
Finish(r) ==
    LET c == cache[descriptor[r]]
    IN  IF c = 0
          THEN /\ cache' = [cache EXCEPT ![descriptor[r]] = r]
               /\ mIsCachedReference' = [mIsCachedReference EXCEPT ![r] = TRUE]
               /\ appRefs' = [appRefs EXCEPT ![r] = @ + 1]
               /\ Answer(r, "Success")
               /\ UNCHANGED <<refs, tracked>>
          ELSE /\ appRefs' = [appRefs EXCEPT ![c] = @ + 1]
               /\ Release([[refs EXCEPT ![c] = @ + 1] EXCEPT ![r] = @ - 1])
               /\ Answer(r, "Success")
               /\ UNCHANGED mIsCachedReference

(* The cache has a pipeline whose last reference a worker has released.    *)
StaleInCache(r) == cache[descriptor[r]] # 0 /\ refs[cache[descriptor[r]]] = 0

(* The next callback of a flush.                                           *)
FinishTask ==
    LET r == Head(Top.tasks)
    IN  /\ InFrame("Code") /\ Top.tasks # <<>> /\ Top.call \in {"Tick", "SetCallback"}
        /\ IF mState = "Destroyed" THEN Halt("NullManager")
           ELSE IF StaleInCache(r) THEN Halt("RefCount")
           ELSE /\ Finish(r)
                /\ SetTop([Top EXCEPT !.at = "Callback", !.tasks = Tail(@)])
                /\ UNCHANGED <<mState, descriptor, initialized, worker, taskVars, tickNeeded,
                               halted>>

(* HandleDeviceLoss or HandleShutDown of the next task, which keeps its    *)
(* reference until all have been called.                                   *)
CloseTask ==
    /\ InFrame("Code") /\ Top.tasks # <<>> /\ Top.call \in {"Lose", "Destroy"}
    /\ Answer(Head(Top.tasks), IF Top.call = "Lose" THEN "DeviceLost" ELSE "DeviceDestroyed")
    /\ SetTop([Top EXCEPT !.at = "Callback", !.tasks = Tail(@),
                          !.held = @ \cup {Head(Top.tasks)}])
    /\ UNCHANGED <<mState, pipelineVars, worker, taskVars, tickNeeded, halted>>

CallbackReturns ==
    /\ InFrame("Callback")
    /\ SetTop([Top EXCEPT !.at = "Code"])
    /\ UNCHANGED <<mState, pipelineVars, answer, worker, taskVars, tickNeeded, halted>>

(* APITick asks IsDeviceIdle when all callbacks have been called.          *)
TickReturns ==
    /\ InFrame("Code") /\ Top.tasks = <<>> /\ Top.call = "Tick"
    /\ IF mState = "Destroyed" THEN halted' = "NullManager" /\ UNCHANGED tickNeeded
                               ELSE tickNeeded' = (mPendingTasks # {}) /\ UNCHANGED halted
    /\ frames' = Pop
    /\ UNCHANGED <<mState, pipelineVars, answer, worker, taskVars>>

SetCallbackReturns ==
    /\ InFrame("Code") /\ Top.tasks = <<>> /\ Top.call = "SetCallback"
    /\ frames' = Pop
    /\ UNCHANGED <<mState, pipelineVars, answer, worker, taskVars, tickNeeded, halted>>

(* The task objects go, with the references they still have.               *)
DropHeld == [p \in Creations |-> IF p \in Top.held THEN refs[p] - 1 ELSE refs[p]]

LoseReturns ==
    /\ InFrame("Code") /\ Top.tasks = <<>> /\ Top.call = "Lose"
    /\ Release(DropHeld)
    /\ frames' = Pop
    /\ UNCHANGED <<mState, descriptor, initialized, appRefs, mIsCachedReference, answer, worker,
                   taskVars, tickNeeded, halted>>

(* The tasks go, then DestroyObjects takes every pipeline out of the list  *)
(* and the cache.  The callbacks of buffers and of the queue follow: the   *)
(* device is still what it was, and may be asked for pipelines.            *)
DestroyObjects ==
    /\ InFrame("Code") /\ Top.tasks = <<>> /\ Top.call = "Destroy"
    /\ IF mState = "Destroyed"
         THEN Halt("Unreachable")
         ELSE /\ refs' = DropHeld
              /\ tracked' = [p \in Creations |-> FALSE]
              /\ cache' = [d \in Descriptors |-> 0]
              /\ SetTop([Top EXCEPT !.at = "Last", !.held = {}])
              /\ UNCHANGED <<mState, descriptor, initialized, appRefs, mIsCachedReference, answer,
                             worker, taskVars, tickNeeded, halted>>

(* Then the managers and the caches go, whatever is in them by now.        *)
DestroyReturns ==
    /\ InFrame("Last")
    /\ IF mState = "Destroyed"
         THEN Halt("NullManager")
         ELSE /\ cache' = [d \in Descriptors |-> 0]
              /\ mState' = "Destroyed"
              /\ frames' = Pop
              /\ UNCHANGED <<descriptor, initialized, refs, appRefs, tracked, mIsCachedReference,
                             answer, worker, taskVars, tickNeeded, halted>>

-----------------------------------------------------------------------------
(* A worker thread.                                                        *)

At(r, step) == halted = "None" /\ worker[r] = step
GoTo(r, step) == worker' = [worker EXCEPT ![r] = step]

(* Initialize.  When it fails, Run resets its pipeline and dereferences    *)
(* it: the process ends.                                                   *)
WorkerInitializes(r) ==
    /\ At(r, "Start")
    /\ initialized' = [initialized EXCEPT ![r] = TRUE]
    /\ GoTo(r, "Initialized")
    /\ UNCHANGED <<mState, descriptor, refs, appRefs, tracked, mIsCachedReference, cache, answer,
                   taskVars, frames, tickNeeded, halted>>

WorkerFails(r) == At(r, "Start") /\ Halt("NullPipeline")

(* Mutant: the reference is moved into the callback task.                  *)
TaskRefsMoved(r) == refs

(* The callback task takes a copy of the worker's reference.               *)
TaskRefs(r) == [refs EXCEPT ![r] = @ + 1]

AddCallbackTask(r) ==
    /\ At(r, "Initialized")
    /\ IF mState = "Destroyed"
         THEN Halt("NullManager")
         ELSE /\ mCallbackTaskQueue' = Append(mCallbackTaskQueue, r)
              /\ refs' = TaskRefs(r)
              /\ GoTo(r, "Added")
              /\ UNCHANGED <<mState, descriptor, initialized, appRefs, tracked,
                             mIsCachedReference, cache, answer, mPendingTasks, frames, tickNeeded,
                             halted>>

(* ~CreateComputePipelineAsyncTask: fetch_sub, then DeleteThis.            *)
WorkerReleases(r) ==
    /\ At(r, "Added")
    /\ refs' = [refs EXCEPT ![r] = @ - 1]
    /\ GoTo(r, IF refs[r] = 1 THEN "Deleting" ELSE "Released")
    /\ UNCHANGED <<mState, descriptor, initialized, appRefs, tracked, mIsCachedReference, cache,
                   answer, taskVars, frames, tickNeeded, halted>>

WorkerDestroys(r) ==
    /\ At(r, "Deleting")
    /\ tracked' = [tracked EXCEPT ![r] = FALSE]
    /\ cache' = Uncached({r})
    /\ GoTo(r, "Released")
    /\ UNCHANGED <<mState, descriptor, initialized, refs, appRefs, mIsCachedReference, answer,
                   taskVars, frames, tickNeeded, halted>>

(* The task may have been moved out of the map by WaitAllPendingTasks.     *)
HandleTaskCompletion(r) ==
    /\ At(r, "Released")
    /\ IF mState = "Destroyed"
         THEN Halt("NullManager")
         ELSE /\ mPendingTasks' = mPendingTasks \ {r}
              /\ GoTo(r, "Removed")
              /\ UNCHANGED <<mState, pipelineVars, answer, mCallbackTaskQueue, frames, tickNeeded,
                             halted>>

MarkAsComplete(r) ==
    /\ At(r, "Removed")
    /\ GoTo(r, "Complete")
    /\ UNCHANGED <<mState, pipelineVars, answer, taskVars, frames, tickNeeded, halted>>

-----------------------------------------------------------------------------
Application ==
    \/ \E r \in Creations :
        CreateComputePipelineAsync(r) \/ CreateComputePipeline(r) \/ ReleasePipeline(r)
    \/ Tick \/ SetCallback \/ LoseDevice \/ Destroy

StackStep ==
    \/ WaitEnds \/ FinishTask \/ CloseTask \/ CallbackReturns
    \/ TickReturns \/ SetCallbackReturns \/ LoseReturns \/ DestroyObjects \/ DestroyReturns

Worker(r) ==
    \/ WorkerInitializes(r) \/ WorkerFails(r) \/ AddCallbackTask(r) \/ WorkerReleases(r)
    \/ WorkerDestroys(r) \/ HandleTaskCompletion(r) \/ MarkAsComplete(r)

Next == Application \/ StackStep \/ \E r \in Creations : Worker(r)

Spec == Init /\ [][Next]_vars

(* Threads run, callbacks return.                                          *)
Fairness ==
    /\ \A r \in Creations : WF_vars(Worker(r))
    /\ \A d \in 1..MaxDepth : SF_vars(Len(frames) = d /\ StackStep)

(* The application goes on ticking, or ticks as long as APITick says so.   *)
FairSpec       == Spec /\ Fairness /\ WF_vars(frames = <<>> /\ Tick)
FairSpecNeeded == Spec /\ Fairness /\ WF_vars(frames = <<>> /\ tickNeeded /\ Tick)

-----------------------------------------------------------------------------
(* Properties.                                                             *)

(* No creation is answered twice, though a callback may tick, set          *)
(* callbacks or lose the device while others wait to be called.            *)
CalledAtMostOnce == \A r \in Creations : answer[r] # "Twice"

(* Three things stop the process and no other does.  A worker's Initialize *)
(* fails.  A pipeline is found in the cache while its worker, which had    *)
(* the last reference, is about to take it out: a released pipeline is     *)
(* referenced at no other time.  A pipeline that was created at once, in a *)
(* callback that Destroy ran after DestroyObjects, is released when        *)
(* mCaches is gone.  No manager is used after Destroy.                     *)
HaltsAreKnown ==
    \/ halted \in {"None", "NullPipeline"}
    \/ halted = "RefCount" /\ \E p \in Creations : worker[p] = "Deleting"
    \/ halted = "NullCaches" /\ \E p \in Creations : tracked[p] /\ worker[p] = "None"

(* The callback task of pipeline p has yet to be run, or has been run by a *)
(* call that keeps it until all have been.  It holds a reference to p.     *)
TaskWaits(p) ==
    \/ p \in ToSet(mCallbackTaskQueue)
    \/ \E i \in DOMAIN frames : p \in ToSet(frames[i].tasks)
TaskKept(p)  == \E i \in DOMAIN frames : p \in frames[i].held
TaskRef(p)   == IF TaskWaits(p) \/ TaskKept(p) THEN 1 ELSE 0
WorkerRef(p) == IF worker[p] \in {"Start", "Initialized", "Added"} THEN 1 ELSE 0

(* The reference count of a pipeline is the number of its holders, on both *)
(* threads, however they interleave.                                       *)
RefsAreHeld ==
    \A p \in Creations : refs[p] = appRefs[p] + WorkerRef(p) + TaskRef(p)

(* DestroyObjects has run.                                                 *)
ObjectsGone == mState = "Destroyed" \/ \E i \in DOMAIN frames : frames[i].at = "Last"

(* The cache holds initialized pipelines that live, or that their worker   *)
(* is about to take out, and no other; every living pipeline that was put  *)
(* there is still there, until Destroy takes it out.                       *)
CacheIsLive ==
    /\ \A d \in Descriptors : cache[d] # 0 =>
            LET p == cache[d]
            IN  /\ refs[p] > 0 \/ worker[p] = "Deleting"
                /\ initialized[p] /\ mIsCachedReference[p] /\ tracked[p]
    /\ \A p \in Creations :
            /\ refs[p] > 0 /\ mIsCachedReference[p] /\ mState # "Destroyed"
            /\ ObjectsGone => tracked[p]
            => cache[descriptor[p]] = p

(* References, cache and tasks agree between the threads.                  *)
AsyncInv == AsyncTypeOK /\ RefsAreHeld /\ CacheIsLive

(* Every creation is answered: none waits from some time on.               *)
EveryCreationAnswered ==
    \A r \in Creations : []<>(answer[r] # "Waiting" \/ halted # "None")

-----------------------------------------------------------------------------
(* The invariants behind them.                                             *)

Unanswered(p) == answer[p] \in {"None", "Waiting"}
Unposted(p)   == worker[p] \in {"None", "Start", "Initialized"}

(* The callback task of a pipeline is in one place: the queue, or a call   *)
(* that has yet to run it, or one that has run it and still has it.        *)
TasksApart ==
    /\ IsInjective(mCallbackTaskQueue)
    /\ \A i \in DOMAIN frames :
          /\ IsInjective(frames[i].tasks)
          /\ ToSet(frames[i].tasks) \cap ToSet(mCallbackTaskQueue) = {}
    /\ \A i, j \in DOMAIN frames : i # j =>
          /\ ToSet(frames[i].tasks) \cap ToSet(frames[j].tasks) = {}
          /\ frames[i].held \cap frames[j].held = {}
    /\ \A i \in DOMAIN frames :
          /\ frames[i].call \in {"Tick", "SetCallback"} => frames[i].held = {}
          /\ frames[i].at \in {"Wait", "Last"} => frames[i].tasks = <<>>
          /\ frames[i].at = "Last" => frames[i].held = {}

(* A task is there from AddCallbackTask on, and unanswered until it runs.  *)
TasksWait ==
    \A p \in Creations :
        /\ TaskWaits(p) => answer[p] = "Waiting" /\ ~Unposted(p)
        /\ TaskKept(p) => ~Unanswered(p) /\ ~Unposted(p)
        /\ worker[p] \in {"Start", "Initialized"} => answer[p] = "Waiting"
        /\ answer[p] = "None" => worker[p] = "None" /\ appRefs[p] = 0

CacheAnswered == \A d \in Descriptors : cache[d] # 0 => ~Unanswered(cache[d])

(* What holds however the application behaves.                             *)
TaskInv ==
    /\ AsyncTypeOK /\ TasksApart /\ TasksWait /\ CacheAnswered
    /\ CalledAtMostOnce /\ RefsAreHeld

(* What an application may not do: destroy the device from a callback, or  *)
(* start workers while it is being destroyed.                              *)
CalmShutDown ==
    /\ "Destroy" \notin CallbackOps \cup ShutDownOps
    /\ "CreateAsync" \notin ShutDownOps

(* A pipeline is in the device's list while it lives, until Destroy takes  *)
(* them all out, initialized once its worker has got there, and in the     *)
(* cache only once it was answered.                                        *)
PipelineInv ==
    \A p \in Creations :
        /\ refs[p] > 0 /\ ~ObjectsGone => tracked[p]
        /\ ObjectsGone /\ tracked[p] => worker[p] = "None"
        /\ worker[p] \notin {"None", "Start"} => initialized[p]
        /\ Unanswered(p) => ~mIsCachedReference[p]
        /\ worker[p] = "Deleting" => refs[p] = 0

DescriptorsAgree ==
    \A d \in Descriptors : cache[d] # 0 => descriptor[cache[d]] = d

(* The worker has not been started or needs the device no more.            *)
WorkerDone(p) == worker[p] \in {"None", "Removed", "Complete"}

(* Each worker that still needs the device is one that WaitAllPendingTasks *)
(* waits for, or would.                                                    *)
WorkersKnown ==
    \A p \in Creations : ~WorkerDone(p) =>
        \/ p \in mPendingTasks
        \/ \E i \in DOMAIN frames : frames[i].at = "Wait" /\ p \in frames[i].waits

(* Destroy is the outermost call; once it has waited nothing is left for   *)
(* the calls made from its callbacks.                                      *)
ShutDownInv ==
    /\ \A i \in DOMAIN frames :
          /\ i < Len(frames) => frames[i].at \in {"Callback", "Last"}
          /\ frames[i].at = "Last" => frames[i].call = "Destroy"
          /\ frames[i].call = "Destroy" => i = 1 /\ mPendingTasks = {}
          /\ frames[1].call = "Destroy" /\ frames[1].at # "Wait" =>
                /\ mCallbackTaskQueue = <<>>
                /\ i > 1 => frames[i].tasks = <<>> /\ frames[i].at # "Callback"
                /\ frames[i].waits = {}
    /\ mState = "Destroyed" =>
          /\ frames = <<>>
          /\ \A p \in Creations : WorkerDone(p)

(* What holds for a calm application.                                      *)
CalmInv ==
    /\ HaltsAreKnown /\ CacheIsLive
    /\ PipelineInv /\ DescriptorsAgree /\ WorkersKnown /\ ShutDownInv
=============================================================================
