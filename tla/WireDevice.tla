----------------------------- MODULE WireDevice -----------------------------
(***************************************************************************)
(* One device over the wire: error scopes, uncaptured errors, the loss of  *)
(* the device, asynchronous pipelines and their reserved object ids, the   *)
(* queue's work-done requests, and the release of the device on both       *)
(* sides.  Commands and return commands arrive in order.                   *)
(*                                                                         *)
(* log records the application's calls that open, close or fill an error   *)
(* scope, in the order it makes them; an error is named by its position in *)
(* log, which stands for its message.                                      *)
(***************************************************************************)
EXTENDS Integers, Sequences, SequencesExt, FiniteSetsExt

CONSTANTS
    MaxCalls,       \* bound: scope, error, work-done and pipeline calls in a behaviour
    MaxRequests,    \* bound: requests (pops, pipelines, work-done) among them
    MaxInFlight     \* bound: a side with as many commands to handle gets no more

ASSUME WireDeviceBounds == MaxCalls \in Nat /\ MaxRequests \in Nat /\ MaxInFlight \in Nat

Requests == 1..MaxRequests
Ids      == 1..MaxRequests
Filters  == {"Validation", "OutOfMemory"}

VARIABLES
    \* the client
    live,                   \* the application holds the device
    mDisconnected, mErrorScopeStackSize, mDidRunLostCallback,
    reqKind, answer,        \* the requests of the three RequestTrackers
    message,                \* the error a pop was answered with, 0 for none
    pipelineId, held,       \* the pipeline of a request; the application holds it
    mFreeIds, mCurrentId,   \* ObjectAllocator<ComputePipeline>
    reported,               \* the uncaptured errors told to the application
    \* the wire
    toServer, toClient,
    \* the server
    deviceKnown,            \* the device's entry in DeviceObjects()
    known, knownSize,       \* ComputePipelineObjects()
    wireError,              \* a handler has failed, the peer is dropped
    \* the native device
    nativeState,            \* DeviceBase::mState
    mScopes,                \* ErrorScopeStack: filter and the captured error
    creating, callbackTasks,   \* pipelines on a worker; those waiting for a tick
    tasksInFlight,          \* work-done requests the queue waits to finish
    \* history
    log, raised             \* errors raised so far, as positions in log

clientVars  == <<live, mDisconnected, mErrorScopeStackSize, mDidRunLostCallback, reported>>
requestVars == <<reqKind, answer, message>>
idVars      == <<pipelineId, held, mFreeIds, mCurrentId>>
serverVars  == <<deviceKnown, known, knownSize>>
nativeVars  == <<nativeState, mScopes, creating, callbackTasks, tasksInFlight, raised>>
vars == <<clientVars, requestVars, idVars, toServer, toClient, serverVars, wireError,
          nativeVars, log>>

(* An entry of ComputePipelineObjects() with the request it was made for.  *)
NoEntry == [state |-> "Free", request |-> 0]
Entry == [state : {"Free", "Reserved", "Allocated"}, request : 0..MaxRequests]

(* Every variable has its type.                                            *)
WireDeviceTypeOK ==
    /\ live \in BOOLEAN /\ mDisconnected \in BOOLEAN /\ mDidRunLostCallback \in BOOLEAN
    /\ mErrorScopeStackSize \in 0..MaxCalls
    /\ reqKind \in [Requests -> {"None", "Pop", "Pipeline", "Work"}]
    /\ answer \in [Requests -> {"None", "Waiting", "NoError", "Validation", "OutOfMemory",
                                "Unknown", "DeviceLost", "DeviceDestroyed", "Error", "Success"}]
    /\ message \in [Requests -> 0..MaxCalls]
    /\ pipelineId \in [Requests -> 0..MaxRequests] /\ held \in [Requests -> BOOLEAN]
    /\ mFreeIds \in Seq(Ids) /\ mCurrentId \in 1..(MaxRequests + 1)
    /\ reported \in Seq(1..MaxCalls)
    /\ deviceKnown \in BOOLEAN
    /\ known \in [Ids -> Entry] /\ knownSize \in 1..(MaxRequests + 1)
    /\ wireError \in {"None", "Server", "Client"}
    /\ nativeState \in {"Alive", "Disconnected", "Destroyed"}
    /\ mScopes \in Seq([filter : Filters, captured : 0..MaxCalls])
    /\ creating \subseteq Requests
    /\ callbackTasks \in Seq([request : Requests, status : {"Success", "Error"}])
    /\ tasksInFlight \in Seq(Requests)
    /\ raised \subseteq 1..MaxCalls

Init ==
    /\ live = TRUE /\ mDisconnected = FALSE
    /\ mErrorScopeStackSize = 0 /\ mDidRunLostCallback = FALSE
    /\ reqKind = [r \in Requests |-> "None"] /\ answer = [r \in Requests |-> "None"]
    /\ message = [r \in Requests |-> 0]
    /\ pipelineId = [r \in Requests |-> 0] /\ held = [r \in Requests |-> FALSE]
    /\ mFreeIds = <<>> /\ mCurrentId = 1
    /\ reported = <<>>
    /\ toServer = <<>> /\ toClient = <<>>
    /\ deviceKnown = TRUE /\ known = [i \in Ids |-> NoEntry] /\ knownSize = 1
    /\ wireError = "None"
    /\ nativeState = "Alive" /\ mScopes = <<>>
    /\ creating = {} /\ callbackTasks = <<>> /\ tasksInFlight = <<>>
    /\ log = <<>> /\ raised = {}

Running == wireError = "None"
Waiting(r) == answer[r] = "Waiting"

(* Client::SerializeCommand: nothing leaves a disconnected client.         *)
Send(c) ==
    /\ Len(toServer) < MaxInFlight
    /\ toServer' = IF mDisconnected THEN toServer ELSE Append(toServer, c)

(* Server::SerializeCommand, of several return commands.                   *)
Reply(cmds) == toClient' = toClient \o cmds

-----------------------------------------------------------------------------
(* The client's API.                                                       *)

CountCall == Len(log) + Cardinality({r \in Requests : reqKind[r] = "Pipeline"}) < MaxCalls

Note(event) ==
    /\ CountCall
    /\ log' = Append(log, event)

Fresh(r) == answer[r] = "None" /\ \A q \in 1..(r - 1) : answer[q] # "None"

NewRequest(r, kind, status) ==
    /\ Fresh(r)
    /\ reqKind' = [reqKind EXCEPT ![r] = kind]
    /\ answer' = [answer EXCEPT ![r] = status]
    /\ UNCHANGED message

PushErrorScope(filter) ==
    /\ Running /\ live
    /\ Note([op |-> "Push", filter |-> filter])
    /\ mErrorScopeStackSize' = mErrorScopeStackSize + 1
    /\ Send([cmd |-> "Push", filter |-> filter])
    /\ UNCHANGED <<live, mDisconnected, mDidRunLostCallback, reported, requestVars, idVars,
                   toClient, serverVars, wireError, nativeVars>>

(* Returns false, and does nothing, when the stack is empty.               *)
PopErrorScope(r) ==
    /\ Running /\ live /\ mErrorScopeStackSize > 0
    /\ Note([op |-> "Pop", request |-> r])
    /\ mErrorScopeStackSize' = mErrorScopeStackSize - 1
    /\ NewRequest(r, "Pop", IF mDisconnected THEN "DeviceLost" ELSE "Waiting")
    /\ Send([cmd |-> "Pop", request |-> r])
    /\ UNCHANGED <<live, mDisconnected, mDidRunLostCallback, reported, idVars, toClient,
                   serverVars, wireError, nativeVars>>

InjectError(type) ==
    /\ Running /\ live /\ ~mDisconnected
    /\ Note([op |-> "Error", type |-> type])
    /\ Send([cmd |-> "InjectError", type |-> type, at |-> Len(log) + 1])
    /\ UNCHANGED <<clientVars, requestVars, idVars, toClient, serverVars, wireError, nativeVars>>

(* The queue belongs to the client's device and is not used after it.      *)
OnSubmittedWorkDone(r) ==
    /\ Running /\ live
    /\ Note([op |-> "Work", request |-> r])
    /\ NewRequest(r, "Work", IF mDisconnected THEN "DeviceLost" ELSE "Waiting")
    /\ Send([cmd |-> "Work", request |-> r, at |-> Len(log) + 1])
    /\ UNCHANGED <<clientVars, idVars, toClient, serverVars, wireError, nativeVars>>

(* CreateComputePipelineAsync and its render twin: the pipeline's id is    *)
(* allocated when the request is made (ObjectAllocator::New).              *)
CreatePipelineAsync(r) ==
    /\ Running /\ live /\ CountCall
    /\ NewRequest(r, "Pipeline", IF mDisconnected THEN "DeviceLost" ELSE "Waiting")
    /\ IF mDisconnected
         THEN UNCHANGED <<idVars, toServer>>
         ELSE LET fresh == mFreeIds = <<>>
                  i     == IF fresh THEN mCurrentId ELSE Last(mFreeIds)
              IN  /\ pipelineId' = [pipelineId EXCEPT ![r] = i]
                  /\ mFreeIds' = IF fresh THEN mFreeIds ELSE Front(mFreeIds)
                  /\ mCurrentId' = IF fresh THEN mCurrentId + 1 ELSE mCurrentId
                  /\ Send([cmd |-> "CreatePipeline", request |-> r, id |-> i])
                  /\ UNCHANGED held
    /\ UNCHANGED <<clientVars, toClient, serverVars, wireError, nativeVars, log>>

(* ObjectAllocator::Free                                                   *)
FreeId(r) ==
    /\ pipelineId' = [pipelineId EXCEPT ![r] = 0]
    /\ mFreeIds' = Append(mFreeIds, pipelineId[r])
    /\ UNCHANGED mCurrentId

(* The last reference of a pipeline.  The application releases it while it *)
(* holds the device: the server destroys the device's children with it.    *)
ReleasePipeline(r) ==
    /\ Running /\ live /\ held[r]
    /\ held' = [held EXCEPT ![r] = FALSE]
    /\ Send([cmd |-> "DestroyPipeline", id |-> pipelineId[r]])
    /\ FreeId(r)
    /\ UNCHANGED <<clientVars, requestVars, toClient, serverVars, wireError, nativeVars, log>>

(* wgpuDeviceDestroy, forwarded.  A second one does nothing.               *)
Destroy ==
    /\ Running /\ live /\ ~mDisconnected
    /\ \A c \in Range(toServer) : c.cmd # "Destroy"
    /\ nativeState # "Destroyed"
    /\ Send([cmd |-> "Destroy"])
    /\ UNCHANGED <<clientVars, requestVars, idVars, toClient, serverVars, wireError, nativeVars,
                   log>>

(* Mutant: the pipelines asked for are left to the server.                 *)
ReleaseDeviceOpen ==
    /\ Running /\ live
    /\ live' = FALSE
    /\ Send([cmd |-> "DestroyDevice"])
    /\ answer' = [r \in Requests |->
            IF Waiting(r) /\ reqKind[r] = "Pop" THEN "Unknown" ELSE answer[r]]
    /\ UNCHANGED <<mDisconnected, mErrorScopeStackSize, mDidRunLostCallback, reported, reqKind,
                   message, idVars, toClient, serverVars, wireError, nativeVars, log>>

(* The last reference of the device: DestroyObject is sent, and ~Device    *)
(* answers its requests.  The ids of pipelines still asked for stay taken. *)
(* Those of the queue, which the device never releases, stay open.         *)
ReleaseDevice ==
    /\ Running /\ live
    /\ live' = FALSE
    /\ Send([cmd |-> "DestroyDevice"])
    /\ answer' = [r \in Requests |->
            IF Waiting(r) /\ reqKind[r] = "Pop" THEN "Unknown"
            ELSE IF Waiting(r) /\ reqKind[r] = "Pipeline" THEN "DeviceDestroyed"
            ELSE answer[r]]
    /\ UNCHANGED <<mDisconnected, mErrorScopeStackSize, mDidRunLostCallback, reported, reqKind,
                   message, idVars, toClient, serverVars, wireError, nativeVars, log>>

(* Client::Disconnect, with what was on its way lost.  What the server     *)
(* does afterwards reaches nobody.                                         *)
Disconnect ==
    /\ Running /\ ~mDisconnected
    /\ mDisconnected' = TRUE
    /\ mDidRunLostCallback' = (mDidRunLostCallback \/ live)
    /\ answer' = [r \in Requests |-> IF Waiting(r) THEN "DeviceLost" ELSE answer[r]]
    /\ toServer' = <<>> /\ toClient' = <<>>
    /\ UNCHANGED <<live, mErrorScopeStackSize, reported, reqKind, message, idVars, serverVars,
                   wireError, nativeVars, log>>

-----------------------------------------------------------------------------
(* The client's handlers of return commands.  A device that is gone is not *)
(* an error; a request that is gone is.                                    *)

ReceiveReply(name) ==
    /\ Running /\ toClient # <<>> /\ Head(toClient).ret = name
    /\ toClient' = Tail(toClient)

ClientFails ==
    /\ wireError' = "Client"
    /\ UNCHANGED <<clientVars, requestVars, idVars>>

Answer(r, status, error) ==
    /\ answer' = [answer EXCEPT ![r] = status]
    /\ message' = [message EXCEPT ![r] = error]
    /\ UNCHANGED <<reqKind, wireError>>

Acquired(r, kind) == Waiting(r) /\ reqKind[r] = kind

DoDeviceUncapturedErrorCallback ==
    /\ ReceiveReply("UncapturedError")
    /\ reported' = IF live THEN Append(reported, Head(toClient).error) ELSE reported
    /\ UNCHANGED <<live, mDisconnected, mErrorScopeStackSize, mDidRunLostCallback, requestVars,
                   idVars, toServer, serverVars, wireError, nativeVars, log>>

DoDeviceLostCallback ==
    /\ ReceiveReply("Lost")
    /\ mDidRunLostCallback' = (mDidRunLostCallback \/ live)
    /\ UNCHANGED <<live, mDisconnected, mErrorScopeStackSize, reported, requestVars, idVars,
                   toServer, serverVars, wireError, nativeVars, log>>

DoDevicePopErrorScopeCallback ==
    /\ ReceiveReply("Pop")
    /\ LET m == Head(toClient)
       IN  IF ~live THEN UNCHANGED <<requestVars, clientVars, idVars, wireError>>
           ELSE IF ~Acquired(m.request, "Pop") THEN ClientFails
           ELSE /\ Answer(m.request, m.status, m.error)
                /\ UNCHANGED <<clientVars, idVars>>
    /\ UNCHANGED <<toServer, serverVars, nativeVars, log>>

(* Mutant: the pipeline is given whatever the status.                      *)
GivePipelineAlways ==
    /\ ReceiveReply("Pipeline")
    /\ LET m == Head(toClient)
           r == m.request
       IN  IF ~live THEN UNCHANGED <<requestVars, clientVars, idVars, wireError>>
           ELSE IF ~Acquired(r, "Pipeline") THEN ClientFails
           ELSE /\ Answer(r, m.status, 0)
                /\ held' = [held EXCEPT ![r] = TRUE]
                /\ UNCHANGED <<clientVars, pipelineId, mFreeIds, mCurrentId>>
    /\ UNCHANGED <<toServer, serverVars, nativeVars, log>>

(* OnCreateComputePipelineAsyncCallback: a failure gives the id back.      *)
DoDeviceCreatePipelineAsyncCallback ==
    /\ ReceiveReply("Pipeline")
    /\ LET m == Head(toClient)
           r == m.request
       IN  IF ~live THEN UNCHANGED <<requestVars, clientVars, idVars, wireError>>
           ELSE IF ~Acquired(r, "Pipeline") THEN ClientFails
           ELSE /\ Answer(r, m.status, 0)
                /\ IF m.status = "Success"
                     THEN /\ held' = [held EXCEPT ![r] = TRUE]
                          /\ UNCHANGED <<pipelineId, mFreeIds, mCurrentId>>
                     ELSE FreeId(r) /\ UNCHANGED held
                /\ UNCHANGED clientVars
    /\ UNCHANGED <<toServer, serverVars, nativeVars, log>>

DoQueueWorkDoneCallback ==
    /\ ReceiveReply("Work")
    /\ LET m == Head(toClient)
       IN  IF ~Acquired(m.request, "Work") THEN ClientFails
           ELSE Answer(m.request, m.status, 0) /\ UNCHANGED <<clientVars, idVars>>
    /\ UNCHANGED <<toServer, serverVars, nativeVars, log>>

-----------------------------------------------------------------------------
(* The native device.                                                      *)

(* Mutant: the outermost scope that matches takes the error.               *)
CatcherOutermost(type) ==
    Min({Len(mScopes) + 1} \cup {k \in DOMAIN mScopes : mScopes[k].filter = type})

(* ErrorScopeStack::HandleError: the innermost scope that matches, 0 when  *)
(* there is none.                                                          *)
Catcher(type) == Max({0} \cup {k \in DOMAIN mScopes : mScopes[k].filter = type})

Capture(scope, error) ==
    IF scope.captured = 0 THEN [scope EXCEPT !.captured = error] ELSE scope

UncapturedError(error) == [ret |-> "UncapturedError", error |-> error]

(* HandleError of an error that does not lose the device, and the call of  *)
(* the uncaptured error callback it makes.                                 *)
HandleError(type, error) ==
    LET k == Catcher(type)
    IN  /\ mScopes' = IF k \in DOMAIN mScopes
                        THEN [mScopes EXCEPT ![k] = Capture(@, error)] ELSE mScopes
        /\ raised' = raised \cup {error}

Uncaptured(type, error) ==
    IF Catcher(type) \in DOMAIN mScopes THEN <<>> ELSE <<UncapturedError(error)>>

PipelineReply(r, status) == [ret |-> "Pipeline", request |-> r, status |-> status]
WorkReply(r, status) == [ret |-> "Work", request |-> r, status |-> status]

WorkReplies(status) == [k \in DOMAIN tasksInFlight |-> WorkReply(tasksInFlight[k], status)]

(* The pipelines that are not answered yet, each to get this status: those *)
(* of tasks and those on a worker, which post theirs in any order while    *)
(* AsyncTaskManager::WaitAllPendingTasks waits for them.                   *)
Unanswered(tasks, order, status) ==
    LET requests == [k \in DOMAIN tasks |-> tasks[k].request] \o order
    IN  [k \in DOMAIN requests |-> [request |-> requests[k], status |-> status]]

PipelineReplies(outcomes) ==
    [k \in DOMAIN outcomes |-> PipelineReply(outcomes[k].request, outcomes[k].status)]

(* Mutant: a failure leaves the id reserved.                               *)
SettleKeepsReserved(entries, outcomes) ==
    [i \in Ids |->
        IF \E o \in Range(outcomes) : pipelineId[o.request] = i /\ o.status = "Success"
          THEN [entries[i] EXCEPT !.state = "Allocated"] ELSE entries[i]]

(* HandleCreateRenderPipelineAsyncCallbackResult for each outcome: the id  *)
(* that was reserved is allocated, or freed.                               *)
Settle(entries, outcomes) ==
    [i \in Ids |->
        LET mine == {o \in Range(outcomes) : pipelineId[o.request] = i}
        IN  IF mine = {} THEN entries[i]
            ELSE IF \E o \in mine : o.status = "Success"
              THEN [entries[i] EXCEPT !.state = "Allocated"] ELSE NoEntry]

(* The pipelines settled and the queue's requests answered at once.        *)
NativeAnswers(entries, outcomes, before, work) ==
    /\ known' = Settle(entries, outcomes)
    /\ creating' = {} /\ callbackTasks' = <<>> /\ tasksInFlight' = <<>>
    /\ Reply(before \o PipelineReplies(outcomes) \o work)

(* Mutant: the application's lost callback is not called.                  *)
LoseDeviceSilently ==
    /\ Running /\ ~mDisconnected /\ Len(toClient) < MaxInFlight
    /\ nativeState = "Alive" /\ deviceKnown
    /\ nativeState' = "Disconnected"
    /\ \E order \in SetToSeqs(creating) :
          NativeAnswers(known, Unanswered(callbackTasks, order, "DeviceLost"),
                        WorkReplies("DeviceLost"), <<>>)
    /\ UNCHANGED <<clientVars, requestVars, idVars, toServer, deviceKnown, knownSize, wireError,
                   mScopes, raised, log>>

(* HandleError(DeviceLost) on the server.  The loss is offered to the      *)
(* scopes, none of which has a filter for it.                              *)
LoseDevice ==
    /\ Running /\ ~mDisconnected /\ Len(toClient) < MaxInFlight
    /\ nativeState = "Alive" /\ deviceKnown
    /\ nativeState' = "Disconnected"
    /\ \E order \in SetToSeqs(creating) :
          NativeAnswers(known, Unanswered(callbackTasks, order, "DeviceLost"),
                        <<[ret |-> "Lost"]>> \o WorkReplies("DeviceLost"), <<>>)
    /\ UNCHANGED <<clientVars, requestVars, idVars, toServer, deviceKnown, knownSize, wireError,
                   mScopes, raised, log>>

(* A worker has initialised a pipeline and posts its callback task.        *)
WorkerDone(r, status) ==
    /\ Running /\ ~mDisconnected /\ r \in creating
    /\ creating' = creating \ {r}
    /\ callbackTasks' = Append(callbackTasks, [request |-> r, status |-> status])
    /\ UNCHANGED <<clientVars, requestVars, idVars, toServer, toClient, serverVars, wireError,
                   nativeState, mScopes, tasksInFlight, raised, log>>

(* DeviceBase::APITick: FlushCallbackTaskQueue, after the queue's Tick up  *)
(* to what the GPU has finished.  The server's host ticks a device that is *)
(* alive; the Tick of a lost one is itself a validation error.             *)
Tick(finished) ==
    /\ Running /\ ~mDisconnected /\ Len(toClient) < MaxInFlight
    /\ nativeState = "Alive"
    /\ finished > 0 \/ callbackTasks # <<>>
    /\ LET done == SubSeq(tasksInFlight, 1, finished)
       IN  Reply([k \in DOMAIN done |-> WorkReply(done[k], "Success")]
                 \o PipelineReplies(callbackTasks))
    /\ tasksInFlight' = SubSeq(tasksInFlight, finished + 1, Len(tasksInFlight))
    /\ known' = Settle(known, callbackTasks)
    /\ callbackTasks' = <<>>
    /\ UNCHANGED <<clientVars, requestVars, idVars, toServer, deviceKnown, knownSize, wireError,
                   nativeState, mScopes, creating, raised, log>>

-----------------------------------------------------------------------------
(* The server's handlers.                                                  *)

Receive(name) ==
    /\ Running /\ toServer # <<>> /\ Head(toServer).cmd = name
    /\ Len(toClient) < MaxInFlight
    /\ toServer' = Tail(toServer)
    /\ UNCHANGED <<clientVars, requestVars, idVars, log>>

ServerFails ==
    /\ wireError' = "Server"
    /\ UNCHANGED <<toClient, serverVars, nativeVars>>

DoDevicePushErrorScope ==
    /\ Receive("Push")
    /\ IF ~deviceKnown THEN ServerFails
       ELSE /\ mScopes' = Append(mScopes, [filter |-> Head(toServer).filter, captured |-> 0])
            /\ UNCHANGED <<toClient, serverVars, wireError, nativeState, creating, callbackTasks,
                           tasksInFlight, raised>>

DoDevicePopErrorScope ==
    /\ Receive("Pop")
    /\ IF ~deviceKnown \/ mScopes = <<>> THEN ServerFails
       ELSE /\ LET scope == Last(mScopes)
               IN  Reply(<<[ret |-> "Pop", request |-> Head(toServer).request,
                            status |-> IF scope.captured = 0 THEN "NoError" ELSE scope.filter,
                            error |-> scope.captured]>>)
            /\ mScopes' = Front(mScopes)
            /\ UNCHANGED <<serverVars, wireError, nativeState, creating, callbackTasks,
                           tasksInFlight, raised>>

DoDeviceInjectError ==
    /\ Receive("InjectError")
    /\ LET m == Head(toServer)
       IN  IF ~deviceKnown THEN ServerFails
           ELSE /\ HandleError(m.type, m.at)
                /\ Reply(Uncaptured(m.type, m.at))
                /\ UNCHANGED <<serverVars, wireError, nativeState, creating, callbackTasks,
                               tasksInFlight>>

(* DoQueueOnSubmittedWorkDone: a device that is not alive makes it a       *)
(* validation error and answers at once.  Any work-done request waits for  *)
(* a serial of its own.                                                    *)
DoQueueOnSubmittedWorkDone ==
    /\ Receive("Work")
    /\ LET m == Head(toServer)
       IN  IF ~deviceKnown THEN ServerFails
           ELSE IF nativeState = "Alive"
             THEN /\ tasksInFlight' = Append(tasksInFlight, m.request)
                  /\ UNCHANGED <<toClient, serverVars, wireError, nativeState, mScopes, creating,
                                 callbackTasks, raised>>
             ELSE /\ HandleError("Validation", m.at)
                  /\ Reply(Append(Uncaptured("Validation", m.at),
                                  WorkReply(m.request, "DeviceLost")))
                  /\ UNCHANGED <<serverVars, wireError, nativeState, creating, callbackTasks,
                                 tasksInFlight>>

(* KnownObjects::Allocate with AllocationState::Reserved                   *)
Reserve(r) == [state |-> "Reserved", request |-> r]

(* DoDeviceCreateComputePipelineAsync: the id is reserved; the native      *)
(* device answers at once (validation fails, or the pipeline is cached) or *)
(* leaves it to a worker.                                                  *)
DoDeviceCreatePipelineAsync ==
    /\ Receive("CreatePipeline")
    /\ LET m        == Head(toServer)
           r        == m.request
           reserved == [known EXCEPT ![m.id] = Reserve(r)]
       IN  IF ~deviceKnown \/ m.id > knownSize \/ known[m.id].state # "Free" THEN ServerFails
           ELSE /\ knownSize' = IF m.id = knownSize THEN knownSize + 1 ELSE knownSize
                /\ \/ /\ nativeState = "Alive"
                      /\ known' = reserved /\ creating' = creating \cup {r}
                      /\ UNCHANGED toClient
                   \/ \E status \in {"Error"} \cup {s \in {"Success"} : nativeState = "Alive"} :
                      /\ known' = Settle(reserved, <<[request |-> r, status |-> status]>>)
                      /\ Reply(<<PipelineReply(r, status)>>)
                      /\ UNCHANGED creating
                /\ UNCHANGED <<deviceKnown, wireError, nativeState, mScopes, callbackTasks,
                               tasksInFlight, raised>>

(* DoDestroyObject of a pipeline.                                          *)
DoDestroyPipeline ==
    /\ Receive("DestroyPipeline")
    /\ LET i == Head(toServer).id
       IN  IF known[i].state # "Allocated" THEN ServerFails
           ELSE /\ known' = [known EXCEPT ![i] = NoEntry]
                /\ UNCHANGED <<toClient, deviceKnown, knownSize, wireError, nativeVars>>

(* DeviceBase::Destroy, whose lost callback is set unless it has run or    *)
(* was cleared.  The tasks of flushed were run before, those of rest wait. *)
NativeDestroy(entries, lost, flushed, rest) ==
    /\ nativeState' = "Destroyed"
    /\ \E order \in SetToSeqs(creating) :
          NativeAnswers(Settle(entries, flushed), Unanswered(rest, order, "DeviceDestroyed"),
                        lost \o PipelineReplies(flushed), WorkReplies("Success"))

DoDeviceDestroy ==
    /\ Receive("Destroy")
    /\ IF ~deviceKnown THEN ServerFails
       ELSE /\ IF nativeState = "Destroyed"
                 THEN UNCHANGED <<toClient, known, nativeState, creating, callbackTasks,
                                  tasksInFlight>>
                 ELSE NativeDestroy(known, IF nativeState = "Alive" THEN <<[ret |-> "Lost"]>>
                                                                    ELSE <<>>,
                                    <<>>, callbackTasks)
            /\ UNCHANGED <<deviceKnown, knownSize, wireError, mScopes, raised>>

(* DoDestroyObject of the device: first the children it tracks.  Then      *)
(* ClearDeviceCallbacks, whose setters flush the callback tasks of a       *)
(* device that is alive.  Then the last reference.                         *)
DoDestroyDevice ==
    /\ Receive("DestroyDevice")
    /\ LET childless == [i \in Ids |-> IF known[i].state = "Allocated" THEN NoEntry ELSE known[i]]
       IN  IF ~deviceKnown THEN ServerFails
           ELSE /\ deviceKnown' = FALSE
                /\ IF nativeState = "Destroyed"
                     THEN /\ known' = childless
                          /\ UNCHANGED <<toClient, nativeState, creating, callbackTasks,
                                         tasksInFlight>>
                   ELSE IF nativeState = "Alive"
                     THEN NativeDestroy(childless, <<>>, callbackTasks, <<>>)
                     ELSE NativeDestroy(childless, <<>>, <<>>, callbackTasks)
                /\ UNCHANGED <<knownSize, wireError, mScopes, raised>>

-----------------------------------------------------------------------------
ClientHandles ==
    \/ DoDeviceUncapturedErrorCallback \/ DoDeviceLostCallback \/ DoDevicePopErrorScopeCallback
    \/ DoDeviceCreatePipelineAsyncCallback \/ DoQueueWorkDoneCallback

ServerHandles ==
    \/ DoDevicePushErrorScope \/ DoDevicePopErrorScope \/ DoDeviceInjectError
    \/ DoQueueOnSubmittedWorkDone \/ DoDeviceCreatePipelineAsync \/ DoDestroyPipeline
    \/ DoDeviceDestroy \/ DoDestroyDevice

Next ==
    \/ \E filter \in Filters : PushErrorScope(filter) \/ InjectError(filter)
    \/ \E r \in Requests :
         \/ PopErrorScope(r) \/ OnSubmittedWorkDone(r) \/ CreatePipelineAsync(r)
         \/ ReleasePipeline(r)
         \/ \E status \in {"Success", "Error"} : WorkerDone(r, status)
    \/ Destroy \/ ReleaseDevice \/ Disconnect
    \/ ClientHandles \/ ServerHandles
    \/ LoseDevice
    \/ \E finished \in 0..Len(tasksInFlight) : Tick(finished)

Spec == Init /\ [][Next]_vars

(* Both sides handle what they receive, workers finish, the GPU finishes   *)
(* what the queue waits for and the server ticks its device.               *)
FairSpec ==
    /\ Spec
    /\ WF_vars(ClientHandles) /\ WF_vars(ServerHandles)
    /\ WF_vars(\E r \in Requests, status \in {"Success", "Error"} : WorkerDone(r, status))
    /\ WF_vars(Tick(Len(tasksInFlight)))

-----------------------------------------------------------------------------
(* What error scopes mean, read off the application's own calls.           *)

Count(op, positions) == Cardinality({k \in positions : log[k].op = op})

(* The scope pushed at p is open just before the call at e.                *)
OpenAt(p, e) ==
    /\ p < e /\ log[p].op = "Push"
    /\ \A q \in (p + 1)..(e - 1) : Count("Pop", (p + 1)..q) <= Count("Push", (p + 1)..q)

ErrorType(e) == IF log[e].op = "Error" THEN log[e].type ELSE "Validation"

(* An error goes to the innermost open scope with its filter.              *)
ScopeOf(e) ==
    Max({0} \cup {p \in DOMAIN log : OpenAt(p, e) /\ log[p].filter = ErrorType(e)})

(* A pop closes the innermost open scope.                                  *)
Opener(q) == Max({0} \cup {p \in DOMAIN log : OpenAt(p, q)})

FirstErrorOf(p) ==
    LET errors == {e \in raised : ScopeOf(e) = p} IN IF errors = {} THEN 0 ELSE Min(errors)

(* Properties.                                                             *)

(* Each pop the server answers is answered with the first error its own    *)
(* scope caught, however much the client had pushed, popped and failed     *)
(* before the server saw it.  A loss of the device is not such an error:   *)
(* ErrorScopeStack::HandleError skips every scope for DeviceLost, and only *)
(* a disconnected client answers a pop so, although DeviceBase::           *)
(* HandleError means the scopes to reject then (see the README).           *)
PopsMatchTheirScope ==
    \A q \in DOMAIN log : log[q].op = "Pop" =>
        LET r == log[q].request
        IN  /\ answer[r] \in {"NoError", "Validation", "OutOfMemory"} =>
                  /\ message[r] = FirstErrorOf(Opener(q))
                  /\ answer[r] = IF message[r] = 0 THEN "NoError" ELSE log[Opener(q)].filter
            /\ answer[r] = "DeviceLost" => mDisconnected

(* The errors no scope caught reach the application once each, in order:   *)
(* what it was told, with what is on the way, is all of them.              *)
UncapturedToldOnce ==
    live /\ ~mDisconnected =>
        LET onTheWay == SelectSeq(toClient, LAMBDA m : m.ret = "UncapturedError")
        IN  reported \o [k \in DOMAIN onTheWay |-> onTheWay[k].error] =
            SetToSortSeq({e \in raised : ScopeOf(e) = 0}, <)

(* Every error goes to one place: the innermost scope of its kind, or else *)
(* the uncaptured error callback, as if there were no wire in between.     *)
(* The loss of the device goes to neither.                                 *)
ErrorsReachTheirScope == PopsMatchTheirScope /\ UncapturedToldOnce

(* The id of a pipeline that is being created stays reserved for it until  *)
(* it is settled (the assertion of ServerDevice.cpp that "should be        *)
(* impossible to fail").                                                   *)
ReservedUntilSettled ==
    \A r \in creating \cup {task.request : task \in Range(callbackTasks)} :
        known[pipelineId[r]] = [state |-> "Reserved", request |-> r]

(* A pipeline the application holds is the one its id names on the server, *)
(* although ids are used again as soon as they are released.               *)
HeldIsKnown ==
    \A r \in Requests : live /\ ~mDisconnected /\ held[r] =>
        known[pipelineId[r]] = [state |-> "Allocated", request |-> r]

(* Both sides mean the same pipeline by an id.                             *)
IdsAgree == WireDeviceTypeOK /\ ReservedUntilSettled /\ HeldIsKnown

(* An application that follows the API never makes a handler fail, which   *)
(* would drop the connection.                                              *)
NoHandlerFails == wireError = "None"

(* "make sure that all child objects are destroyed before their device":   *)
(* nothing of the device is left on the server once it is released there.  *)
ChildrenGoFirst == ~deviceKnown => \A i \in Ids : known[i].state # "Allocated"

(* Every pop, pipeline and work-done request is answered.                  *)
EveryRequestIsAnswered == \A r \in Requests : Waiting(r) ~> ~Waiting(r)

(* An application that keeps its device is told when it is lost, by the    *)
(* server or by the disconnection.                                         *)
LossIsTold == nativeState # "Alive" ~> mDidRunLostCallback \/ ~live

-----------------------------------------------------------------------------
(* The invariants behind IdsAgree and NoHandlerFails.                      *)

Commands ==
    [cmd : {"Push"}, filter : Filters] \cup [cmd : {"Pop"}, request : Requests]
    \cup [cmd : {"InjectError"}, type : Filters, at : 1..MaxCalls]
    \cup [cmd : {"Work"}, request : Requests, at : 1..MaxCalls]
    \cup [cmd : {"CreatePipeline"}, request : Requests, id : Ids]
    \cup [cmd : {"DestroyPipeline"}, id : Ids] \cup [cmd : {"Destroy", "DestroyDevice"}]
ReturnCommands ==
    [ret : {"UncapturedError"}, error : 1..MaxCalls] \cup [ret : {"Lost"}]
    \cup [ret : {"Pop"}, request : Requests, status : {"NoError"} \cup Filters, error : 0..MaxCalls]
    \cup [ret : {"Pipeline"}, request : Requests,
          status : {"Success", "Error", "DeviceLost", "DeviceDestroyed"}]
    \cup [ret : {"Work"}, request : Requests, status : {"Success", "DeviceLost"}]
Events ==
    [op : {"Push"}, filter : Filters] \cup [op : {"Pop", "Work"}, request : Requests]
    \cup [op : {"Error"}, type : Filters]

ChannelTypeOK ==
    /\ toServer \in Seq(Commands) /\ toClient \in Seq(ReturnCommands) /\ log \in Seq(Events)
    /\ Len(log) <= MaxCalls /\ mErrorScopeStackSize <= Len(log)

(* The release of the device is the last command.                          *)
DeviceInv ==
    /\ ~deviceKnown => toServer = <<>> /\ (~live \/ mDisconnected)
    /\ mDisconnected => toServer = <<>> /\ toClient = <<>>
    /\ \A j \in DOMAIN toServer : toServer[j].cmd = "DestroyDevice" => ~live /\ j = Len(toServer)

(* The client's count is the server's once it has handled what is on its   *)
(* way, d[j] scopes after the j-th command, and never below zero.          *)
ScopesAfter(c, n) == IF c.cmd = "Push" THEN n + 1 ELSE IF c.cmd = "Pop" THEN n - 1 ELSE n
Counts(d) ==
    /\ d[0] = Len(mScopes) /\ d[Len(toServer)] = mErrorScopeStackSize
    /\ \A j \in DOMAIN toServer : d[j] = ScopesAfter(toServer[j], d[j - 1])
ScopeInv == ~mDisconnected => \E d \in [0..Len(toServer) -> 0..MaxCalls] : Counts(d)

(* Where a request can be: on its way to the server, on a worker, with the *)
(* callback tasks, in the queue, on its way back.                          *)
Asking  == {"Pop", "Work", "CreatePipeline"}
Telling == {"Pop", "Work", "Pipeline"}
KindOf(cmd) == IF cmd = "CreatePipeline" THEN "Pipeline" ELSE cmd
IsSent(r)    == \E j \in DOMAIN toServer : toServer[j].cmd \in Asking /\ toServer[j].request = r
InTask(r)    == \E j \in DOMAIN callbackTasks : callbackTasks[j].request = r
InQueue(r)   == \E j \in DOMAIN tasksInFlight : tasksInFlight[j] = r
IsReplied(r) == \E j \in DOMAIN toClient : toClient[j].ret \in Telling /\ toClient[j].request = r
Somewhere(r) == IsSent(r) \/ r \in creating \/ InTask(r) \/ InQueue(r) \/ IsReplied(r)

KindInv ==
    /\ \A j \in DOMAIN toServer : toServer[j].cmd \in Asking =>
          reqKind[toServer[j].request] = KindOf(toServer[j].cmd)
    /\ \A r \in Requests : r \in creating \/ InTask(r) => reqKind[r] = "Pipeline"
    /\ \A r \in Requests : InQueue(r) => reqKind[r] = "Work"
    /\ \A j \in DOMAIN toClient : toClient[j].ret \in Telling =>
          reqKind[toClient[j].request] = toClient[j].ret

(* It is in one place at a time.                                           *)
OnceInv ==
    /\ \A j, k \in DOMAIN toServer : j # k /\ toServer[j].cmd \in Asking /\ toServer[k].cmd \in Asking
          => toServer[j].request # toServer[k].request
    /\ \A j, k \in DOMAIN callbackTasks : j # k => callbackTasks[j].request # callbackTasks[k].request
    /\ \A j, k \in DOMAIN tasksInFlight : j # k => tasksInFlight[j] # tasksInFlight[k]
    /\ \A j, k \in DOMAIN toClient : j # k /\ toClient[j].ret \in Telling /\ toClient[k].ret \in Telling
          => toClient[j].request # toClient[k].request
    /\ \A r \in Requests :
          /\ IsSent(r) => r \notin creating /\ ~InTask(r) /\ ~InQueue(r) /\ ~IsReplied(r)
          /\ r \in creating => ~InTask(r) /\ ~IsReplied(r)
          /\ InTask(r) \/ InQueue(r) => ~IsReplied(r)

(* A request that is somewhere is waited for.                              *)
WaitInv ==
    \A r \in Requests :
        /\ answer[r] = "None" => ~Somewhere(r)
        /\ Somewhere(r) /\ ~mDisconnected /\ (live \/ reqKind[r] = "Work") => Waiting(r)

(* ObjectAllocator: a pipeline that is asked for or held has an id of its  *)
(* own, which is not free.                                                 *)
OwnInv ==
    /\ \A r \in Requests :
          /\ answer[r] = "None" => mCurrentId <= r /\ ~held[r] /\ pipelineId[r] = 0
          /\ pipelineId[r] < mCurrentId
          /\ pipelineId[r] # 0 => reqKind[r] = "Pipeline"
          /\ held[r] => pipelineId[r] # 0 /\ ~Somewhere(r)
          /\ Somewhere(r) /\ reqKind[r] = "Pipeline" => pipelineId[r] # 0
    /\ \A r, q \in Requests : r # q /\ pipelineId[r] = pipelineId[q] => pipelineId[r] = 0
    /\ \A j \in DOMAIN mFreeIds :
          /\ mFreeIds[j] < mCurrentId
          /\ \A r \in Requests : pipelineId[r] # mFreeIds[j]
          /\ \A k \in DOMAIN mFreeIds : j # k => mFreeIds[j] # mFreeIds[k]

(* Ahead of the j-th command, or on its way, is one of this name for i.    *)
Before(j, name, i) == \E k \in 1..(j - 1) : toServer[k].cmd = name /\ toServer[k].id = i
OnWay(name, i) == \E k \in DOMAIN toServer : toServer[k].cmd = name /\ toServer[k].id = i

(* The commands that name a pipeline find its entry as they expect it.     *)
PipelineCommandInv ==
    \A j \in DOMAIN toServer :
        LET c == toServer[j] IN
        /\ c.cmd = "CreatePipeline" =>
              /\ c.id = pipelineId[c.request]
              /\ known[c.id].state = "Free" \/ Before(j, "DestroyPipeline", c.id)
        /\ c.cmd = "DestroyPipeline" =>
              /\ known[c.id].state = "Allocated"
              /\ ~Before(j, "DestroyPipeline", c.id) /\ ~Before(j, "CreatePipeline", c.id)
              /\ \A r \in Requests : pipelineId[r] = c.id => IsSent(r)

(* What the answers on their way say is so.                                *)
PipelineReplyInv ==
    live => \A j \in DOMAIN toClient : toClient[j].ret = "Pipeline" =>
        LET r == toClient[j].request
        IN  IF toClient[j].status = "Success"
              THEN known[pipelineId[r]] = [state |-> "Allocated", request |-> r]
              ELSE known[pipelineId[r]].state = "Free"

(* A free id is free on the server, or will be.                            *)
FreeIdInv ==
    live /\ ~mDisconnected =>
        /\ \A j \in DOMAIN mFreeIds :
              known[mFreeIds[j]].state = "Free" \/ OnWay("DestroyPipeline", mFreeIds[j])
        /\ \A i \in Ids : i >= mCurrentId => known[i].state = "Free"

(* Ids are created in their order.                                         *)
NumberInv ==
    /\ knownSize <= mCurrentId
    /\ \A j \in DOMAIN toServer : toServer[j].cmd = "CreatePipeline" =>
          \A i \in knownSize..(toServer[j].id - 1) : Before(j, "CreatePipeline", i)
    /\ live /\ ~mDisconnected =>
          \A i \in knownSize..(mCurrentId - 1) : OnWay("CreatePipeline", i)

(* Both sides count the same scopes when no command is on its way.         *)
ScopeCountsAgree == ~mDisconnected /\ toServer = <<>> => mErrorScopeStackSize = Len(mScopes)

(* The inductive invariant for both.                                       *)
WireDeviceInv ==
    /\ NoHandlerFails /\ IdsAgree /\ ChannelTypeOK /\ DeviceInv /\ ScopeInv
    /\ KindInv /\ OnceInv /\ WaitInv /\ OwnInv
    /\ PipelineCommandInv /\ PipelineReplyInv /\ FreeIdInv /\ NumberInv
=============================================================================
