----------------------------- MODULE WireBuffer -----------------------------
(***************************************************************************)
(* Buffer mapping over the wire: a client and a server that exchange       *)
(* commands and return commands in order, the client's object ids with     *)
(* their generations, the requests each client buffer waits for, and the   *)
(* server's native buffers, which behave as BufferMapProtocol promises.    *)
(*                                                                         *)
(* The answers of the server cross the Unmap, Destroy, release and newer   *)
(* requests of the client.  A callback is the last thing the client code   *)
(* does, so what an application calls from it comes after that step.       *)
(***************************************************************************)
EXTENDS Integers, Sequences

CONSTANTS
    MaxBuffers,     \* bound: buffers created in a behaviour
    MaxRequests,    \* bound: MapAsync calls in a behaviour
    MaxCommands,    \* bound: Unmap and Destroy calls in a behaviour
    MaxGeneration,  \* the last generation of an object id (2^32 - 1 in the code)
    Kinds           \* the usages buffers are created with

(* Usage MapRead or MapWrite; with mappedAtCreation MapRead, MapWrite or   *)
(* no map usage.                                                           *)
AllKinds == {"Read", "Write", "ReadAtCreation", "WriteAtCreation", "AtCreation"}

ASSUME WireBounds ==
    /\ MaxBuffers \in Nat /\ MaxRequests \in Nat /\ MaxCommands \in Nat
    /\ MaxGeneration \in Nat /\ Kinds \subseteq AllKinds

Buffers  == 1..MaxBuffers
Requests == 1..MaxRequests
Ids      == 1..MaxBuffers

VARIABLES
    \* the client: one entry per buffer object it has created
    created, kind, id, generation, live,
    mMapState, mReadHandle, mWriteHandle,
    mSerial,                          \* RequestTracker's counter
    reqBuffer, reqSerial, clientStatus, answer,   \* the requests
    objectAt, generationAt,           \* ObjectAllocator::mObjects
    mFreeIds, mCurrentId,
    mDisconnected,
    \* the wire
    toServer, toClient,
    \* the server
    known, knownSize,                 \* KnownObjects<WGPUBuffer>
    phase, owner, nativeReply,        \* the native buffers, see BufferMapProtocol
    deviceLost,
    wireError,                        \* a handler has failed: the peer is dropped
    \* history
    unflushed,                        \* written by the client, not yet in the buffer
    commands                          \* Unmap and Destroy calls so far

clientVars  == <<created, kind, id, generation, live, mMapState, mReadHandle, mWriteHandle,
                 mSerial>>
requestVars == <<reqBuffer, reqSerial, clientStatus, answer>>
idVars      == <<objectAt, generationAt, mFreeIds, mCurrentId>>
wireVars    == <<toServer, toClient>>
serverVars  == <<known, knownSize>>
nativeVars  == <<phase, owner, nativeReply, deviceLost>>
vars == <<clientVars, requestVars, idVars, mDisconnected, wireVars, serverVars, nativeVars,
          wireError, unflushed, commands>>

MapsRead(k)  == k \in {"Read", "ReadAtCreation"}
MapsWrite(k) == k \in {"Write", "WriteAtCreation"}
AtCreation(k) == k \in {"ReadAtCreation", "WriteAtCreation", "AtCreation"}

(* The write handle is for mappedAtCreation only.                          *)
ForCreation(k) == AtCreation(k) /\ ~MapsWrite(k)

Statuses == {"Success", "Unmapped", "Destroyed", "DeviceLost", "Error"}

Entry == [state : {"Free", "Allocated"}, generation : 0..MaxGeneration,
          handle : 0..MaxBuffers, read : BOOLEAN, write : BOOLEAN,
          mapWriteState : {"Unmapped", "Mapped", "MapError"}]
NoEntry == [state |-> "Free", generation |-> 0, handle |-> 0, read |-> FALSE, write |-> FALSE,
            mapWriteState |-> "Unmapped"]

(* Every variable has its type.                                            *)
WireTypeOK ==
    /\ created \in 0..MaxBuffers
    /\ kind \in [Buffers -> AllKinds]
    /\ id \in [Buffers -> 0..MaxBuffers]
    /\ generation \in [Buffers -> 0..MaxGeneration]
    /\ live \in [Buffers -> BOOLEAN]
    /\ mMapState \in [Buffers -> {"Unmapped", "MappedForRead", "MappedForWrite",
                                  "MappedAtCreation"}]
    /\ mReadHandle \in [Buffers -> BOOLEAN] /\ mWriteHandle \in [Buffers -> BOOLEAN]
    /\ mSerial \in [Buffers -> 0..MaxRequests]
    /\ reqBuffer \in [Requests -> 0..MaxBuffers]
    /\ reqSerial \in [Requests -> 0..MaxRequests]
    /\ clientStatus \in [Requests -> {"Success", "Unmapped", "Destroyed"}]
    /\ answer \in [Requests -> {"None", "Waiting"} \cup Statuses]
    /\ objectAt \in [Ids -> 0..MaxBuffers] /\ generationAt \in [Ids -> 0..MaxGeneration]
    /\ mFreeIds \in Seq(Ids) /\ mCurrentId \in 1..(MaxBuffers + 1)
    /\ mDisconnected \in BOOLEAN
    /\ known \in [Ids -> Entry] /\ knownSize \in 1..(MaxBuffers + 1)
    /\ phase \in [Buffers -> {"none", "error", "unmapped", "pending", "mapped", "lost", "gone"}]
    /\ owner \in [Buffers -> 0..MaxRequests]
    /\ nativeReply \in [Requests -> {"None", "Waiting"} \cup Statuses]
    /\ deviceLost \in BOOLEAN
    /\ wireError \in {"None", "Server", "Client"}
    /\ unflushed \in [Buffers -> BOOLEAN]
    /\ commands \in 0..MaxCommands

(* A connected client and server with a device.  RequestTracker::mSerial   *)
(* is not initialised; any start will do, and equal ones are the worst.    *)
Init ==
    /\ created = 0
    /\ kind = [b \in Buffers |-> "Read"]
    /\ id = [b \in Buffers |-> 0] /\ generation = [b \in Buffers |-> 0]
    /\ live = [b \in Buffers |-> FALSE]
    /\ mMapState = [b \in Buffers |-> "Unmapped"]
    /\ mReadHandle = [b \in Buffers |-> FALSE] /\ mWriteHandle = [b \in Buffers |-> FALSE]
    /\ mSerial = [b \in Buffers |-> 0]
    /\ reqBuffer = [r \in Requests |-> 0] /\ reqSerial = [r \in Requests |-> 0]
    /\ clientStatus = [r \in Requests |-> "Success"]
    /\ answer = [r \in Requests |-> "None"]
    /\ objectAt = [i \in Ids |-> 0] /\ generationAt = [i \in Ids |-> 0]
    /\ mFreeIds = <<>> /\ mCurrentId = 1
    /\ mDisconnected = FALSE
    /\ toServer = <<>> /\ toClient = <<>>
    /\ known = [i \in Ids |-> NoEntry] /\ knownSize = 1
    /\ phase = [b \in Buffers |-> "none"] /\ owner = [b \in Buffers |-> 0]
    /\ nativeReply = [r \in Requests |-> "None"]
    /\ deviceLost = FALSE
    /\ wireError = "None"
    /\ unflushed = [b \in Buffers |-> FALSE]
    /\ commands = 0

Running == wireError = "None"
Waiting(r) == answer[r] = "Waiting"
WaitingOn(b) == {r \in Requests : Waiting(r) /\ reqBuffer[r] = b}

(* Client::SerializeCommand: nothing leaves a disconnected client.         *)
Send(cmds) == toServer' = IF mDisconnected THEN toServer ELSE toServer \o cmds

(* A command names an id; which of the client's objects is meant is        *)
(* history, and so is the request in a return command.                     *)
Command(name, b) == [cmd |-> name, id |-> id[b], buffer |-> b]

-----------------------------------------------------------------------------
(* The client's API.                                                       *)

(* ObjectAllocator::New: a recycled id gets the next generation.           *)
NewGeneration(i) == IF i < mCurrentId THEN generationAt[i] + 1 ELSE 0

CreateBuffer(k) ==
    /\ Running /\ created < MaxBuffers
    /\ LET b     == created + 1
           fresh == mFreeIds = <<>>
           i     == IF fresh THEN mCurrentId ELSE mFreeIds[Len(mFreeIds)]
           gen   == NewGeneration(i)
       IN  /\ created' = b
           /\ kind' = [kind EXCEPT ![b] = k]
           /\ id' = [id EXCEPT ![b] = i]
           /\ generation' = [generation EXCEPT ![b] = gen]
           /\ live' = [live EXCEPT ![b] = TRUE]
           /\ mFreeIds' = IF fresh THEN mFreeIds ELSE SubSeq(mFreeIds, 1, Len(mFreeIds) - 1)
           /\ mCurrentId' = IF fresh THEN mCurrentId + 1 ELSE mCurrentId
           /\ objectAt' = [objectAt EXCEPT ![i] = b]
           /\ generationAt' = [generationAt EXCEPT ![i] = gen]
           /\ mReadHandle' = [mReadHandle EXCEPT ![b] = MapsRead(k)]
           /\ mWriteHandle' = [mWriteHandle EXCEPT ![b] = MapsWrite(k) \/ AtCreation(k)]
           /\ mMapState' = [mMapState EXCEPT ![b] =
                   IF AtCreation(k) THEN "MappedAtCreation" ELSE "Unmapped"]
           /\ unflushed' = [unflushed EXCEPT ![b] = AtCreation(k)]
           /\ Send(<<[cmd |-> "Create", id |-> i, generation |-> gen, buffer |-> b]>>)
    /\ UNCHANGED <<mSerial, requestVars, mDisconnected, toClient, serverVars, nativeVars,
                   wireError, commands>>

(* Mutant: the counter is not raised.                                      *)
NextSerialSame(b) == 1

(* RequestTracker::Add                                                     *)
NextSerial(b) == mSerial[b] + 1

MapAsync(r, b) ==
    /\ Running /\ live[b]
    /\ answer[r] = "None" /\ \A q \in 1..(r - 1) : answer[q] # "None"
    /\ reqBuffer' = [reqBuffer EXCEPT ![r] = b]
    /\ IF mDisconnected
         THEN /\ answer' = [answer EXCEPT ![r] = "DeviceLost"]
              /\ UNCHANGED <<mSerial, reqSerial, toServer>>
         ELSE /\ answer' = [answer EXCEPT ![r] = "Waiting"]
              /\ mSerial' = [mSerial EXCEPT ![b] = NextSerial(b)]
              /\ reqSerial' = [reqSerial EXCEPT ![r] = NextSerial(b)]
              /\ Send(<<[cmd |-> "MapAsync", id |-> id[b], buffer |-> b,
                         serial |-> NextSerial(b), request |-> r]>>)
    /\ UNCHANGED <<created, kind, id, generation, live, mMapState, mReadHandle, mWriteHandle,
                   clientStatus, idVars, mDisconnected, toClient, serverVars, nativeVars,
                   wireError, unflushed, commands>>

(* The requests in flight learn what has happened to the buffer since.     *)
Tag(b, status) ==
    clientStatus' = [r \in Requests |->
        IF r \in WaitingOn(b) /\ clientStatus[r] = "Success" THEN status ELSE clientStatus[r]]

CountCommand == commands < MaxCommands /\ commands' = commands + 1

(* Mutant: the requests in flight are not told.                            *)
UnmapUntagged(b) ==
    LET flush == mMapState[b] \in {"MappedForWrite", "MappedAtCreation"} /\ mWriteHandle[b]
    IN  /\ Running /\ live[b] /\ CountCommand
        /\ Send(IF flush THEN <<Command("UpdateMappedData", b), Command("Unmap", b)>>
                         ELSE <<Command("Unmap", b)>>)
        /\ mWriteHandle' = [mWriteHandle EXCEPT ![b] =
                @ /\ ~(flush /\ mMapState[b] = "MappedAtCreation" /\ ~MapsWrite(kind[b]))]
        /\ mMapState' = [mMapState EXCEPT ![b] = "Unmapped"]
        /\ UNCHANGED <<created, kind, id, generation, live, mReadHandle, mSerial, requestVars,
                       idVars, mDisconnected, toClient, serverVars, nativeVars, wireError,
                       unflushed>>

(* Mutant: the data is sent after the Unmap.                               *)
UnmapThenFlush(b) ==
    LET flush == mMapState[b] \in {"MappedForWrite", "MappedAtCreation"} /\ mWriteHandle[b]
    IN  /\ Running /\ live[b] /\ CountCommand
        /\ Send(IF flush THEN <<Command("Unmap", b), Command("UpdateMappedData", b)>>
                         ELSE <<Command("Unmap", b)>>)
        /\ mWriteHandle' = [mWriteHandle EXCEPT ![b] =
                @ /\ ~(flush /\ mMapState[b] = "MappedAtCreation" /\ ~MapsWrite(kind[b]))]
        /\ mMapState' = [mMapState EXCEPT ![b] = "Unmapped"]
        /\ Tag(b, "Unmapped")
        /\ UNCHANGED <<created, kind, id, generation, live, mReadHandle, mSerial, reqBuffer,
                       reqSerial, answer, idVars, mDisconnected, toClient, serverVars,
                       nativeVars, wireError, unflushed>>

(* What was written is sent before the Unmap.  A write handle that is only *)
(* there for mappedAtCreation is destroyed.                                *)
Unmap(b) ==
    LET flush == mMapState[b] \in {"MappedForWrite", "MappedAtCreation"} /\ mWriteHandle[b]
    IN  /\ Running /\ live[b] /\ CountCommand
        /\ Send(IF flush THEN <<Command("UpdateMappedData", b), Command("Unmap", b)>>
                         ELSE <<Command("Unmap", b)>>)
        /\ mWriteHandle' = [mWriteHandle EXCEPT ![b] =
                @ /\ ~(flush /\ mMapState[b] = "MappedAtCreation" /\ ~MapsWrite(kind[b]))]
        /\ mMapState' = [mMapState EXCEPT ![b] = "Unmapped"]
        /\ Tag(b, "Unmapped")
        /\ UNCHANGED <<created, kind, id, generation, live, mReadHandle, mSerial, reqBuffer,
                       reqSerial, answer, idVars, mDisconnected, toClient, serverVars,
                       nativeVars, wireError, unflushed>>

(* FreeMappedData drops both handles; mMapState stays as it is.            *)
Destroy(b) ==
    /\ Running /\ live[b] /\ CountCommand
    /\ mReadHandle' = [mReadHandle EXCEPT ![b] = FALSE]
    /\ mWriteHandle' = [mWriteHandle EXCEPT ![b] = FALSE]
    /\ Tag(b, "Destroyed")
    /\ Send(<<Command("Destroy", b)>>)
    /\ UNCHANGED <<created, kind, id, generation, live, mMapState, mSerial, reqBuffer, reqSerial,
                   answer, idVars, mDisconnected, toClient, serverVars, nativeVars, wireError,
                   unflushed>>

(* The last reference is released: DestroyObject is sent, the id is        *)
(* recycled unless its generations are used up, and ~Buffer answers the    *)
(* requests in flight.                                                     *)
Release(b) ==
    /\ Running /\ live[b]
    /\ live' = [live EXCEPT ![b] = FALSE]
    /\ Send(<<Command("DestroyObject", b)>>)
    /\ mFreeIds' = IF generationAt[id[b]] # MaxGeneration THEN Append(mFreeIds, id[b])
                                                          ELSE mFreeIds
    /\ objectAt' = [objectAt EXCEPT ![id[b]] = 0]
    /\ answer' = [r \in Requests |-> IF r \in WaitingOn(b) THEN "Destroyed" ELSE answer[r]]
    /\ clientStatus' = [r \in Requests |-> IF r \in WaitingOn(b) THEN "Success"
                                                                 ELSE clientStatus[r]]
    /\ mReadHandle' = [mReadHandle EXCEPT ![b] = FALSE]
    /\ mWriteHandle' = [mWriteHandle EXCEPT ![b] = FALSE]
    /\ UNCHANGED <<created, kind, id, generation, mMapState, mSerial, reqBuffer, reqSerial,
                   generationAt, mCurrentId, mDisconnected, toClient, serverVars,
                   nativeVars, wireError, unflushed, commands>>

(* Mutant: the requests in flight are left to the server.                  *)
DisconnectSilently ==
    /\ Running /\ ~mDisconnected
    /\ mDisconnected' = TRUE
    /\ toServer' = <<>> /\ toClient' = <<>>
    /\ UNCHANGED <<clientVars, requestVars, idVars, serverVars, nativeVars, wireError,
                   unflushed, commands>>

(* Client::Disconnect: the transport is gone with what was on its way, and *)
(* every request is answered.                                              *)
Disconnect ==
    /\ Running /\ ~mDisconnected
    /\ mDisconnected' = TRUE
    /\ toServer' = <<>> /\ toClient' = <<>>
    /\ answer' = [r \in Requests |-> IF Waiting(r) THEN "DeviceLost" ELSE answer[r]]
    /\ clientStatus' = [r \in Requests |-> "Success"]
    /\ UNCHANGED <<clientVars, reqBuffer, reqSerial, idVars, serverVars, nativeVars, wireError,
                   unflushed, commands>>

-----------------------------------------------------------------------------
(* The client's handler of the return command MapAsyncCallback.            *)

ClientFails ==
    /\ wireError' = "Client"
    /\ UNCHANGED <<clientVars, requestVars, idVars, mDisconnected, toServer, serverVars,
                   nativeVars, unflushed, commands>>

(* Mutant: the object with that id, whatever its generation.               *)
TargetOfId(m) == objectAt[m.id]

(* The buffer the return command is for, 0 when it is another by now.      *)
Target(m) == IF generationAt[m.id] = m.generation THEN objectAt[m.id] ELSE 0

FinalStatus(r, status) == IF status = "Success" THEN clientStatus[r] ELSE status

(* OnMapAsyncCallback with the request r of the buffer b: a success needs  *)
(* the handle the buffer was created with.                                 *)
AnswerRequest(r, b, reply) ==
    LET status == FinalStatus(r, reply)
        handle == IF MapsRead(kind[b]) THEN mReadHandle[b] ELSE mWriteHandle[b]
        mapped == status = "Success" /\ handle
    IN  /\ answer' = [answer EXCEPT ![r] =
                IF status = "Success" /\ ~handle THEN "DeviceLost" ELSE status]
        /\ wireError' = IF status = "Success" /\ ~handle THEN "Client" ELSE wireError
        /\ mMapState' = [mMapState EXCEPT ![b] =
                IF ~mapped THEN @
                ELSE IF MapsRead(kind[b]) THEN "MappedForRead" ELSE "MappedForWrite"]
        /\ clientStatus' = [clientStatus EXCEPT ![r] = "Success"]
        /\ unflushed' = [unflushed EXCEPT ![b] = @ \/ (mapped /\ ~MapsRead(kind[b]))]
        /\ UNCHANGED <<created, kind, id, generation, live, mReadHandle, mWriteHandle, mSerial,
                       reqBuffer, reqSerial, idVars, mDisconnected, toServer, serverVars,
                       nativeVars, commands>>

OnMapAsyncCallback ==
    /\ Running /\ ~mDisconnected /\ toClient # <<>>
    /\ toClient' = Tail(toClient)
    /\ LET m == Head(toClient)
           b == Target(m)
           requests == {r \in WaitingOn(b) : reqSerial[r] = m.serial}
       IN  IF b = 0
             THEN UNCHANGED <<clientVars, requestVars, idVars, mDisconnected, toServer,
                              serverVars, nativeVars, wireError, unflushed, commands>>
           ELSE IF requests = {} THEN ClientFails
           ELSE \E r \in requests : AnswerRequest(r, b, m.status)

-----------------------------------------------------------------------------
(* The server.  OnBufferMapAsyncCallback answers the request r of the      *)
(* native buffer b, whose userdata has the id, generation and serial.      *)

StillKnown(r, b) ==
    /\ known[id[b]].state = "Allocated"
    /\ known[id[b]].generation = generation[b]

Return(r, b, status) ==
    IF StillKnown(r, b)
      THEN <<[id |-> id[b], generation |-> generation[b], serial |-> reqSerial[r],
              status |-> status, request |-> r]>>
      ELSE <<>>

(* The effect of a command that calls the native buffer, and answers the   *)
(* requests of replies, a sequence of return commands.                     *)
ServerStep(newKnown, replies) ==
    /\ known' = newKnown
    /\ toClient' = IF mDisconnected THEN toClient ELSE toClient \o replies
    /\ UNCHANGED <<clientVars, requestVars, idVars, mDisconnected, knownSize, deviceLost,
                   commands>>

ServerFails ==
    /\ wireError' = "Server"
    /\ UNCHANGED <<clientVars, requestVars, idVars, mDisconnected, toClient, serverVars,
                   nativeVars, unflushed, commands>>

Receive(name) ==
    /\ Running /\ toServer # <<>> /\ Head(toServer).cmd = name
    /\ toServer' = Tail(toServer)

(* KnownObjects::Get                                                       *)
Allocated(i) == i < knownSize /\ known[i].state = "Allocated"

(* DoDeviceCreateBuffer.  The native buffer may be an error buffer.  When  *)
(* it was to be mapped at creation, it has a mapping of its own to write   *)
(* to, or none; then the handler returns before the read handle is made.   *)
DoDeviceCreateBuffer ==
    /\ Receive("Create")
    /\ LET m == Head(toServer)
           b == m.buffer
       IN  IF m.id > knownSize \/ Allocated(m.id) THEN ServerFails
           ELSE \E ok, mapping \in BOOLEAN :
             /\ ok => mapping /\ ~deviceLost
             /\ knownSize' = IF m.id = knownSize THEN knownSize + 1 ELSE knownSize
             /\ known' = [known EXCEPT ![m.id] =
                    [state |-> "Allocated", generation |-> m.generation, handle |-> b,
                     read |-> MapsRead(kind[b]) /\ (mapping \/ ~AtCreation(kind[b])),
                     write |-> MapsWrite(kind[b]) \/ AtCreation(kind[b]),
                     mapWriteState |-> IF ~AtCreation(kind[b]) THEN "Unmapped"
                                       ELSE IF mapping THEN "Mapped" ELSE "MapError"]]
             /\ phase' = [phase EXCEPT ![b] =
                    IF ~ok THEN "error" ELSE IF AtCreation(kind[b]) THEN "mapped" ELSE "unmapped"]
             /\ UNCHANGED <<clientVars, requestVars, idVars, mDisconnected, toClient, owner,
                            nativeReply, deviceLost, wireError, unflushed, commands>>

(* DoBufferMapAsync: the native buffer takes the request, or answers it at *)
(* once when its validation fails.                                         *)
DoBufferMapAsync ==
    /\ Receive("MapAsync")
    /\ LET m == Head(toServer)
           b == known[m.id].handle
       IN  IF ~Allocated(m.id) THEN ServerFails
           ELSE \/ /\ phase[b] = "unmapped" /\ ~deviceLost /\ kind[b] # "AtCreation"
                   /\ phase' = [phase EXCEPT ![b] = "pending"]
                   /\ owner' = [owner EXCEPT ![b] = m.request]
                   /\ nativeReply' = [nativeReply EXCEPT ![m.request] = "Waiting"]
                   /\ ServerStep(known, <<>>) /\ UNCHANGED <<wireError, unflushed>>
                \/ /\ ServerStep(known, Return(m.request, b,
                            IF deviceLost THEN "DeviceLost" ELSE "Error"))
                   /\ UNCHANGED <<phase, owner, nativeReply, wireError, unflushed>>

(* DoBufferUpdateMappedData: through the write handle into the mapping.    *)
DoBufferUpdateMappedData ==
    /\ Receive("UpdateMappedData")
    /\ LET i == Head(toServer).id
           b == known[i].handle
       IN  IF \/ ~Allocated(i)
              \/ known[i].mapWriteState = "Unmapped"
              \/ known[i].mapWriteState = "Mapped" /\ ~known[i].write
             THEN ServerFails
             ELSE /\ unflushed' = [unflushed EXCEPT ![b] = FALSE]
                  /\ ServerStep(known, <<>>)
                  /\ UNCHANGED <<phase, owner, nativeReply, wireError>>

(* The native buffer b leaves pending with the answer to its owner.        *)
NativeAnswers(b, status, newPhase) ==
    /\ phase' = [phase EXCEPT ![b] = newPhase]
    /\ nativeReply' = IF phase[b] = "pending" THEN [nativeReply EXCEPT ![owner[b]] = status]
                                              ELSE nativeReply
    /\ UNCHANGED owner

Replies(b, status) == IF phase[b] = "pending" THEN Return(owner[b], b, status) ELSE <<>>

(* PreHandleBufferUnmap, then Unmap of the native buffer, which does       *)
(* nothing on a device that is lost.                                       *)
DoBufferUnmap ==
    /\ Receive("Unmap")
    /\ LET i == Head(toServer).id
           b == known[i].handle
           unmapped == [known EXCEPT ![i].mapWriteState = "Unmapped",
                                     ![i].write = @ /\ ~ForCreation(kind[b])]
       IN  IF ~Allocated(i) THEN ServerFails
           ELSE /\ IF phase[b] \in {"pending", "mapped"} /\ ~deviceLost
                     THEN /\ NativeAnswers(b, "Unmapped", "unmapped")
                          /\ ServerStep(unmapped, Replies(b, "Unmapped"))
                     ELSE ServerStep(unmapped, <<>>) /\ UNCHANGED <<phase, owner, nativeReply>>
                /\ UNCHANGED <<wireError, unflushed>>

(* CallMapCallback: a lost device is what the callback is told of.         *)
CallbackStatus(status) == IF deviceLost THEN "DeviceLost" ELSE status

(* PreHandleBufferDestroy, then Destroy of the native buffer.              *)
DoBufferDestroy ==
    /\ Receive("Destroy")
    /\ LET i == Head(toServer).id
           b == known[i].handle
           cleared == [known EXCEPT ![i].mapWriteState = "Unmapped", ![i].read = FALSE,
                                    ![i].write = FALSE]
           status == CallbackStatus("Destroyed")
       IN  IF ~Allocated(i) THEN ServerFails
           ELSE /\ IF phase[b] = "error"
                     THEN ServerStep(cleared, <<>>) /\ UNCHANGED <<phase, owner, nativeReply>>
                     ELSE /\ NativeAnswers(b, status, "gone")
                          /\ ServerStep(cleared, Replies(b, status))
                /\ UNCHANGED <<wireError, unflushed>>

(* DoDestroyObject: the reference is released and the id freed.  A pending *)
(* request keeps the native buffer until it is answered.                   *)
DoDestroyObject ==
    /\ Receive("DestroyObject")
    /\ LET i == Head(toServer).id
           b == known[i].handle
       IN  IF ~Allocated(i) THEN ServerFails
           ELSE /\ ServerStep([known EXCEPT ![i].state = "Free"], <<>>)
                /\ phase' = [phase EXCEPT ![b] =
                        IF @ \in {"error", "pending"} THEN @ ELSE "gone"]
                /\ UNCHANGED <<owner, nativeReply, wireError, unflushed>>

(* The GPU is done with the buffer: its task grants the mapping, and       *)
(* OnBufferMapAsyncCallback uses the handle it was created with.           *)
Grant(b) ==
    /\ Running /\ phase[b] = "pending" /\ ~deviceLost
    /\ NativeAnswers(b, "Success", "mapped")
    /\ LET i == id[b]
       IN  IF ~StillKnown(owner[b], b) THEN ServerStep(known, <<>>) /\ UNCHANGED wireError
           ELSE /\ wireError' = IF IF MapsRead(kind[b]) THEN known[i].read ELSE known[i].write
                                  THEN wireError ELSE "Server"
                /\ ServerStep(IF MapsRead(kind[b]) THEN known
                                ELSE [known EXCEPT ![i].mapWriteState = "Mapped"],
                              Replies(b, "Success"))
    /\ UNCHANGED <<toServer, unflushed>>

(* The server's device is lost.  Each pending request is answered.         *)
LoseDevice ==
    /\ Running /\ ~deviceLost
    /\ deviceLost' = TRUE
    /\ UNCHANGED <<clientVars, requestVars, idVars, mDisconnected, wireVars, serverVars, phase,
                   owner, nativeReply, wireError, unflushed, commands>>

AnswerLost(b) ==
    /\ Running /\ phase[b] = "pending" /\ deviceLost
    /\ NativeAnswers(b, "DeviceLost", "lost")
    /\ ServerStep(known, Replies(b, "DeviceLost"))
    /\ UNCHANGED <<toServer, wireError, unflushed>>

-----------------------------------------------------------------------------
ServerHandles ==
    \/ DoDeviceCreateBuffer \/ DoBufferMapAsync \/ DoBufferUpdateMappedData
    \/ DoBufferUnmap \/ DoBufferDestroy \/ DoDestroyObject

Next ==
    \/ \E k \in Kinds : CreateBuffer(k)
    \/ \E b \in Buffers : Unmap(b) \/ Destroy(b) \/ Release(b)
    \/ \E r \in Requests, b \in Buffers : MapAsync(r, b)
    \/ Disconnect
    \/ OnMapAsyncCallback
    \/ ServerHandles
    \/ \E b \in Buffers : Grant(b) \/ AnswerLost(b)
    \/ LoseDevice

Spec == Init /\ [][Next]_vars

(* Both sides handle what they receive, and native requests are answered:  *)
(* the server ticks its device.                                            *)
FairSpec ==
    /\ Spec
    /\ WF_vars(OnMapAsyncCallback)
    /\ WF_vars(ServerHandles)
    /\ \A b \in Buffers : WF_vars(Grant(b) \/ AnswerLost(b))

-----------------------------------------------------------------------------
(* Properties.                                                             *)

(* The client works with a mapping only while the server's buffer is       *)
(* mapped, whatever answers were in flight when it unmapped or mapped      *)
(* again.                                                                  *)
MappedOnBothSides ==
    \A b \in Buffers :
        /\ mMapState[b] = "MappedForRead" /\ mReadHandle[b] => phase[b] = "mapped"
        /\ mMapState[b] = "MappedForWrite" /\ mWriteHandle[b] => phase[b] = "mapped"

(* Client and server agree on what is mapped.                              *)
WireInv == WireTypeOK /\ MappedOnBothSides

(* Success is told only to a request that the native buffer granted, never *)
(* to a request of another buffer with the same id or serial.              *)
SuccessIsGranted ==
    \A r \in Requests : answer[r] = "Success" => nativeReply[r] = "Success"

(* What the client wrote is in the buffer before the GPU may use it again. *)
WritesArriveFirst == \A b \in Buffers : phase[b] = "unmapped" => ~unflushed[b]

(* An application that only uses the API never makes a handler fail, which *)
(* would drop the connection.                                              *)
NoWireError == wireError = "None"

(* No request waits for ever: each one is answered, by the server or by    *)
(* the client itself.                                                      *)
EveryMapAnswered == \A r \in Requests : []<>~Waiting(r)

-----------------------------------------------------------------------------
(* The invariants behind them.                                             *)

IsCreated(b) == b \in 1..created

(* The server's object for b is there.                                     *)
InServer(b) ==
    IsCreated(b) /\ known[id[b]].state = "Allocated" /\ known[id[b]].handle = b

(* On their way to the server: commands for a buffer, ahead of the j-th    *)
(* or anywhere, and the MapAsync of a request.                             *)
Before(j, b, names) ==
    \E k \in 1..(j - 1) : toServer[k].buffer = b /\ toServer[k].cmd \in names
OnWay(b, names) == \E k \in DOMAIN toServer : toServer[k].buffer = b /\ toServer[k].cmd \in names
MapOnWay(r) ==
    \E k \in DOMAIN toServer : toServer[k].cmd = "MapAsync" /\ toServer[k].request = r

Names == {"Create", "MapAsync", "UpdateMappedData", "Unmap", "Destroy", "DestroyObject"}
Commands ==
    [cmd : {"Create"}, id : Ids, generation : 0..MaxGeneration, buffer : Buffers]
    \cup [cmd : {"MapAsync"}, id : Ids, buffer : Buffers, serial : Nat, request : Requests]
    \cup [cmd : Names \ {"Create", "MapAsync"}, id : Ids, buffer : Buffers]
ReturnCommands ==
    [id : Ids, generation : 0..MaxGeneration, serial : Nat, status : Statuses, request : Requests]

ChannelTypeOK == toServer \in Seq(Commands) /\ toClient \in Seq(ReturnCommands)

(* ObjectAllocator: an id in use is in no list of free ones, and of two    *)
(* buffers with one id the later has the higher generation.                *)
IdInv ==
    /\ mCurrentId <= created + 1
    /\ \A b \in Buffers :
          /\ IsCreated(b) => id[b] \in 1..(mCurrentId - 1) /\ generation[b] <= generationAt[id[b]]
          /\ ~IsCreated(b) => ~live[b] /\ phase[b] = "none"
          /\ live[b] => objectAt[id[b]] = b /\ generation[b] = generationAt[id[b]]
    /\ \A i \in Ids : objectAt[i] # 0 => live[objectAt[i]] /\ id[objectAt[i]] = i
    /\ \A j \in DOMAIN mFreeIds :
          /\ mFreeIds[j] < mCurrentId /\ objectAt[mFreeIds[j]] = 0
          /\ generationAt[mFreeIds[j]] < MaxGeneration
          /\ \A k \in DOMAIN mFreeIds : j # k => mFreeIds[j] # mFreeIds[k]
    /\ \A a, b \in Buffers : a < b /\ IsCreated(b) /\ id[a] = id[b] => generation[a] < generation[b]

(* The commands for a buffer start with its creation, or its object is     *)
(* there, and nothing follows its release: for the j-th command m.         *)
InOrder(j, m) ==
    /\ IsCreated(m.buffer) /\ m.id = id[m.buffer]
    /\ m.cmd = "Create" => m.generation = generation[m.buffer] /\ phase[m.buffer] = "none"
    /\ m.cmd # "Create" => InServer(m.buffer) \/ Before(j, m.buffer, {"Create"})
    /\ m.cmd = "DestroyObject" => ~live[m.buffer]
    /\ \A k \in 1..(j - 1) : toServer[k].buffer = m.buffer =>
          toServer[k].cmd # "DestroyObject" /\ m.cmd # "Create"

CommandInv == \A j \in DOMAIN toServer : InOrder(j, toServer[j])

LiveInv == ~mDisconnected => \A b \in Buffers : live[b] => InServer(b) \/ OnWay(b, {"Create"})

(* KnownObjects: an entry in use is that of a buffer that was created.     *)
KnownInv ==
    \A i \in Ids : known[i].state = "Allocated" =>
        /\ i < knownSize /\ IsCreated(known[i].handle) /\ id[known[i].handle] = i
        /\ known[i].generation = generation[known[i].handle]
        /\ phase[known[i].handle] # "none"

(* RequestTracker: a buffer and a serial name one request.                 *)
SerialInv ==
    /\ \A r \in Requests :
          /\ answer[r] = "None" => nativeReply[r] = "None" /\ reqSerial[r] = 0
                                   /\ \A b \in Buffers : mSerial[b] < r
          /\ answer[r] # "None" => IsCreated(reqBuffer[r]) /\ reqSerial[r] <= mSerial[reqBuffer[r]]
          /\ Waiting(r) => live[reqBuffer[r]] /\ ~mDisconnected
    /\ \A r, q \in Requests :
          r # q /\ reqBuffer[r] = reqBuffer[q] /\ reqSerial[r] = reqSerial[q] => reqSerial[r] = 0

(* A request on its way, in the native buffer and on its way back.         *)
MapCommandInv ==
    \A j \in DOMAIN toServer : toServer[j].cmd = "MapAsync" =>
        LET r == toServer[j].request IN
        /\ toServer[j].buffer = reqBuffer[r] /\ reqSerial[r] > 0 /\ nativeReply[r] = "None"
        /\ \A k \in 1..(j - 1) : toServer[k].cmd = "MapAsync" => toServer[k].request # r
PendingInv ==
    \A b \in Buffers : phase[b] = "pending" =>
        /\ owner[b] \in Requests /\ reqBuffer[owner[b]] = b
        /\ reqSerial[owner[b]] > 0 /\ nativeReply[owner[b]] = "Waiting"
ReturnInv ==
    \A j \in DOMAIN toClient :
        LET m == toClient[j]
            r == m.request
            b == reqBuffer[r]
        IN  /\ reqSerial[r] > 0 /\ m.serial = reqSerial[r]
            /\ m.id = id[b] /\ m.generation = generation[b]
            /\ m.status = "Success" => nativeReply[r] = "Success"

(* What holds while both sides talk.                                       *)
TalkInv ==
    /\ ChannelTypeOK /\ IdInv /\ CommandInv /\ LiveInv /\ KnownInv /\ SerialInv
    /\ MapCommandInv /\ PendingInv /\ ReturnInv

(* The inductive invariant for SuccessIsGranted.                           *)
GrantInv == WireTypeOK /\ SuccessIsGranted /\ (Running => TalkInv)

Ends == {"Unmap", "Destroy"}   \* the commands that end a mapping

(* The client waits for the answer and will believe it.                    *)
Safe(r) == Waiting(r) /\ clientStatus[r] = "Success"

(* No command that ends a mapping of b is on its way after the MapAsync of *)
(* r, and the server has it mapped once it has been granted.               *)
Unended(r, b) ==
    /\ ~MapOnWay(r) => ~OnWay(b, Ends)
    /\ \A j, k \in DOMAIN toServer : j < k /\ toServer[j].cmd = "MapAsync" /\
          toServer[j].request = r /\ toServer[k].buffer = b => toServer[k].cmd \notin Ends
    /\ nativeReply[r] = "Success" => phase[b] = "mapped"

(* So it is for each request whose answer will be believed.                *)
SafeInv == \A r \in Requests : Safe(r) => Unended(r, reqBuffer[r])

(* The client has the buffer mapped by a request.                          *)
ClientMaps(b) ==
    \/ mMapState[b] = "MappedForRead" /\ mReadHandle[b]
    \/ mMapState[b] = "MappedForWrite" /\ mWriteHandle[b]

(* A mapping the client uses is there on the server, and no command on its *)
(* way ends it.                                                            *)
MappedInv ==
    \A b \in Buffers :
        /\ ClientMaps(b) => phase[b] = "mapped" /\ ~OnWay(b, Ends)
        /\ ~live[b] => ~mReadHandle[b] /\ ~mWriteHandle[b]

(* The inductive invariant for MappedOnBothSides.                          *)
BothSidesInv == SafeInv /\ MappedInv

WillFlush(b) == mMapState[b] \in {"MappedForWrite", "MappedAtCreation"} /\ mWriteHandle[b]

(* What was written to b and has not arrived will arrive before an Unmap,  *)
(* or the buffer is destroyed before.                                      *)
Settles == {"UpdateMappedData", "Destroy"}
Arrives(b) ==
    /\ phase[b] \notin {"unmapped", "pending"}
    /\ phase[b] = "none" => AtCreation(kind[b])
    /\ phase[b] \in {"none", "mapped"} =>
          /\ \A j \in DOMAIN toServer :
                toServer[j].buffer = b /\ toServer[j].cmd = "Unmap" => Before(j, b, Settles)
          /\ mDisconnected \/ WillFlush(b) \/ OnWay(b, Settles) \/ OnWay(b, {"DestroyObject"})
    /\ MapsRead(kind[b]) => \A r \in Requests : reqBuffer[r] = b => nativeReply[r] = "None"

FlushInv == \A b \in Buffers : unflushed[b] => Arrives(b)

(* The inductive invariant for WritesArriveFirst.                          *)
ArriveInv == WritesArriveFirst /\ (Running => FlushInv)

(* All commands for b have been handled, and its object released.          *)
Done(b) == ~InServer(b) /\ ~OnWay(b, Names)

(* Ids are created in their order.                                         *)
NumberInv ==
    /\ knownSize <= mCurrentId
    /\ \A j \in DOMAIN toServer : toServer[j].cmd = "Create" =>
          \A i \in knownSize..(toServer[j].id - 1) :
              \E b \in Buffers : id[b] = i /\ Before(j, b, {"Create"})
    /\ ~mDisconnected => \A i \in knownSize..(mCurrentId - 1) :
          \E b \in Buffers : id[b] = i /\ OnWay(b, {"Create"})

(* A later buffer with the same id comes after the release of the earlier. *)
ReleaseInv ==
    /\ \A j \in DOMAIN toServer : toServer[j].cmd = "Create" =>
          \A a \in Buffers : a < toServer[j].buffer /\ id[a] = toServer[j].id =>
              Done(a) \/ Before(j, a, {"DestroyObject"})
    /\ \A a, b \in Buffers : a < b /\ IsCreated(b) /\ id[a] = id[b] =>
          ~live[a] /\ (phase[b] # "none" => Done(a))
    /\ ~mDisconnected => \A b \in Buffers :
          IsCreated(b) /\ ~live[b] => Done(b) \/ OnWay(b, {"DestroyObject"})

(* A request is in one place at a time, and waits while it is somewhere.   *)
Asked(r) == MapOnWay(r) \/ nativeReply[r] = "Waiting"
AnswerOnWay(r) == \E j \in DOMAIN toClient : toClient[j].request = r
TransitInv ==
    /\ \A j, k \in DOMAIN toClient : j # k => toClient[j].request # toClient[k].request
    /\ \A r \in Requests :
          /\ AnswerOnWay(r) => ~Asked(r)
          /\ ~mDisconnected /\ (Asked(r) \/ AnswerOnWay(r)) /\ live[reqBuffer[r]] => Waiting(r)

Handle(b) == IF MapsRead(kind[b]) THEN mReadHandle[b] ELSE mWriteHandle[b]

(* The server has the handles a mapping of b needs.                        *)
Handles(b) ==
    /\ InServer(b) /\ phase[b] \notin {"gone", "error"} =>
          /\ MapsRead(kind[b]) => known[id[b]].read
          /\ MapsWrite(kind[b]) => known[id[b]].write
    /\ mMapState[b] = "MappedForRead" => MapsRead(kind[b])
    /\ mMapState[b] = "MappedForWrite" => MapsWrite(kind[b])
    /\ mMapState[b] = "MappedAtCreation" => AtCreation(kind[b])
    /\ phase[b] = "pending" => kind[b] # "AtCreation"
    /\ \A r \in Requests : reqBuffer[r] = b /\ nativeReply[r] # "None" => kind[b] # "AtCreation"

HandleInv == \A b \in Buffers : Handles(b)

(* The server takes what is written to b: through its mapping, or because  *)
(* its creation failed.                                                    *)
Takes(b) == InServer(b) /\ known[id[b]].mapWriteState # "Unmapped" /\ known[id[b]].write

(* The server will take what the client writes into a mapping of b.        *)
Writes(b) ==
    /\ \A r \in Requests :
          reqBuffer[r] = b /\ Safe(r) /\ nativeReply[r] = "Success" /\ MapsWrite(kind[b])
              => InServer(b) /\ known[id[b]].mapWriteState = "Mapped"
    /\ ClientMaps(b) /\ MapsWrite(kind[b])
          => InServer(b) /\ known[id[b]].mapWriteState = "Mapped"
    /\ mMapState[b] = "MappedAtCreation" /\ mWriteHandle[b] =>
          /\ ~OnWay(b, Ends)
          /\ phase[b] = "none" \/ (phase[b] \in {"mapped", "error"} /\ Takes(b))
    /\ \A j \in DOMAIN toServer : toServer[j].buffer = b /\ toServer[j].cmd = "UpdateMappedData" =>
          /\ ~Before(j, b, Ends)
          /\ (phase[b] = "none" /\ AtCreation(kind[b])) \/ Takes(b)

WriteInv == \A b \in Buffers : Writes(b)

(* b, whose handle the client has dropped, is destroyed before the server  *)
(* sees another request for it.                                            *)
Dropped(b) ==
    live[b] /\ ~mDisconnected /\ kind[b] # "AtCreation" /\ ~Handle(b) =>
        /\ phase[b] \in {"gone", "error"} \/ OnWay(b, {"Destroy"})
        /\ \A r \in Requests : Safe(r) /\ reqBuffer[r] = b =>
              /\ nativeReply[r] = "None"
              /\ \/ phase[b] \in {"gone", "error"}
                 \/ /\ MapOnWay(r)
                    /\ \A j \in DOMAIN toServer :
                          toServer[j].cmd = "MapAsync" /\ toServer[j].request = r
                              => Before(j, b, {"Destroy"})

DropInv == \A b \in Buffers : Dropped(b)

(* The inductive invariant for NoWireError.                                *)
AgreeInv ==
    NoWireError /\ NumberInv /\ ReleaseInv /\ TransitInv /\ HandleInv /\ WriteInv /\ DropInv

(* The application may use the memory of b.                                *)
Holds(b) == ClientMaps(b) \/ (mMapState[b] = "MappedAtCreation" /\ mWriteHandle[b])

(* The answer to r grants b, and the client will believe it.               *)
WillGrant(r, b) == reqBuffer[r] = b /\ Safe(r) /\ nativeReply[r] = "Success"

(* One such answer at a time, and none while the application holds b; only *)
(* requests that wait are tagged.  The inductive invariant for what the    *)
(* client promises its application.                                        *)
TurnInv ==
    /\ \A b \in Buffers, r \in Requests : WillGrant(r, b) =>
          ~Holds(b) /\ \A q \in Requests : WillGrant(q, b) => q = r
    /\ \A r \in Requests : ~Waiting(r) => clientStatus[r] = "Success"
=============================================================================
