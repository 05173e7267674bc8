----------------------- MODULE WireBufferHandlersProofs -----------------------
(***************************************************************************)
(* Proofs about WireBuffer: no handler fails.  Each one finds the object   *)
(* it needs in its table, and the handles the mapping needs.  From that,   *)
(* the client keeps what ClientMapProtocol promises the application.       *)
(***************************************************************************)
EXTENDS WireBufferProofs

-----------------------------------------------------------------------------
(* What the handlers find.                                                 *)

(* The creation that comes next has its place in the server's table.       *)
LEMMA CreationFits ==
    ASSUME WireTypeOK, TalkInv, NumberInv, ReleaseInv, Receive("Create"), NEW h, h = Head(toServer)
    PROVE  h.id <= knownSize /\ ~Allocated(h.id)
  <1>1. ChannelTypeOK /\ IdInv /\ CommandInv /\ KnownInv
    BY DEF TalkInv
  <1>2. /\ h = toServer[1] /\ 1 \in DOMAIN toServer /\ h.buffer \in Buffers /\ h.id \in Ids
        /\ h.id = id[h.buffer] /\ IsCreated(h.buffer) /\ h.cmd = "Create" /\ InOrder(1, h)
    BY <1>1, FirstCommand
  <1>3. phase[h.buffer] = "none"
    BY <1>2 DEF InOrder
  <1>4. h.id \in Nat /\ knownSize \in Nat /\ h.buffer \in Nat
    <2>1. knownSize \in 1..(MaxBuffers + 1)
      BY DEF WireTypeOK
    <2> QED
      BY <1>2, <2>1, WireBounds DEF Ids, Buffers
  <1>5. h.id <= knownSize
    <2>1. SUFFICES ASSUME h.id > knownSize PROVE FALSE
      BY <1>4
    <2>2. knownSize \in knownSize..(h.id - 1)
      BY <1>4, <2>1
    <2>3. PICK b \in Buffers : id[b] = knownSize /\ Before(1, b, {"Create"})
      BY <1>2, <2>2 DEF NumberInv
    <2> QED
      BY <2>3, FirstBefore
  <1>6. ~Allocated(h.id)
    <2>1. SUFFICES ASSUME Allocated(h.id) PROVE FALSE
      OBVIOUS
    <2>2. PICK a : a = known[h.id].handle
      OBVIOUS
    <2>3. /\ known[h.id].state = "Allocated" /\ IsCreated(a) /\ id[a] = h.id /\ phase[a] # "none"
      BY <1>1, <1>2, <2>1, <2>2 DEF Allocated, KnownInv
    <2>4. InServer(a) /\ a # h.buffer
      BY <1>3, <2>2, <2>3 DEF InServer
    <2>5. a \in Buffers /\ a \in Nat
      BY <2>3, WireBounds DEF IsCreated, WireTypeOK, Buffers
    <2>6. CASE a < h.buffer
      <3>1. Done(a) \/ Before(1, a, {"DestroyObject"})
        BY <1>2, <2>3, <2>5, <2>6 DEF ReleaseInv
      <3> QED
        BY <2>4, <3>1, FirstBefore DEF Done
    <2>7. CASE h.buffer < a
      <3>1. Done(h.buffer)
        BY <1>2, <2>3, <2>5, <2>7 DEF ReleaseInv
      <3>2. OnWay(h.buffer, Names)
        BY <1>2 DEF OnWay, Names
      <3> QED
        BY <3>1, <3>2 DEF Done
    <2> QED
      BY <1>4, <2>4, <2>5, <2>6, <2>7
  <1> QED
    BY <1>5, <1>6

(* The object of any other command is there.                               *)
LEMMA ObjectFound ==
    ASSUME WireTypeOK, TalkInv, NEW name, name # "Create", Receive(name), NEW h, h = Head(toServer)
    PROVE  Allocated(h.id)
  <1>1. ChannelTypeOK /\ IdInv /\ CommandInv /\ KnownInv
    BY DEF TalkInv
  <1>2. h.buffer \in Buffers /\ h.id \in Ids /\ h.id = id[h.buffer] /\ InServer(h.buffer)
    BY <1>1, FirstCommand
  <1> QED
    BY <1>1, <1>2 DEF InServer, Allocated, KnownInv

(* The data that comes next is taken.                                      *)
LEMMA DataTaken ==
    ASSUME WireTypeOK, TalkInv, WriteInv, Receive("UpdateMappedData"), NEW h, h = Head(toServer)
    PROVE  known[h.id].mapWriteState # "Unmapped" /\ known[h.id].write
  <1>1. ChannelTypeOK /\ IdInv /\ CommandInv /\ KnownInv
    BY DEF TalkInv
  <1>2. /\ h = toServer[1] /\ 1 \in DOMAIN toServer /\ h.buffer \in Buffers /\ h.id \in Ids
        /\ h.id = id[h.buffer] /\ h.cmd = "UpdateMappedData"
        /\ InServer(h.buffer) /\ known[h.id].handle = h.buffer
    BY <1>1, FirstCommand
  <1>3. phase[h.buffer] # "none"
    BY <1>1, <1>2 DEF KnownInv, InServer
  <1>4. Writes(h.buffer)
    BY <1>2 DEF WriteInv
  <1>5. Takes(h.buffer)
    BY <1>2, <1>3, <1>4 DEF Writes
  <1> QED
    BY <1>2, <1>5 DEF Takes

LEMMA ServerRuns ==
    ASSUME WireTypeOK, TalkInv, NumberInv, ReleaseInv, WriteInv, Running, ServerHandles
    PROVE  Running'
  <1> PICK h : h = Head(toServer)
    OBVIOUS
  <1>1. CASE DoDeviceCreateBuffer
    <2>1. ~(h.id > knownSize \/ Allocated(h.id))
      <3>1. Receive("Create")
        BY <1>1 DEF DoDeviceCreateBuffer
      <3>2. h.id <= knownSize /\ ~Allocated(h.id)
        BY <3>1, CreationFits
      <3>3. h.id \in Int /\ knownSize \in Int
        <4>1. ChannelTypeOK
          BY DEF TalkInv
        <4>2. h \in Commands
          BY <3>1, <4>1, HeadCommand
        <4> QED
          BY <4>2, CommandTypes, WireBounds DEF WireTypeOK, Ids
      <3> QED
        BY <3>2, <3>3
    <2> QED
      BY <1>1, <2>1 DEF DoDeviceCreateBuffer, Running
  <1>2. CASE DoBufferMapAsync
    <2>1. Allocated(h.id)
      BY <1>2, ObjectFound DEF DoBufferMapAsync
    <2> QED
      BY <1>2, <2>1 DEF DoBufferMapAsync, Running
  <1>3. CASE DoBufferUpdateMappedData
    <2>1. Allocated(h.id)
      BY <1>3, ObjectFound DEF DoBufferUpdateMappedData
    <2>2. known[h.id].mapWriteState # "Unmapped" /\ known[h.id].write
      BY <1>3, DataTaken DEF DoBufferUpdateMappedData
    <2> QED
      BY <1>3, <2>1, <2>2 DEF DoBufferUpdateMappedData, Running
  <1>4. CASE DoBufferUnmap
    <2>1. Allocated(h.id)
      BY <1>4, ObjectFound DEF DoBufferUnmap
    <2> QED
      BY <1>4, <2>1 DEF DoBufferUnmap, Running
  <1>5. CASE DoBufferDestroy
    <2>1. Allocated(h.id)
      BY <1>5, ObjectFound DEF DoBufferDestroy
    <2> QED
      BY <1>5, <2>1 DEF DoBufferDestroy, Running
  <1>6. CASE DoDestroyObject
    <2>1. Allocated(h.id)
      BY <1>6, ObjectFound DEF DoDestroyObject
    <2> QED
      BY <1>6, <2>1 DEF DoDestroyObject, Running
  <1> QED
    BY <1>1, <1>2, <1>3, <1>4, <1>5, <1>6 DEF ServerHandles

(* The object of a native buffer whose id and generation are known is its  *)
(* own.                                                                    *)
LEMMA KnownIsThere ==
    ASSUME WireTypeOK, TalkInv, NEW b \in Buffers, IsCreated(b), NEW r, StillKnown(r, b)
    PROVE  InServer(b)
  <1>1. IdInv /\ KnownInv
    BY DEF TalkInv
  <1>2. id[b] \in Ids
    BY <1>1, LiveIds
  <1>3. PICK a : a = known[id[b]].handle
    OBVIOUS
  <1>4. IsCreated(a) /\ id[a] = id[b] /\ generation[a] = generation[b]
    BY <1>1, <1>2, <1>3 DEF StillKnown, KnownInv
  <1>5. a \in Buffers
    BY <1>4, WireBounds DEF IsCreated, WireTypeOK, Buffers
  <1>6. a = b
    BY <1>1, <1>4, <1>5, SameBuffer
  <1> QED
    BY <1>3, <1>6 DEF InServer, StillKnown

LEMMA PendingIsCreated ==
    ASSUME TalkInv, NEW b \in Buffers, phase[b] # "none"
    PROVE  IsCreated(b)
  BY DEF TalkInv, IdInv

LEMMA DeviceRuns ==
    ASSUME WireTypeOK, TalkInv, HandleInv, Running, NEW b \in Buffers, Grant(b) \/ AnswerLost(b)
    PROVE  Running'
  <1>1. CASE AnswerLost(b)
    BY <1>1 DEF AnswerLost, Running
  <1>2. CASE Grant(b)
    <2>1. phase[b] = "pending"
      BY <1>2 DEF Grant
    <2>2. IsCreated(b)
      BY <2>1, PendingIsCreated
    <2>3. CASE ~StillKnown(owner[b], b)
      BY <1>2, <2>3 DEF Grant, Running
    <2>4. CASE StillKnown(owner[b], b)
      <3>1. InServer(b)
        BY <2>2, <2>4, KnownIsThere
      <3>2. Handles(b)
        BY DEF HandleInv
      <3>3. kind[b] \in AllKinds
        BY DEF WireTypeOK
      <3>4. IF MapsRead(kind[b]) THEN known[id[b]].read ELSE known[id[b]].write
        BY <2>1, <3>1, <3>2, <3>3 DEF Handles, MapsRead, MapsWrite, AllKinds
      <3> QED
        BY <1>2, <2>4, <3>4 DEF Grant, Running
    <2> QED
      BY <2>3, <2>4
  <1> QED
    BY <1>1, <1>2

(* The answer that comes next, when its buffer is still there.             *)
LEMMA AnswerAwaited ==
    ASSUME WireTypeOK, TalkInv, TransitInv, ~mDisconnected, toClient # <<>>,
           NEW m, m = Head(toClient), NEW b, b = Target(m), b # 0
    PROVE  /\ m.request \in WaitingOn(b) /\ reqSerial[m.request] = m.serial
           /\ b \in Buffers /\ live[b] /\ m.request \in Requests
  <1>1. ChannelTypeOK /\ IdInv /\ SerialInv /\ ReturnInv
    BY DEF TalkInv
  <1>2. toClient \in Seq(ReturnCommands)
    BY <1>1 DEF ChannelTypeOK
  <1>3. 1 \in DOMAIN toClient /\ m = toClient[1] /\ m \in ReturnCommands
    BY <1>2, Shrunk
  <1>4. m.request \in Requests /\ m.id \in Ids
    BY <1>3 DEF ReturnCommands
  <1>5. PICK r : r = m.request
    OBVIOUS
  <1>6. PICK c : c = reqBuffer[r]
    OBVIOUS
  <1>7. reqSerial[r] > 0 /\ m.serial = reqSerial[r] /\ m.id = id[c] /\ m.generation = generation[c]
    BY <1>1, <1>3, <1>5, <1>6 DEF ReturnInv
  <1>8. objectAt[m.id] = b /\ generationAt[m.id] = m.generation
    BY DEF Target
  <1>9. live[b] /\ id[b] = m.id
    BY <1>1, <1>4, <1>8 DEF IdInv
  <1>10. b \in Buffers
    <2>1. objectAt[m.id] \in 0..MaxBuffers
      BY <1>4 DEF WireTypeOK
    <2> QED
      BY <1>8, <2>1, WireBounds DEF Buffers
  <1>11. IsCreated(b) /\ generation[b] = m.generation
    BY <1>1, <1>8, <1>9, <1>10 DEF IdInv
  <1>12. answer[r] # "None"
    BY <1>1, <1>4, <1>5, <1>7 DEF SerialInv
  <1>13. IsCreated(c)
    BY <1>1, <1>4, <1>5, <1>6, <1>12 DEF SerialInv
  <1>14. c \in Buffers
    BY <1>13, WireBounds DEF IsCreated, WireTypeOK, Buffers
  <1>15. b = c
    BY <1>1, <1>7, <1>9, <1>10, <1>11, <1>13, <1>14, SameBuffer
  <1>16. AnswerOnWay(r)
    BY <1>3, <1>5 DEF AnswerOnWay
  <1>17. Waiting(r)
    BY <1>4, <1>5, <1>6, <1>9, <1>15, <1>16 DEF TransitInv
  <1> QED
    BY <1>4, <1>5, <1>6, <1>7, <1>9, <1>10, <1>15, <1>17 DEF WaitingOn

LEMMA CallbackRuns ==
    ASSUME WireTypeOK, TalkInv, TransitInv, HandleInv, DropInv, Running, OnMapAsyncCallback
    PROVE  Running'
  <1>1. ~mDisconnected /\ toClient # <<>>
    BY DEF OnMapAsyncCallback
  <1>2. PICK m : m = Head(toClient)
    OBVIOUS
  <1>3. PICK b : b = Target(m)
    OBVIOUS
  <1>4. CASE b = 0
    BY <1>2, <1>3, <1>4 DEF OnMapAsyncCallback, Running
  <1>5. CASE b # 0
    <2>1. /\ m.request \in WaitingOn(b) /\ reqSerial[m.request] = m.serial
          /\ b \in Buffers /\ live[b] /\ m.request \in Requests
      BY <1>1, <1>2, <1>3, <1>5, AnswerAwaited
    <2>2. PICK r \in {r \in WaitingOn(b) : reqSerial[r] = m.serial} : AnswerRequest(r, b, m.status)
      BY <1>2, <1>3, <1>5, <2>1 DEF OnMapAsyncCallback
    <2>3. r \in WaitingOn(b) /\ reqSerial[r] = m.serial
      BY <2>2
    <2>4. /\ reqBuffer[r] = b /\ r \in Requests /\ answer[r] = "Waiting"
          /\ m.status = "Success" => nativeReply[r] = "Success"
      BY <1>1, <1>2, <1>3, <1>5, <2>3, AnswerFound
    <2>5. SUFFICES ASSUME FinalStatus(r, m.status) = "Success" PROVE Handle(b)
      BY <2>2 DEF AnswerRequest, Running, Handle
    <2>6. m.status = "Success" /\ clientStatus[r] = "Success"
      BY <2>5 DEF FinalStatus
    <2>7. Safe(r) /\ nativeReply[r] = "Success"
      BY <2>4, <2>6 DEF Safe, Waiting
    <2>8. kind[b] # "AtCreation"
      BY <2>1, <2>4, <2>7 DEF HandleInv, Handles
    <2>9. Dropped(b)
      BY <2>1 DEF DropInv
    <2> QED
      BY <1>1, <2>1, <2>4, <2>7, <2>8, <2>9 DEF Dropped
  <1> QED
    BY <1>4, <1>5

LEMMA StepRuns ==
    ASSUME WireTypeOK, TalkInv, NumberInv, ReleaseInv, TransitInv, HandleInv, WriteInv, DropInv,
           Running, [Next]_vars
    PROVE  Running'
  <1>1. CASE ServerHandles
    BY <1>1, ServerRuns
  <1>2. CASE OnMapAsyncCallback
    BY <1>2, CallbackRuns
  <1>3. CASE \E b \in Buffers : Grant(b) \/ AnswerLost(b)
    BY <1>3, DeviceRuns
  <1>4. CASE \E k \in Kinds : CreateBuffer(k)
    BY <1>4 DEF CreateBuffer, Running
  <1>5. CASE \E b \in Buffers : Unmap(b) \/ Destroy(b) \/ Release(b)
    BY <1>5 DEF Unmap, Destroy, Release, Running
  <1>6. CASE \E r \in Requests, b \in Buffers : MapAsync(r, b)
    BY <1>6 DEF MapAsync, Running
  <1>7. CASE Disconnect \/ LoseDevice \/ UNCHANGED vars
    BY <1>7 DEF Disconnect, LoseDevice, vars, Running
  <1> QED
    BY <1>1, <1>2, <1>3, <1>4, <1>5, <1>6, <1>7 DEF Next

(* A step of the server is about one buffer.                               *)
LEMMA ServerShape ==
    ASSUME WireTypeOK, TalkInv, Running', ServerHandles, NEW h, h = Head(toServer)
    PROVE  /\ toServer # <<>> /\ toServer' = Tail(toServer) /\ h = toServer[1]
           /\ 1 \in DOMAIN toServer /\ h.cmd \in Names /\ h.buffer \in Buffers /\ h.id \in Ids
           /\ h.id = id[h.buffer] /\ IsCreated(h.buffer) /\ InOrder(1, h)
           /\ UNCHANGED <<clientVars, requestVars, idVars, mDisconnected>>
           /\ h.cmd # "Create" => InServer(h.buffer) /\ knownSize' = knownSize
           /\ h.cmd = "Create" => /\ h.id <= knownSize
                                  /\ knownSize' = IF h.id = knownSize THEN knownSize + 1
                                                                      ELSE knownSize
           /\ InServer(h.buffer)' <=> h.cmd # "DestroyObject"
           /\ \A x \in Buffers : x # h.buffer =>
                 /\ InServer(x)' <=> InServer(x)
                 /\ InServer(x) => known'[id[x]] = known[id[x]]
                 /\ phase'[x] = phase[x]
  <1>1. ChannelTypeOK /\ IdInv /\ CommandInv /\ KnownInv
    BY DEF TalkInv
  <1>2. PICK name \in Names : Receive(name)
    BY DEF ServerHandles, DoDeviceCreateBuffer, DoBufferMapAsync, DoBufferUpdateMappedData,
           DoBufferUnmap, DoBufferDestroy, DoDestroyObject, Names
  <1>3. /\ h = toServer[1] /\ 1 \in DOMAIN toServer /\ h.cmd = name
        /\ toServer # <<>> /\ toServer' = Tail(toServer)
        /\ h.buffer \in Buffers /\ h.id \in Ids /\ h.id = id[h.buffer] /\ IsCreated(h.buffer)
        /\ InOrder(1, h)
        /\ name # "Create" => InServer(h.buffer) /\ known[h.id].handle = h.buffer
    BY <1>1, <1>2, FirstCommand
  <1>4. \A x \in Buffers : IsCreated(x) => id[x] \in Ids
    BY <1>1, LiveIds
  <1>5. phase \in [Buffers -> {"none", "error", "unmapped", "pending", "mapped", "lost", "gone"}]
    BY DEF WireTypeOK
  <1>6. ASSUME NEW status, NEW newPhase, NativeAnswers(h.buffer, status, newPhase)
        PROVE  \A x \in Buffers : x # h.buffer => phase'[x] = phase[x]
    BY <1>5, <1>6 DEF NativeAnswers
  <1>7. CASE DoDeviceCreateBuffer
    <2>1. /\ UNCHANGED <<clientVars, requestVars, idVars, mDisconnected>>
          /\ h.id <= knownSize /\ ~Allocated(h.id)
          /\ knownSize' = IF h.id = knownSize THEN knownSize + 1 ELSE knownSize
          /\ \A i \in Ids : i # h.id => known'[i] = known[i]
          /\ \A x \in Buffers : x # h.buffer => phase'[x] = phase[x]
          /\ known'[h.id].state = "Allocated" /\ known'[h.id].handle = h.buffer
      BY <1>7, CreateEffect
    <2>2. h.cmd = "Create"
      BY <1>7 DEF DoDeviceCreateBuffer, Receive
    <2>3. UNCHANGED <<created, id>>
      BY <2>1 DEF clientVars
    <2>4. known[h.id].state # "Allocated"
      BY <1>1, <1>3, <2>1 DEF KnownInv, Allocated
    <2>5. InServer(h.buffer)'
      BY <1>3, <2>1, <2>3 DEF InServer, IsCreated
    <2>6. ASSUME NEW x \in Buffers, x # h.buffer
          PROVE  /\ InServer(x)' <=> InServer(x)
                 /\ InServer(x) => known'[id[x]] = known[id[x]]
      <3>1. CASE IsCreated(x) /\ id[x] # h.id
        <4>1. known'[id[x]] = known[id[x]]
          BY <1>4, <2>1, <3>1
        <4> QED
          BY <2>3, <4>1 DEF InServer, IsCreated
      <3>2. CASE IsCreated(x) /\ id[x] = h.id
        BY <2>1, <2>3, <2>4, <2>6, <3>2 DEF InServer, IsCreated
      <3>3. CASE ~IsCreated(x)
        BY <2>3, <3>3 DEF InServer, IsCreated
      <3> QED
        BY <3>1, <3>2, <3>3
    <2> QED
      BY <1>2, <1>3, <2>1, <2>2, <2>5, <2>6
  <1>8. ASSUME ~DoDeviceCreateBuffer
        PROVE  /\ UNCHANGED <<clientVars, requestVars, idVars, mDisconnected, knownSize>>
               /\ name # "Create" /\ (name = "DestroyObject" <=> DoDestroyObject)
               /\ \A i \in Ids : /\ known'[i].handle = known[i].handle
                                 /\ i # h.id => known'[i] = known[i]
                                 /\ ~DoDestroyObject => known'[i].state = known[i].state
                                 /\ DoDestroyObject => known'[h.id].state = "Free"
               /\ \A x \in Buffers : x # h.buffer => phase'[x] = phase[x]
    <2>1. CASE DoBufferMapAsync
      <3>1. /\ UNCHANGED <<clientVars, requestVars, idVars, mDisconnected, known, knownSize>>
            /\ phase' = [phase EXCEPT ![h.buffer] = "pending"] \/ phase' = phase
        BY <2>1, MapAsyncEffect
      <3>2. \A x \in Buffers : x # h.buffer => phase'[x] = phase[x]
        BY <1>5, <3>1
      <3>3. name = "MapAsync" /\ ~DoDestroyObject
        BY <1>3, <2>1 DEF DoBufferMapAsync, DoDestroyObject, Receive
      <3> QED
        BY <3>1, <3>2, <3>3
    <2>2. CASE DoBufferUpdateMappedData
      <3>1. /\ UNCHANGED <<clientVars, requestVars, idVars, mDisconnected, known, knownSize, phase>>
        BY <2>2, UpdateEffect
      <3>3. name = "UpdateMappedData" /\ ~DoDestroyObject
        BY <1>3, <2>2 DEF DoBufferUpdateMappedData, DoDestroyObject, Receive
      <3> QED
        BY <3>1, <3>3
    <2>3. CASE DoBufferUnmap
      <3>1. /\ UNCHANGED <<clientVars, requestVars, idVars, mDisconnected, knownSize>>
            /\ \A i \in Ids : /\ known'[i].handle = known[i].handle
                              /\ known'[i].state = known[i].state
                              /\ i # h.id => known'[i] = known[i]
            /\ NativeAnswers(h.buffer, "Unmapped", "unmapped") \/ phase' = phase
        BY <2>3, UnmapEffect
      <3>2. \A x \in Buffers : x # h.buffer => phase'[x] = phase[x]
        BY <1>6, <3>1
      <3>3. name = "Unmap" /\ ~DoDestroyObject
        BY <1>3, <2>3 DEF DoBufferUnmap, DoDestroyObject, Receive
      <3> QED
        BY <3>1, <3>2, <3>3
    <2>4. CASE DoBufferDestroy
      <3>1. /\ UNCHANGED <<clientVars, requestVars, idVars, mDisconnected, knownSize>>
            /\ \A i \in Ids : /\ known'[i].handle = known[i].handle
                              /\ known'[i].state = known[i].state
                              /\ i # h.id => known'[i] = known[i]
            /\ NativeAnswers(h.buffer, CallbackStatus("Destroyed"), "gone") \/ phase' = phase
        BY <2>4, DestroyEffect
      <3>2. \A x \in Buffers : x # h.buffer => phase'[x] = phase[x]
        BY <1>6, <3>1
      <3>3. name = "Destroy" /\ ~DoDestroyObject
        BY <1>3, <2>4 DEF DoBufferDestroy, DoDestroyObject, Receive
      <3> QED
        BY <3>1, <3>2, <3>3
    <2>5. CASE DoDestroyObject
      <3>1. /\ UNCHANGED <<clientVars, requestVars, idVars, mDisconnected, knownSize>>
            /\ \A i \in Ids : /\ known'[i].handle = known[i].handle
                              /\ i # h.id => known'[i] = known[i]
            /\ known'[h.id].state = "Free"
            /\ \A x \in Buffers : x # h.buffer => phase'[x] = phase[x]
        BY <2>5, DestroyObjectEffect
      <3>3. name = "DestroyObject"
        BY <1>3, <2>5 DEF DoDestroyObject, Receive
      <3> QED
        BY <2>5, <3>1, <3>3
    <2> QED
      BY <1>8, <2>1, <2>2, <2>3, <2>4, <2>5 DEF ServerHandles
  <1>9. CASE ~DoDeviceCreateBuffer
    <2>1. UNCHANGED <<created, id>>
      BY <1>8, <1>9 DEF clientVars
    <2>2. known[h.id].handle = h.buffer /\ InServer(h.buffer)
      BY <1>3, <1>8, <1>9
    <2>3. InServer(h.buffer)' <=> h.cmd # "DestroyObject"
      <3>1. known'[h.id].handle = h.buffer
        BY <1>3, <1>8, <1>9, <2>2
      <3>2. CASE DoDestroyObject
        BY <1>3, <1>8, <1>9, <2>1, <3>2 DEF InServer
      <3>3. CASE ~DoDestroyObject
        <4>1. known'[h.id].state = known[h.id].state
          BY <1>3, <1>8, <1>9, <3>3
        <4> QED
          BY <1>3, <1>8, <1>9, <2>1, <2>2, <3>1, <3>3, <4>1 DEF InServer, IsCreated
      <3> QED
        BY <3>2, <3>3
    <2>4. ASSUME NEW x \in Buffers, x # h.buffer
          PROVE  /\ InServer(x)' <=> InServer(x)
                 /\ InServer(x) => known'[id[x]] = known[id[x]]
      <3>1. CASE IsCreated(x) /\ id[x] # h.id
        <4>1. known'[id[x]] = known[id[x]]
          BY <1>4, <1>8, <1>9, <3>1
        <4> QED
          BY <2>1, <4>1 DEF InServer, IsCreated
      <3>2. CASE IsCreated(x) /\ id[x] = h.id
        <4>1. known'[h.id].handle = h.buffer
          BY <1>3, <1>8, <1>9, <2>2
        <4> QED
          BY <2>1, <2>2, <2>4, <3>2, <4>1 DEF InServer, IsCreated
      <3>3. CASE ~IsCreated(x)
        BY <2>1, <3>3 DEF InServer, IsCreated
      <3> QED
        BY <3>1, <3>2, <3>3
    <2> QED
      BY <1>2, <1>3, <1>8, <1>9, <2>2, <2>3, <2>4
  <1> QED
    BY <1>7, <1>9

-----------------------------------------------------------------------------
(* Ids are created in order, and released before they are used again.      *)

LEMMA EachNumbered ==
    ASSUME knownSize' <= mCurrentId',
           \A j \in DOMAIN toServer' : \A c : c = toServer'[j] /\ c.cmd = "Create" =>
               \A i \in knownSize'..(c.id - 1) :
                   \E b \in Buffers : id'[b] = i /\ Before(j, b, {"Create"})',
           ~mDisconnected' => \A i \in knownSize'..(mCurrentId' - 1) :
               \E b \in Buffers : id'[b] = i /\ OnWay(b, {"Create"})'
    PROVE  NumberInv'
  BY DEF NumberInv

LEMMA EachReleased ==
    ASSUME \A j \in DOMAIN toServer' : \A c : c = toServer'[j] /\ c.cmd = "Create" =>
               \A a \in Buffers : a < c.buffer /\ id'[a] = c.id =>
                   Done(a)' \/ Before(j, a, {"DestroyObject"})',
           \A a, b \in Buffers : a < b /\ IsCreated(b)' /\ id'[a] = id'[b] =>
               ~live'[a] /\ (phase'[b] # "none" => Done(a)'),
           ~mDisconnected' => \A b \in Buffers : IsCreated(b)' /\ ~live'[b] =>
               Done(b)' \/ OnWay(b, {"DestroyObject"})'
    PROVE  ReleaseInv'
  BY DEF ReleaseInv

LEMMA NumbersTaken ==
    ASSUME WireTypeOK, TalkInv, NumberInv, Running', ServerHandles
    PROVE  NumberInv'
  <1> PICK h : h = Head(toServer)
    OBVIOUS
  <1>1. /\ toServer # <<>> /\ toServer' = Tail(toServer) /\ h = toServer[1] /\ h.id \in Ids
        /\ h.buffer \in Buffers /\ h.id = id[h.buffer] /\ IsCreated(h.buffer)
        /\ UNCHANGED <<clientVars, requestVars, idVars, mDisconnected>>
        /\ h.cmd # "Create" => knownSize' = knownSize
        /\ h.cmd = "Create" => /\ h.id <= knownSize
                               /\ knownSize' = IF h.id = knownSize THEN knownSize + 1
                                                                   ELSE knownSize
    BY ServerShape
  <1>2. UNCHANGED <<id, mCurrentId>>
    BY <1>1 DEF clientVars, idVars
  <1>3. toServer \in Seq(Commands) /\ IdInv
    BY DEF TalkInv, ChannelTypeOK
  <1>4. /\ \A j \in DOMAIN toServer' : \A x, n : Before(j + 1, x, n) <=>
              Before(j, x, n)' \/ (toServer[1].buffer = x /\ toServer[1].cmd \in n)
        /\ \A x, n : OnWay(x, n) <=>
              OnWay(x, n)' \/ (toServer[1].buffer = x /\ toServer[1].cmd \in n)
    BY <1>1, <1>3, TakenBefore
  <1>5. \A j \in DOMAIN toServer' : j + 1 \in DOMAIN toServer /\ toServer'[j] = toServer[j + 1]
                                    /\ toServer'[j] \in Commands
    BY <1>1, <1>3, Shrunk
  <1>6. knownSize \in Nat /\ mCurrentId \in Nat /\ h.id \in Nat /\ knownSize' \in Nat
    <2>1. knownSize \in 1..(MaxBuffers + 1) /\ mCurrentId \in 1..(MaxBuffers + 1)
      BY DEF WireTypeOK
    <2> QED
      BY <1>1, <2>1, WireBounds DEF Ids
  <1>7. knownSize' <= mCurrentId'
    <2>1. h.id \in 1..(mCurrentId - 1)
      BY <1>1, <1>3 DEF IdInv
    <2> QED
      BY <1>1, <1>2, <1>6, <2>1 DEF NumberInv
  <1>8. ASSUME NEW i \in Int, i >= knownSize', NEW b \in Buffers, id[b] = i
        PROVE  ~(h.buffer = b /\ h.cmd = "Create")
    BY <1>1, <1>6, <1>8
  <1>9. ASSUME NEW j \in DOMAIN toServer', NEW c, c = toServer'[j], c.cmd = "Create",
               NEW i \in knownSize'..(c.id - 1)
        PROVE  \E b \in Buffers : id'[b] = i /\ Before(j, b, {"Create"})'
    <2>1. c = toServer[j + 1] /\ j + 1 \in DOMAIN toServer /\ c \in Commands
      BY <1>5, <1>9
    <2>2. c.id \in Nat
      BY <2>1, CommandTypes, WireBounds DEF Ids
    <2>3. i \in knownSize..(c.id - 1)
      BY <1>1, <1>6, <1>9, <2>2
    <2>4. PICK b \in Buffers : id[b] = i /\ Before(j + 1, b, {"Create"})
      BY <1>9, <2>1, <2>3 DEF NumberInv
    <2>5. i \in Int /\ i >= knownSize'
      BY <1>6, <1>9, <2>2
    <2>6. Before(j, b, {"Create"})'
      BY <1>1, <1>4, <1>8, <2>4, <2>5
    <2> QED
      BY <1>2, <2>4, <2>6
  <1>10. ASSUME ~mDisconnected', NEW i \in knownSize'..(mCurrentId' - 1)
         PROVE  \E b \in Buffers : id'[b] = i /\ OnWay(b, {"Create"})'
    <2>1. i \in knownSize..(mCurrentId - 1) /\ i \in Int /\ i >= knownSize'
      BY <1>1, <1>2, <1>6, <1>10
    <2>2. PICK b \in Buffers : id[b] = i /\ OnWay(b, {"Create"})
      BY <1>1, <1>10, <2>1 DEF NumberInv
    <2>3. OnWay(b, {"Create"})'
      BY <1>1, <1>4, <1>8, <2>1, <2>2
    <2> QED
      BY <1>2, <2>2, <2>3
  <1> QED
    BY <1>7, <1>9, <1>10, EachNumbered

LEMMA ReleasesTaken ==
    ASSUME WireTypeOK, TalkInv, ReleaseInv, Running', ServerHandles
    PROVE  ReleaseInv'
  <1> PICK h : h = Head(toServer)
    OBVIOUS
  <1>1. /\ toServer # <<>> /\ toServer' = Tail(toServer) /\ h = toServer[1] /\ h.id \in Ids
        /\ 1 \in DOMAIN toServer /\ h.cmd \in Names
        /\ h.buffer \in Buffers /\ h.id = id[h.buffer] /\ IsCreated(h.buffer)
        /\ UNCHANGED <<clientVars, requestVars, idVars, mDisconnected>>
        /\ h.cmd # "Create" => InServer(h.buffer)
        /\ InServer(h.buffer)' <=> h.cmd # "DestroyObject"
        /\ \A x \in Buffers : x # h.buffer => (InServer(x)' <=> InServer(x)) /\ phase'[x] = phase[x]
    BY ServerShape
  <1>2. UNCHANGED <<id, created, live, mDisconnected>>
    BY <1>1 DEF clientVars
  <1>3. toServer \in Seq(Commands) /\ CommandInv /\ KnownInv
    BY DEF TalkInv, ChannelTypeOK
  <1>4. /\ \A j \in DOMAIN toServer' : \A x, n : Before(j + 1, x, n) <=>
              Before(j, x, n)' \/ (toServer[1].buffer = x /\ toServer[1].cmd \in n)
        /\ \A x, n : OnWay(x, n) <=>
              OnWay(x, n)' \/ (toServer[1].buffer = x /\ toServer[1].cmd \in n)
    BY <1>1, <1>3, TakenBefore
  <1>5. \A j \in DOMAIN toServer' : j \in Nat /\ j >= 1 /\ j + 1 \in DOMAIN toServer
                                    /\ toServer'[j] = toServer[j + 1]
    BY <1>1, <1>3, Shrunk
  <1>6. ASSUME NEW a \in Buffers, Done(a)
        PROVE  Done(a)'
    <2>1. a # h.buffer /\ ~InServer(a) /\ ~OnWay(a, Names)
      BY <1>1, <1>6 DEF Done, OnWay
    <2>2. ~InServer(a)' /\ ~OnWay(a, Names)'
      BY <1>1, <1>4, <2>1
    <2> QED
      BY <2>2 DEF Done
  <1>7. ASSUME h.cmd = "DestroyObject"
        PROVE  Done(h.buffer)'
    <2>1. ~InServer(h.buffer)'
      BY <1>1, <1>7
    <2>2. ASSUME NEW k \in DOMAIN toServer', toServer'[k].buffer = h.buffer
          PROVE  FALSE
      <3>1. PICK m : m = toServer[k + 1]
        OBVIOUS
      <3>2. InOrder(k + 1, m) /\ m.buffer = h.buffer
        BY <1>3, <1>5, <2>2, <3>1 DEF CommandInv
      <3>3. 1 \in 1..(k + 1 - 1)
        BY <1>5
      <3> QED
        BY <1>1, <1>7, <3>2, <3>3 DEF InOrder
    <2>3. PICK y : y = h.buffer
      OBVIOUS
    <2>4. ~OnWay(y, Names)' /\ ~InServer(y)'
      BY <2>1, <2>2, <2>3 DEF OnWay
    <2>5. Done(y)'
      BY <2>4 DEF Done
    <2> QED
      BY <2>3, <2>5
  <1>8. ASSUME NEW a \in Buffers, Done(a) \/ (h.cmd = "DestroyObject" /\ h.buffer = a)
        PROVE  Done(a)'
    BY <1>6, <1>7, <1>8
  <1>9. ASSUME NEW j \in DOMAIN toServer', NEW c, c = toServer'[j], c.cmd = "Create",
               NEW a \in Buffers, a < c.buffer, id'[a] = c.id
        PROVE  Done(a)' \/ Before(j, a, {"DestroyObject"})'
    <2>1. c = toServer[j + 1] /\ j + 1 \in DOMAIN toServer
      BY <1>5, <1>9
    <2>2. Done(a) \/ Before(j + 1, a, {"DestroyObject"})
      BY <1>2, <1>9, <2>1 DEF ReleaseInv
    <2>3. \/ Done(a) \/ Before(j, a, {"DestroyObject"})'
          \/ (h.buffer = a /\ h.cmd \in {"DestroyObject"})
      BY <1>1, <1>4, <2>2
    <2> QED
      BY <1>8, <2>3
  <1>10. ASSUME NEW a \in Buffers, NEW b \in Buffers, a < b, IsCreated(b)', id'[a] = id'[b]
         PROVE  ~live'[a] /\ (phase'[b] # "none" => Done(a)')
    <2>1. IsCreated(b) /\ id[a] = id[b]
      BY <1>2, <1>10 DEF IsCreated
    <2>2. ~live[a] /\ (phase[b] # "none" => Done(a))
      BY <1>10, <2>1 DEF ReleaseInv
    <2>3. ASSUME phase'[b] # "none", phase[b] = "none"
          PROVE  Done(a)
      <3>1. b = h.buffer
        BY <1>1, <2>3
      <3>2. h.cmd = "Create"
        BY <1>1, <1>3, <2>3, <3>1 DEF InServer, KnownInv
      <3>3. Done(a) \/ Before(1, a, {"DestroyObject"})
        BY <1>1, <1>10, <2>1, <3>1, <3>2 DEF ReleaseInv
      <3> QED
        BY <3>3, FirstBefore
    <2> QED
      BY <1>2, <1>6, <2>2, <2>3
  <1>11. ASSUME ~mDisconnected', NEW b \in Buffers, IsCreated(b)', ~live'[b]
         PROVE  Done(b)' \/ OnWay(b, {"DestroyObject"})'
    <2>1. Done(b) \/ OnWay(b, {"DestroyObject"})
      BY <1>2, <1>11 DEF ReleaseInv, IsCreated
    <2>2. \/ Done(b) \/ OnWay(b, {"DestroyObject"})'
          \/ (h.buffer = b /\ h.cmd \in {"DestroyObject"})
      BY <1>1, <1>4, <2>1
    <2> QED
      BY <1>8, <2>2
  <1> QED
    BY <1>9, <1>10, <1>11, EachReleased

(* Nothing is sent or taken.                                               *)
LEMMA NumbersKept ==
    ASSUME NumberInv, ReleaseInv,
           UNCHANGED <<created, id, mCurrentId, knownSize, toServer>>,
           \A x \in Buffers : /\ InServer(x)' <=> InServer(x)
                              /\ live'[x] => live[x]
                              /\ phase'[x] # "none" => phase[x] # "none",
           mDisconnected' \/ (~mDisconnected /\ live' = live)
    PROVE  NumberInv' /\ ReleaseInv'
  <1>1. /\ \A j, x, n : Before(j, x, n)' <=> Before(j, x, n)
        /\ \A x, n : OnWay(x, n)' <=> OnWay(x, n)
    BY DEF Before, OnWay
  <1>2. \A x \in Buffers : Done(x)' <=> Done(x)
    BY <1>1 DEF Done
  <1>3. \A x \in Buffers : IsCreated(x)' <=> IsCreated(x)
    BY DEF IsCreated
  <1>4. NumberInv'
    <2>1. knownSize' <= mCurrentId'
      BY DEF NumberInv
    <2>2. ASSUME NEW j \in DOMAIN toServer', NEW c, c = toServer'[j], c.cmd = "Create",
                 NEW i \in knownSize'..(c.id - 1)
          PROVE  \E b \in Buffers : id'[b] = i /\ Before(j, b, {"Create"})'
      <3>1. PICK b \in Buffers : id[b] = i /\ Before(j, b, {"Create"})
        BY <2>2 DEF NumberInv
      <3> QED
        BY <1>1, <3>1
    <2>3. ASSUME ~mDisconnected', NEW i \in knownSize'..(mCurrentId' - 1)
          PROVE  \E b \in Buffers : id'[b] = i /\ OnWay(b, {"Create"})'
      <3>1. PICK b \in Buffers : id[b] = i /\ OnWay(b, {"Create"})
        BY <2>3 DEF NumberInv
      <3> QED
        BY <1>1, <3>1
    <2> QED
      BY <2>1, <2>2, <2>3, EachNumbered
  <1>5. ReleaseInv'
    <2>1. ASSUME NEW j \in DOMAIN toServer', NEW c, c = toServer'[j], c.cmd = "Create",
                 NEW a \in Buffers, a < c.buffer, id'[a] = c.id
          PROVE  Done(a)' \/ Before(j, a, {"DestroyObject"})'
      <3>1. Done(a) \/ Before(j, a, {"DestroyObject"})
        BY <2>1 DEF ReleaseInv
      <3> QED
        BY <1>1, <1>2, <3>1
    <2>2. ASSUME NEW a \in Buffers, NEW b \in Buffers, a < b, IsCreated(b)', id'[a] = id'[b]
          PROVE  ~live'[a] /\ (phase'[b] # "none" => Done(a)')
      <3>1. ~live[a] /\ (phase[b] # "none" => Done(a))
        BY <1>3, <2>2 DEF ReleaseInv
      <3> QED
        BY <1>2, <3>1
    <2>3. ASSUME ~mDisconnected', NEW b \in Buffers, IsCreated(b)', ~live'[b]
          PROVE  Done(b)' \/ OnWay(b, {"DestroyObject"})'
      <3>1. Done(b) \/ OnWay(b, {"DestroyObject"})
        BY <1>3, <2>3 DEF ReleaseInv
      <3> QED
        BY <1>1, <1>2, <3>1
    <2> QED
      BY <2>1, <2>2, <2>3, EachReleased
  <1> QED
    BY <1>4, <1>5

(* Commands for a buffer the client has are sent.                          *)
LEMMA NumbersSent ==
    ASSUME ChannelTypeOK, LiveInv, NumberInv, ReleaseInv, NEW b \in Buffers, live[b], IsCreated(b),
           NEW cmds \in Seq(Commands), Send(cmds),
           UNCHANGED <<created, id, mCurrentId, knownSize, known, phase, mDisconnected>>,
           \A x \in Buffers : x # b => live'[x] = live[x],
           \A i \in DOMAIN cmds : cmds[i].buffer = b /\ cmds[i].cmd # "Create",
           ~live'[b] => \E i \in DOMAIN cmds : cmds[i].cmd = "DestroyObject"
    PROVE  NumberInv' /\ ReleaseInv'
  <1>1. \A x : InServer(x)' <=> InServer(x)
    BY DEF InServer, IsCreated
  <1>2. CASE mDisconnected
    <2>1. toServer' = toServer
      BY <1>2 DEF Send
    <2> QED
      BY <1>1, <1>2, <2>1, NumbersKept
  <1>3. CASE ~mDisconnected
    <2>1. toServer' = toServer \o cmds /\ toServer \in Seq(Commands)
      BY <1>3 DEF Send, ChannelTypeOK
    <2>2. /\ \A j \in DOMAIN toServer : \A x, n : Before(j, x, n)' <=> Before(j, x, n)
          /\ \A x, n : OnWay(x, n)' <=>
                \/ OnWay(x, n)
                \/ \E i \in DOMAIN cmds : cmds[i].buffer = x /\ cmds[i].cmd \in n
      BY <2>1, SentBefore
    <2>3. \A j \in DOMAIN toServer' :
              \/ j \in DOMAIN toServer /\ toServer'[j] = toServer[j]
              \/ \E i \in DOMAIN cmds : toServer'[j] = cmds[i]
      BY <2>1, Grown
    <2>4. \A j \in DOMAIN toServer' : toServer'[j].cmd = "Create" =>
              j \in DOMAIN toServer /\ toServer'[j] = toServer[j]
      BY <2>3
    <2>5. \A x \in Buffers : IsCreated(x)' <=> IsCreated(x)
      BY DEF IsCreated
    <2>6. ASSUME NEW a \in Buffers, Done(a)
          PROVE  Done(a)'
      <3>1. a # b
        BY <1>3, <2>6 DEF Done, LiveInv, OnWay, Names
      <3> QED
        BY <1>1, <2>2, <2>6, <3>1 DEF Done
    <2>7. NumberInv'
      <3>1. knownSize' <= mCurrentId'
        BY DEF NumberInv
      <3>2. ASSUME NEW j \in DOMAIN toServer', NEW c, c = toServer'[j], c.cmd = "Create",
                   NEW i \in knownSize'..(c.id - 1)
            PROVE  \E y \in Buffers : id'[y] = i /\ Before(j, y, {"Create"})'
        <4>1. c = toServer[j] /\ j \in DOMAIN toServer
          BY <2>4, <3>2
        <4>2. PICK y \in Buffers : id[y] = i /\ Before(j, y, {"Create"})
          BY <3>2, <4>1 DEF NumberInv
        <4> QED
          BY <2>2, <4>1, <4>2
      <3>3. ASSUME NEW i \in knownSize'..(mCurrentId' - 1)
            PROVE  \E y \in Buffers : id'[y] = i /\ OnWay(y, {"Create"})'
        <4>1. PICK y \in Buffers : id[y] = i /\ OnWay(y, {"Create"})
          BY <1>3, <3>3 DEF NumberInv
        <4> QED
          BY <2>2, <4>1
      <3> QED
        BY <3>1, <3>2, <3>3, EachNumbered
    <2>8. ReleaseInv'
      <3>1. ASSUME NEW j \in DOMAIN toServer', NEW c, c = toServer'[j], c.cmd = "Create",
                   NEW a \in Buffers, a < c.buffer, id'[a] = c.id
            PROVE  Done(a)' \/ Before(j, a, {"DestroyObject"})'
        <4>1. c = toServer[j] /\ j \in DOMAIN toServer
          BY <2>4, <3>1
        <4>2. Done(a) \/ Before(j, a, {"DestroyObject"})
          BY <3>1, <4>1 DEF ReleaseInv
        <4> QED
          BY <2>2, <2>6, <4>1, <4>2
      <3>2. ASSUME NEW a \in Buffers, NEW y \in Buffers, a < y, IsCreated(y)', id'[a] = id'[y]
            PROVE  ~live'[a] /\ (phase'[y] # "none" => Done(a)')
        <4>1. ~live[a] /\ (phase[y] # "none" => Done(a))
          BY <2>5, <3>2 DEF ReleaseInv
        <4>2. a # b
          BY <4>1
        <4> QED
          BY <2>6, <4>1, <4>2
      <3>3. ASSUME NEW y \in Buffers, IsCreated(y)', ~live'[y]
            PROVE  Done(y)' \/ OnWay(y, {"DestroyObject"})'
        <4>1. CASE y = b
          BY <2>2, <3>3, <4>1
        <4>2. CASE y # b
          <5>1. Done(y) \/ OnWay(y, {"DestroyObject"})
            BY <1>3, <2>5, <3>3, <4>2 DEF ReleaseInv
          <5> QED
            BY <2>2, <2>6, <5>1
        <4> QED
          BY <4>1, <4>2
      <3> QED
        BY <3>1, <3>2, <3>3, EachReleased
    <2> QED
      BY <2>7, <2>8
  <1> QED
    BY <1>2, <1>3

LEMMA ClientNumbers ==
    ASSUME WireTypeOK, TalkInv, NumberInv, ReleaseInv, NEW b \in Buffers,
           Unmap(b) \/ Destroy(b) \/ Release(b)
    PROVE  NumberInv' /\ ReleaseInv'
  <1>1. ChannelTypeOK /\ LiveInv /\ IdInv
    BY DEF TalkInv
  <1>2. live[b]
    BY DEF Unmap, Destroy, Release
  <1>3. IsCreated(b)
    BY <1>1, <1>2, LiveIds
  <1>4. live \in [Buffers -> BOOLEAN]
    BY DEF WireTypeOK
  <1>5. UNCHANGED <<created, id, mCurrentId, knownSize, known, phase, mDisconnected>>
    BY DEF Unmap, Destroy, Release, serverVars, nativeVars, idVars
  <1>6. CASE Unmap(b)
    <2>1. PICK cmds : cmds = IF WillFlush(b)
                              THEN <<Command("UpdateMappedData", b), Command("Unmap", b)>>
                              ELSE <<Command("Unmap", b)>>
      OBVIOUS
    <2>2. /\ cmds \in Seq(Commands) /\ Send(cmds)
          /\ \A i \in DOMAIN cmds : /\ cmds[i].buffer = b /\ cmds[i].id = id[b]
                                    /\ cmds[i].cmd \in {"UpdateMappedData", "Unmap"}
      BY <1>1, <1>6, <2>1, UnmapSends
    <2>3. live' = live
      BY <1>6 DEF Unmap
    <2> QED
      BY <1>1, <1>2, <1>3, <1>5, <2>2, <2>3, NumbersSent
  <1>7. CASE Destroy(b)
    <2>1. PICK cmds : cmds = <<Command("Destroy", b)>>
      OBVIOUS
    <2>2. /\ cmds \in Seq(Commands)
          /\ \A i \in DOMAIN cmds : cmds[i].buffer = b /\ cmds[i].cmd = "Destroy"
      BY <1>1, <1>2, <2>1, OneSent DEF Names
    <2>3. live' = live /\ Send(cmds)
      BY <1>7, <2>1 DEF Destroy
    <2> QED
      BY <1>1, <1>2, <1>3, <1>5, <2>2, <2>3, NumbersSent
  <1>8. CASE Release(b)
    <2>1. PICK cmds : cmds = <<Command("DestroyObject", b)>>
      OBVIOUS
    <2>2. /\ cmds \in Seq(Commands) /\ Len(cmds) = 1
          /\ \A i \in DOMAIN cmds : cmds[i].buffer = b /\ cmds[i].cmd = "DestroyObject"
      BY <1>1, <1>2, <2>1, OneSent DEF Names
    <2>3. live' = [live EXCEPT ![b] = FALSE] /\ Send(cmds)
      BY <1>8, <2>1 DEF Release
    <2>4. \E i \in DOMAIN cmds : cmds[i].cmd = "DestroyObject"
      BY <2>2
    <2>5. \A x \in Buffers : x # b => live'[x] = live[x]
      BY <1>4, <2>3
    <2> QED
      BY <1>1, <1>2, <1>3, <1>5, <2>2, <2>3, <2>4, <2>5, NumbersSent
  <1> QED
    BY <1>6, <1>7, <1>8

(* The one command of MapAsync.                                            *)
LEMMA MapAsyncSends ==
    ASSUME WireTypeOK, TalkInv, NEW r \in Requests, NEW b \in Buffers, MapAsync(r, b)
    PROVE  /\ live[b] /\ IsCreated(b) /\ answer[r] = "None" /\ nativeReply[r] = "None"
           /\ ~MapOnWay(r) /\ ~AnswerOnWay(r)
           /\ \E cmds \in Seq(Commands) :
                 /\ Send(cmds) /\ DOMAIN cmds = {1}
                 /\ cmds[1].buffer = b /\ cmds[1].cmd = "MapAsync" /\ cmds[1].request = r
           /\ UNCHANGED <<created, kind, id, live, mMapState, mReadHandle, mWriteHandle, clientStatus,
                          mCurrentId, mDisconnected, toClient, known, knownSize, phase, nativeReply>>
           /\ reqBuffer'[r] = b
           /\ \A q \in Requests : q # r => reqBuffer'[q] = reqBuffer[q] /\ answer'[q] = answer[q]
           /\ ~mDisconnected => answer'[r] = "Waiting"
           /\ mDisconnected => answer'[r] = "DeviceLost"
  <1>1. ChannelTypeOK /\ IdInv /\ MapCommandInv /\ ReturnInv
    BY DEF TalkInv
  <1>2. PICK c : c = [cmd |-> "MapAsync", id |-> id[b], buffer |-> b, serial |-> mSerial[b] + 1,
                      request |-> r]
    OBVIOUS
  <1>3. live[b] /\ answer[r] = "None" /\ reqSerial[r] = 0 /\ nativeReply[r] = "None"
    BY MapAsyncEffects
  <1>4. IsCreated(b) /\ id[b] \in Ids
    BY <1>1, <1>3, LiveIds
  <1>5. mSerial[b] + 1 \in Nat
    <2>1. mSerial[b] \in 0..MaxRequests
      BY DEF WireTypeOK
    <2> QED
      BY <2>1, WireBounds
  <1>6. c \in Commands
    BY <1>2, <1>4, <1>5, CommandsMade
  <1>7. c.buffer = b /\ c.cmd = "MapAsync" /\ c.request = r
    BY <1>2
  <1>8. PICK cmds : cmds = <<c>>
    OBVIOUS
  <1>9. cmds \in Seq(Commands) /\ DOMAIN cmds = {1} /\ cmds[1] = c
    BY <1>6, <1>8
  <1>10. toServer' = IF mDisconnected THEN toServer
                     ELSE toServer \o <<[cmd |-> "MapAsync", id |-> id[b], buffer |-> b,
                                         serial |-> mSerial[b] + 1, request |-> r]>>
    BY DEF MapAsync, Send, NextSerial
  <1>11. Send(cmds)
    <2>1. cmds = <<[cmd |-> "MapAsync", id |-> id[b], buffer |-> b,
                    serial |-> mSerial[b] + 1, request |-> r]>>
      BY <1>2, <1>8
    <2> QED
      BY <1>10, <2>1, Zenon DEF Send
  <1>12. ~MapOnWay(r)
    <2>1. \A j \in DOMAIN toServer : toServer[j].cmd = "MapAsync" => toServer[j].request \in Requests
      BY <1>1, CommandTypes, LenProperties DEF ChannelTypeOK
    <2>2. reqSerial[r] \in 0..MaxRequests
      BY DEF WireTypeOK
    <2> QED
      BY <1>1, <1>3, <2>1 DEF MapCommandInv, MapOnWay
  <1>13. ~AnswerOnWay(r)
    BY <1>1, <1>3 DEF ReturnInv, AnswerOnWay
  <1>14. UNCHANGED <<created, kind, id, generation, live, mMapState, mReadHandle, mWriteHandle,
                     clientStatus, idVars, mDisconnected, toClient, serverVars, nativeVars,
                     wireError, unflushed, commands>>
    BY MapAsyncEffects
  <1>15. UNCHANGED <<created, kind, id, live, mMapState, mReadHandle, mWriteHandle, clientStatus,
                     mCurrentId, mDisconnected, toClient, known, knownSize, phase, nativeReply>>
    BY <1>14 DEF idVars, serverVars, nativeVars
  <1>16. /\ reqBuffer'[r] = b
         /\ \A q \in Requests : q # r => reqBuffer'[q] = reqBuffer[q] /\ answer'[q] = answer[q]
         /\ ~mDisconnected => answer'[r] = "Waiting"
         /\ mDisconnected => answer'[r] = "DeviceLost"
    BY MapAsyncEffects, ZenonT(30)
  <1> QED
    BY <1>3, <1>4, <1>7, <1>9, <1>11, <1>12, <1>13, <1>15, <1>16

LEMMA MapAsyncNumbers ==
    ASSUME WireTypeOK, TalkInv, NumberInv, ReleaseInv, NEW r \in Requests, NEW b \in Buffers,
           MapAsync(r, b)
    PROVE  NumberInv' /\ ReleaseInv'
  <1>1. ChannelTypeOK /\ LiveInv /\ IdInv
    BY DEF TalkInv
  <1>2. /\ live[b] /\ IsCreated(b)
        /\ UNCHANGED <<created, id, live, mCurrentId, mDisconnected, known, knownSize, phase>>
    BY MapAsyncSends
  <1>3. PICK cmds \in Seq(Commands) :
          /\ Send(cmds) /\ DOMAIN cmds = {1}
          /\ cmds[1].buffer = b /\ cmds[1].cmd = "MapAsync"
    BY MapAsyncSends
  <1> QED
    BY <1>1, <1>2, <1>3, NumbersSent

LEMMA DisconnectNumbers ==
    ASSUME NumberInv, ReleaseInv, Disconnect
    PROVE  NumberInv' /\ ReleaseInv'
  <1>1. /\ toServer' = <<>> /\ mDisconnected'
        /\ UNCHANGED <<created, id, live, mCurrentId, known, knownSize, phase>>
    BY DEF Disconnect, clientVars, idVars, serverVars, nativeVars
  <1>2. DOMAIN toServer' = {}
    BY <1>1
  <1>3. NumberInv'
    BY <1>1, <1>2 DEF NumberInv
  <1>4. \A x \in Buffers : Done(x) => Done(x)'
    BY <1>1, <1>2 DEF Done, OnWay, InServer, IsCreated
  <1>5. ASSUME NEW a \in Buffers, NEW y \in Buffers, a < y, IsCreated(y)', id'[a] = id'[y]
        PROVE  ~live'[a] /\ (phase'[y] # "none" => Done(a)')
    <2>1. ~live[a] /\ (phase[y] # "none" => Done(a))
      BY <1>1, <1>5 DEF ReleaseInv, IsCreated
    <2> QED
      BY <1>1, <1>4, <2>1
  <1>6. ReleaseInv'
    BY <1>1, <1>2, <1>5 DEF ReleaseInv
  <1> QED
    BY <1>3, <1>6

(* A step of the device or of the client's handler.                        *)
LEMMA DeviceNumbers ==
    ASSUME WireTypeOK, TalkInv, NumberInv, ReleaseInv,
           \/ OnMapAsyncCallback \/ LoseDevice \/ UNCHANGED vars
           \/ \E b \in Buffers : Grant(b) \/ AnswerLost(b)
    PROVE  NumberInv' /\ ReleaseInv'
  <1>1. /\ UNCHANGED <<created, id, mCurrentId, knownSize, toServer, live, mDisconnected>>
        /\ \A x \in Buffers : /\ InServer(x)' <=> InServer(x)
                              /\ phase'[x] # "none" => phase[x] # "none"
    <2>1. CASE OnMapAsyncCallback
      <3>1. UNCHANGED <<created, id, live, idVars, mDisconnected, toServer, serverVars, nativeVars>>
        BY <2>1, CallbackEffect
      <3> QED
        BY <3>1 DEF idVars, serverVars, nativeVars, InServer, IsCreated
    <2>2. CASE LoseDevice \/ UNCHANGED vars
      <3>1. UNCHANGED <<created, id, live, idVars, mDisconnected, toServer, serverVars, phase>>
        BY <2>2 DEF LoseDevice, vars, clientVars, wireVars, nativeVars
      <3> QED
        BY <3>1 DEF idVars, serverVars, InServer, IsCreated
    <2>3. ASSUME NEW b \in Buffers, Grant(b) \/ AnswerLost(b)
          PROVE  /\ UNCHANGED <<created, id, mCurrentId, knownSize, toServer, live, mDisconnected>>
                 /\ \A x \in Buffers : /\ InServer(x)' <=> InServer(x)
                                       /\ phase'[x] # "none" => phase[x] # "none"
      <3>1. /\ phase[b] = "pending"
            /\ UNCHANGED <<clientVars, idVars, mDisconnected, knownSize, toServer>>
            /\ \A i \in Ids : /\ known'[i].handle = known[i].handle
                              /\ known'[i].state = known[i].state
            /\ NativeAnswers(b, "Success", "mapped") \/ NativeAnswers(b, "DeviceLost", "lost")
        BY <2>3, DeviceEffect
      <3>2. UNCHANGED <<created, id, live, mCurrentId, mDisconnected, knownSize, toServer>>
        BY <3>1 DEF clientVars, idVars
      <3>3. \A x \in Buffers : IsCreated(x) => id[x] \in Ids
        BY LiveIds DEF TalkInv
      <3>4. \A x \in Buffers : InServer(x)' <=> InServer(x)
        BY <3>1, <3>2, <3>3 DEF InServer, IsCreated
      <3>5. phase \in [Buffers -> {"none", "error", "unmapped", "pending", "mapped", "lost", "gone"}]
        BY DEF WireTypeOK
      <3>6. \A x \in Buffers : phase'[x] # "none" => phase[x] # "none"
        BY <3>1, <3>5 DEF NativeAnswers
      <3> QED
        BY <3>2, <3>4, <3>6
    <2> QED
      BY <2>1, <2>2, <2>3
  <1> QED
    BY <1>1, NumbersKept

(* A new buffer, and the one command of its creation.                      *)
LEMMA CreateSends ==
    ASSUME WireTypeOK, TalkInv, NEW k \in Kinds, CreateBuffer(k), NEW b, b = created + 1
    PROVE  /\ b \in Buffers /\ ~IsCreated(b) /\ IsCreated(b)' /\ ~live[b] /\ phase[b] = "none"
           /\ NewId \in Ids /\ id'[b] = NewId /\ live'[b] /\ kind'[b] = k /\ ~InServer(b)'
           /\ mMapState'[b] = IF AtCreation(k) THEN "MappedAtCreation" ELSE "Unmapped"
           /\ mReadHandle'[b] = MapsRead(k) /\ mWriteHandle'[b] = (MapsWrite(k) \/ AtCreation(k))
           /\ \A x \in Buffers : x # b =>
                 /\ id'[x] = id[x] /\ live'[x] = live[x] /\ kind'[x] = kind[x]
                 /\ mMapState'[x] = mMapState[x] /\ mReadHandle'[x] = mReadHandle[x]
                 /\ mWriteHandle'[x] = mWriteHandle[x]
                 /\ IsCreated(x)' <=> IsCreated(x)
                 /\ InServer(x)' <=> InServer(x)
           /\ UNCHANGED <<known, knownSize, phase, nativeReply, mDisconnected, toClient, reqBuffer,
                          answer, clientStatus>>
           /\ \E cmds \in Seq(Commands) :
                 /\ Send(cmds) /\ DOMAIN cmds = {1} /\ Len(cmds) = 1
                 /\ cmds[1].buffer = b /\ cmds[1].cmd = "Create" /\ cmds[1].id = NewId
           /\ \A x \in Buffers : x < b => IsCreated(x)
  <1>0. IdInv /\ KnownInv
    BY DEF TalkInv
  <1>1. /\ b \in Buffers /\ NewId \in Ids /\ NewGeneration(NewId) \in 0..MaxGeneration
    BY <1>0, NewIdTypes DEF CreateBuffer
  <1>2. created \in Nat /\ created' = b
    BY WireBounds DEF WireTypeOK, CreateBuffer
  <1>3. /\ ~IsCreated(b) /\ IsCreated(b)' /\ \A x \in Buffers : x < b => IsCreated(x)
        /\ \A x \in Buffers : x # b => (IsCreated(x)' <=> IsCreated(x))
    BY <1>1, <1>2 DEF IsCreated, Buffers
  <1>4. ~live[b] /\ phase[b] = "none"
    BY <1>0, <1>1, <1>3 DEF IdInv
  <1>5. /\ id' = [id EXCEPT ![b] = NewId] /\ live' = [live EXCEPT ![b] = TRUE]
        /\ kind' = [kind EXCEPT ![b] = k]
        /\ mReadHandle' = [mReadHandle EXCEPT ![b] = MapsRead(k)]
        /\ mWriteHandle' = [mWriteHandle EXCEPT ![b] = MapsWrite(k) \/ AtCreation(k)]
        /\ mMapState' = [mMapState EXCEPT ![b] =
                IF AtCreation(k) THEN "MappedAtCreation" ELSE "Unmapped"]
        /\ UNCHANGED <<known, knownSize, phase, nativeReply, mDisconnected, toClient, reqBuffer,
                       answer, clientStatus>>
    BY DEF CreateBuffer, NewId, requestVars, nativeVars, serverVars
  <1>6. /\ id \in [Buffers -> 0..MaxBuffers] /\ live \in [Buffers -> BOOLEAN]
        /\ kind \in [Buffers -> AllKinds]
        /\ mMapState \in [Buffers -> {"Unmapped", "MappedForRead", "MappedForWrite",
                                      "MappedAtCreation"}]
        /\ mReadHandle \in [Buffers -> BOOLEAN] /\ mWriteHandle \in [Buffers -> BOOLEAN]
    BY DEF WireTypeOK
  <1>7. /\ id'[b] = NewId /\ live'[b] /\ kind'[b] = k
        /\ \A x \in Buffers : x # b => id'[x] = id[x] /\ live'[x] = live[x] /\ kind'[x] = kind[x]
    BY <1>1, <1>5, <1>6
  <1>8. /\ mMapState'[b] = IF AtCreation(k) THEN "MappedAtCreation" ELSE "Unmapped"
        /\ mReadHandle'[b] = MapsRead(k) /\ mWriteHandle'[b] = (MapsWrite(k) \/ AtCreation(k))
        /\ \A x \in Buffers : x # b => /\ mMapState'[x] = mMapState[x]
                                       /\ mReadHandle'[x] = mReadHandle[x]
                                       /\ mWriteHandle'[x] = mWriteHandle[x]
    BY <1>1, <1>5, <1>6
  <1>9. \A x \in Buffers : x # b => (InServer(x)' <=> InServer(x))
    BY <1>3, <1>5, <1>7 DEF InServer
  <1>10. ~InServer(b)'
    BY <1>0, <1>1, <1>3, <1>5, <1>7 DEF InServer, KnownInv
  <1>11. PICK c : c = [cmd |-> "Create", id |-> NewId, generation |-> NewGeneration(NewId),
                       buffer |-> b]
    OBVIOUS
  <1>12. c \in Commands
    BY <1>1, <1>11, CommandsMade
  <1>13. c.cmd = "Create" /\ c.buffer = b /\ c.id = NewId
    BY <1>11
  <1>14. PICK cmds : cmds = <<c>>
    OBVIOUS
  <1>15. Send(cmds)
    BY <1>11, <1>14 DEF CreateBuffer, NewId
  <1>16. cmds \in Seq(Commands) /\ DOMAIN cmds = {1} /\ Len(cmds) = 1 /\ cmds[1] = c
    BY <1>12, <1>14
  <1> QED
    BY <1>1, <1>3, <1>4, <1>5, <1>7, <1>8, <1>9, <1>10, <1>13, <1>15, <1>16

LEMMA CreateNumbers ==
    ASSUME WireTypeOK, TalkInv, NumberInv, ReleaseInv, NEW k \in Kinds, CreateBuffer(k)
    PROVE  NumberInv' /\ ReleaseInv'
  <1>0. ChannelTypeOK /\ IdInv /\ CommandInv
    BY DEF TalkInv
  <1>1. PICK b : b = created + 1
    OBVIOUS
  <1>2. /\ b \in Buffers /\ ~IsCreated(b) /\ IsCreated(b)' /\ ~live[b] /\ phase[b] = "none"
        /\ NewId \in Ids /\ id'[b] = NewId /\ live'[b] /\ ~InServer(b)'
        /\ \A x \in Buffers : x # b => /\ id'[x] = id[x] /\ live'[x] = live[x]
                                       /\ IsCreated(x)' <=> IsCreated(x)
                                       /\ InServer(x)' <=> InServer(x)
        /\ UNCHANGED <<knownSize, phase, mDisconnected>>
        /\ \A x \in Buffers : x < b => IsCreated(x)
    BY <1>1, CreateSends
  <1>3. PICK cmds \in Seq(Commands) :
          /\ Send(cmds) /\ DOMAIN cmds = {1} /\ Len(cmds) = 1
          /\ cmds[1].buffer = b /\ cmds[1].cmd = "Create" /\ cmds[1].id = NewId
    BY <1>1, CreateSends
  <1>4. mCurrentId' = (IF mFreeIds = <<>> THEN mCurrentId + 1 ELSE mCurrentId)
    BY DEF CreateBuffer
  <1>5. knownSize \in Nat /\ mCurrentId \in Nat /\ NewId \in Nat /\ b \in Nat
        /\ created \in Nat
    <2>1. /\ knownSize \in 1..(MaxBuffers + 1) /\ mCurrentId \in 1..(MaxBuffers + 1)
          /\ created \in 0..MaxBuffers
      BY DEF WireTypeOK
    <2> QED
      BY <1>2, <2>1, WireBounds DEF Ids, Buffers
  <1>6. /\ mFreeIds = <<>> => NewId = mCurrentId
        /\ mFreeIds # <<>> => NewId < mCurrentId /\ objectAt[NewId] = 0
    <2>1. mFreeIds # <<>> => Len(mFreeIds) \in DOMAIN mFreeIds
      BY <1>0, NewIdTypes DEF CreateBuffer
    <2> QED
      BY <1>0, <2>1 DEF NewId, IdInv
  <1>7. ASSUME NEW a \in Buffers, IsCreated(a), id[a] = NewId
        PROVE  ~live[a]
    <2>1. id[a] \in 1..(mCurrentId - 1)
      BY <1>0, <1>7 DEF IdInv
    <2>2. mFreeIds # <<>>
      BY <1>5, <1>6, <1>7, <2>1
    <2>3. objectAt[id[a]] = 0
      BY <1>6, <1>7, <2>2
    <2>4. a # 0
      BY DEF Buffers
    <2> QED
      BY <1>0, <2>3, <2>4 DEF IdInv
  <1>8. toServer \in Seq(Commands)
    BY <1>0 DEF ChannelTypeOK
  <1>9. ASSUME NEW j \in DOMAIN toServer
        PROVE  toServer[j].buffer # b /\ IsCreated(toServer[j].buffer) /\ toServer[j].buffer \in Buffers
    BY <1>0, <1>2, <1>9, OneInOrder DEF InOrder
  <1>10. \A n : ~OnWay(b, n) /\ \A j \in DOMAIN toServer : ~Before(j, b, n)
    <2>1. \A j \in DOMAIN toServer : \A l \in 1..(j - 1) : l \in DOMAIN toServer
      BY <1>8, LenProperties
    <2> QED
      BY <1>9, <2>1 DEF OnWay, Before
  <1>11. CASE mDisconnected
    <2>1. toServer' = toServer /\ mDisconnected'
      BY <1>2, <1>3, <1>11 DEF Send
    <2>2. /\ \A j, x, n : Before(j, x, n)' <=> Before(j, x, n)
          /\ \A x, n : OnWay(x, n)' <=> OnWay(x, n)
      BY <2>1 DEF Before, OnWay
    <2>3. \A x \in Buffers : x # b => (Done(x)' <=> Done(x))
      BY <1>2, <2>2 DEF Done
    <2>4. NumberInv'
      <3>1. knownSize' <= mCurrentId'
        BY <1>2, <1>4, <1>5 DEF NumberInv
      <3>2. ASSUME NEW j \in DOMAIN toServer', NEW c, c = toServer'[j], c.cmd = "Create",
                   NEW i \in knownSize'..(c.id - 1)
            PROVE  \E y \in Buffers : id'[y] = i /\ Before(j, y, {"Create"})'
        <4>1. PICK y \in Buffers : id[y] = i /\ Before(j, y, {"Create"})
          BY <1>2, <2>1, <3>2 DEF NumberInv
        <4>2. y # b
          BY <1>10, <2>1, <3>2, <4>1
        <4> QED
          BY <1>2, <2>2, <4>1, <4>2
      <3> QED
        BY <2>1, <3>1, <3>2, EachNumbered
    <2>5. ReleaseInv'
      <3>1. ASSUME NEW j \in DOMAIN toServer', NEW c, c = toServer'[j], c.cmd = "Create",
                   NEW a \in Buffers, a < c.buffer, id'[a] = c.id
            PROVE  Done(a)' \/ Before(j, a, {"DestroyObject"})'
        <4>1. c = toServer[j] /\ j \in DOMAIN toServer /\ c.buffer \in 1..created
          BY <1>9, <2>1, <3>1 DEF IsCreated
        <4>2. a # b
          BY <1>1, <1>2, <1>5, <3>1, <4>1 DEF IsCreated, Buffers
        <4>3. Done(a) \/ Before(j, a, {"DestroyObject"})
          BY <1>2, <3>1, <4>1, <4>2 DEF ReleaseInv
        <4> QED
          BY <2>2, <2>3, <4>2, <4>3
      <3>2. ASSUME NEW a \in Buffers, NEW y \in Buffers, a < y, IsCreated(y)', id'[a] = id'[y]
            PROVE  ~live'[a] /\ (phase'[y] # "none" => Done(a)')
        <4>1. CASE y = b
          BY <1>2, <1>7, <3>2, <4>1
        <4>2. CASE y # b
          <5>1. a # b
            BY <1>1, <1>2, <1>5, <3>2, <4>2 DEF IsCreated, Buffers
          <5>2. ~live[a] /\ (phase[y] # "none" => Done(a))
            BY <1>2, <3>2, <4>2, <5>1 DEF ReleaseInv
          <5> QED
            BY <1>2, <2>3, <5>1, <5>2
        <4> QED
          BY <4>1, <4>2
      <3> QED
        BY <2>1, <3>1, <3>2, EachReleased
    <2> QED
      BY <2>4, <2>5
  <1>12. CASE ~mDisconnected
    <2>1. toServer' = toServer \o cmds /\ ~mDisconnected'
      BY <1>2, <1>3, <1>12 DEF Send
    <2>2. /\ \A j \in DOMAIN toServer : \A x, n : Before(j, x, n)' <=> Before(j, x, n)
          /\ \A j \in DOMAIN toServer' : \A x, n :
                j \notin DOMAIN toServer /\ OnWay(x, n) => Before(j, x, n)'
          /\ \A x, n : OnWay(x, n)' <=>
                \/ OnWay(x, n)
                \/ \E i \in DOMAIN cmds : cmds[i].buffer = x /\ cmds[i].cmd \in n
      BY <1>8, <2>1, SentBefore
    <2>3. \A j \in DOMAIN toServer' :
              \/ j \in DOMAIN toServer /\ toServer'[j] = toServer[j]
              \/ j \notin DOMAIN toServer /\ toServer'[j] = cmds[1]
      <3>1. /\ \A j \in DOMAIN toServer : toServer'[j] = toServer[j]
            /\ \A j \in DOMAIN toServer' :
                 \/ j \in DOMAIN toServer
                 \/ j > Len(toServer) /\ j - Len(toServer) \in DOMAIN cmds
                    /\ toServer'[j] = cmds[j - Len(toServer)]
        BY <1>8, <2>1, Grown
      <3>2. \A j \in DOMAIN toServer : j <= Len(toServer) /\ Len(toServer) \in Nat /\ j \in Nat
        BY <1>8, LenProperties
      <3> QED
        BY <1>3, <3>1, <3>2
    <2>4. \A x \in Buffers : x # b => (Done(x)' <=> Done(x)) /\ \A n : OnWay(x, n)' <=> OnWay(x, n)
      BY <1>2, <1>3, <2>2 DEF Done
    <2>5. NumberInv'
      <3>1. knownSize' <= mCurrentId'
        BY <1>2, <1>4, <1>5 DEF NumberInv
      <3>2. ASSUME NEW j \in DOMAIN toServer', NEW c, c = toServer'[j], c.cmd = "Create",
                   NEW i \in knownSize'..(c.id - 1)
            PROVE  \E y \in Buffers : id'[y] = i /\ Before(j, y, {"Create"})'
        <4>1. CASE j \in DOMAIN toServer /\ c = toServer[j]
          <5>1. PICK y \in Buffers : id[y] = i /\ Before(j, y, {"Create"})
            BY <1>2, <3>2, <4>1 DEF NumberInv
          <5>2. y # b
            BY <1>10, <4>1, <5>1
          <5> QED
            BY <1>2, <2>2, <4>1, <5>1, <5>2
        <4>2. CASE j \notin DOMAIN toServer /\ c = cmds[1]
          <5>1. i \in knownSize..(mCurrentId - 1)
            BY <1>2, <1>3, <1>5, <1>6, <3>2, <4>2
          <5>2. PICK y \in Buffers : id[y] = i /\ OnWay(y, {"Create"})
            BY <1>12, <5>1 DEF NumberInv
          <5>3. y # b
            BY <1>10, <5>2
          <5> QED
            BY <1>2, <2>2, <3>2, <4>2, <5>2, <5>3
        <4> QED
          BY <2>3, <3>2, <4>1, <4>2
      <3>3. ASSUME NEW i \in knownSize'..(mCurrentId' - 1)
            PROVE  \E y \in Buffers : id'[y] = i /\ OnWay(y, {"Create"})'
        <4>1. CASE i \in knownSize..(mCurrentId - 1)
          <5>1. PICK y \in Buffers : id[y] = i /\ OnWay(y, {"Create"})
            BY <1>12, <4>1 DEF NumberInv
          <5>2. y # b
            BY <1>10, <5>1
          <5> QED
            BY <1>2, <2>4, <5>1, <5>2
        <4>2. CASE i \notin knownSize..(mCurrentId - 1)
          <5>1. i = NewId
            BY <1>2, <1>4, <1>5, <1>6, <3>3, <4>2
          <5>2. OnWay(b, {"Create"})'
            BY <1>3, <2>2
          <5> QED
            BY <1>2, <5>1, <5>2
        <4> QED
          BY <4>1, <4>2
      <3> QED
        BY <3>1, <3>2, <3>3, EachNumbered
    <2>6. ReleaseInv'
      <3>1. ASSUME NEW j \in DOMAIN toServer', NEW c, c = toServer'[j], c.cmd = "Create",
                   NEW a \in Buffers, a < c.buffer, id'[a] = c.id
            PROVE  Done(a)' \/ Before(j, a, {"DestroyObject"})'
        <4>1. CASE j \in DOMAIN toServer /\ c = toServer[j]
          <5>1. c.buffer \in 1..created
            BY <1>9, <4>1 DEF IsCreated
          <5>2. a # b
            BY <1>1, <1>2, <1>5, <3>1, <5>1 DEF IsCreated, Buffers
          <5>3. Done(a) \/ Before(j, a, {"DestroyObject"})
            BY <1>2, <3>1, <4>1, <5>2 DEF ReleaseInv
          <5> QED
            BY <2>2, <2>4, <4>1, <5>2, <5>3
        <4>2. CASE j \notin DOMAIN toServer /\ c = cmds[1]
          <5>1. a < b /\ IsCreated(a) /\ a # b
            BY <1>2, <1>3, <3>1, <4>2
          <5>2. ~live[a]
            BY <1>2, <1>3, <1>7, <3>1, <4>2, <5>1
          <5>3. Done(a) \/ OnWay(a, {"DestroyObject"})
            BY <1>12, <5>1, <5>2 DEF ReleaseInv
          <5> QED
            BY <2>2, <2>4, <3>1, <4>2, <5>1, <5>3
        <4> QED
          BY <2>3, <3>1, <4>1, <4>2
      <3>2. ASSUME NEW a \in Buffers, NEW y \in Buffers, a < y, IsCreated(y)', id'[a] = id'[y]
            PROVE  ~live'[a] /\ (phase'[y] # "none" => Done(a)')
        <4>1. CASE y = b
          BY <1>2, <1>7, <3>2, <4>1
        <4>2. CASE y # b
          <5>1. a # b
            BY <1>1, <1>2, <1>5, <3>2, <4>2 DEF IsCreated, Buffers
          <5>2. ~live[a] /\ (phase[y] # "none" => Done(a))
            BY <1>2, <3>2, <4>2, <5>1 DEF ReleaseInv
          <5> QED
            BY <1>2, <2>4, <5>1, <5>2
        <4> QED
          BY <4>1, <4>2
      <3>3. ASSUME NEW y \in Buffers, IsCreated(y)', ~live'[y]
            PROVE  Done(y)' \/ OnWay(y, {"DestroyObject"})'
        <4>1. y # b
          BY <1>2, <3>3
        <4>2. Done(y) \/ OnWay(y, {"DestroyObject"})
          BY <1>2, <1>12, <3>3, <4>1 DEF ReleaseInv
        <4> QED
          BY <2>4, <4>1, <4>2
      <3> QED
        BY <3>1, <3>2, <3>3, EachReleased
    <2> QED
      BY <2>5, <2>6
  <1> QED
    BY <1>11, <1>12

-----------------------------------------------------------------------------
(* A request is in one place.                                              *)

LEMMA EachInTransit ==
    ASSUME \A j, k \in DOMAIN toClient' : j # k => toClient'[j].request # toClient'[k].request,
           \A r \in Requests :
               /\ AnswerOnWay(r)' => ~Asked(r)'
               /\ ~mDisconnected' /\ (Asked(r)' \/ AnswerOnWay(r)') /\ live'[reqBuffer'[r]]
                     => Waiting(r)'
    PROVE  TransitInv'
  BY DEF TransitInv

(* No answer is sent or received.                                          *)
LEMMA TransitKept ==
    ASSUME TransitInv, toClient' = toClient,
           \A r \in Requests :
               /\ Asked(r)' => Asked(r) \/ (~AnswerOnWay(r) /\ Waiting(r)')
               /\ ~mDisconnected' /\ live'[reqBuffer'[r]] /\ (Asked(r) \/ AnswerOnWay(r))
                     => ~mDisconnected /\ live[reqBuffer[r]] /\ (Waiting(r) => Waiting(r)')
    PROVE  TransitInv'
  <1>1. \A r : AnswerOnWay(r)' <=> AnswerOnWay(r)
    BY DEF AnswerOnWay
  <1>2. \A j, k \in DOMAIN toClient' : j # k => toClient'[j].request # toClient'[k].request
    BY DEF TransitInv
  <1>3. ASSUME NEW r \in Requests
        PROVE  /\ AnswerOnWay(r)' => ~Asked(r)'
               /\ ~mDisconnected' /\ (Asked(r)' \/ AnswerOnWay(r)') /\ live'[reqBuffer'[r]]
                     => Waiting(r)'
    <2>1. /\ AnswerOnWay(r) => ~Asked(r)
          /\ ~mDisconnected /\ (Asked(r) \/ AnswerOnWay(r)) /\ live[reqBuffer[r]] => Waiting(r)
      BY DEF TransitInv
    <2> QED
      BY <1>1, <2>1
  <1> QED
    BY <1>2, <1>3, EachInTransit

(* One answer is sent, to a request that has been asked.                   *)
LEMMA TransitSent ==
    ASSUME TransitInv, toClient \in Seq(ReturnCommands), NEW m \in ReturnCommands,
           toClient' = toClient \o <<m>>, NEW q, q = m.request, Asked(q), ~Asked(q)', q \in Requests,
           UNCHANGED <<answer, live, reqBuffer, mDisconnected>>,
           \A r \in Requests : Asked(r)' => Asked(r)
    PROVE  TransitInv'
  <1>1. <<m>> \in Seq(ReturnCommands) /\ DOMAIN <<m>> = {1} /\ <<m>>[1] = m
    OBVIOUS
  <1>2. PICK ms : ms = <<m>>
    OBVIOUS
  <1>3. /\ \A j \in DOMAIN toClient : j \in DOMAIN toClient' /\ toClient'[j] = toClient[j]
        /\ \A j \in DOMAIN toClient' :
              \/ j \in DOMAIN toClient
              \/ j > Len(toClient) /\ j - Len(toClient) \in DOMAIN ms
                 /\ toClient'[j] = ms[j - Len(toClient)]
    BY <1>1, <1>2, Grown
  <1>4. \A j \in DOMAIN toClient' : \/ j \in DOMAIN toClient /\ toClient'[j] = toClient[j]
                                    \/ j = Len(toClient) + 1 /\ toClient'[j] = m
    <2>1. toClient' \in Seq(ReturnCommands)
      BY <1>1, <1>2, Grown
    <2>2. \A j \in DOMAIN toClient' : j \in Nat
      BY <2>1, LenProperties
    <2>3. Len(toClient) \in Nat
      BY LenProperties
    <2>4. ASSUME NEW j \in DOMAIN toClient', j - Len(toClient) \in DOMAIN ms
          PROVE  j = Len(toClient) + 1 /\ ms[j - Len(toClient)] = m
      <3>1. j - Len(toClient) = 1
        BY <1>1, <1>2, <2>4
      <3> QED
        BY <1>1, <1>2, <2>2, <2>3, <3>1
    <2> QED
      BY <1>3, <2>4
  <1>5. ~AnswerOnWay(q)
    BY DEF TransitInv
  <1>6. \A r : AnswerOnWay(r)' => AnswerOnWay(r) \/ r = q
    BY <1>4 DEF AnswerOnWay
  <1>7. ASSUME NEW j \in DOMAIN toClient', NEW k \in DOMAIN toClient', j # k
        PROVE  toClient'[j].request # toClient'[k].request
    BY <1>4, <1>5, <1>7 DEF AnswerOnWay, TransitInv
  <1>8. ASSUME NEW r \in Requests
        PROVE  /\ AnswerOnWay(r)' => ~Asked(r)'
               /\ ~mDisconnected' /\ (Asked(r)' \/ AnswerOnWay(r)') /\ live'[reqBuffer'[r]]
                     => Waiting(r)'
    <2>1. /\ AnswerOnWay(r) => ~Asked(r)
          /\ ~mDisconnected /\ (Asked(r) \/ AnswerOnWay(r)) /\ live[reqBuffer[r]] => Waiting(r)
      BY DEF TransitInv
    <2>2. Waiting(r)' <=> Waiting(r)
      BY DEF Waiting
    <2> QED
      BY <1>6, <2>1, <2>2
  <1> QED
    BY <1>7, <1>8, EachInTransit

(* The answer of the request q, or none if the object is not there.        *)
LEMMA TransitAnswered ==
    ASSUME WireTypeOK, TalkInv, TransitInv, NEW b \in Buffers, IsCreated(b), NEW q \in Requests,
           NEW status \in Statuses,
           toClient' = IF mDisconnected THEN toClient ELSE toClient \o Return(q, b, status),
           Asked(q), ~Asked(q)',
           UNCHANGED <<answer, live, reqBuffer, mDisconnected>>,
           \A r \in Requests : Asked(r)' => Asked(r)
    PROVE  TransitInv'
  <1>1. toClient \in Seq(ReturnCommands) /\ IdInv
    BY DEF TalkInv, ChannelTypeOK
  <1>2. Waiting(q)' <=> Waiting(q)
    BY DEF Waiting
  <1>3. CASE toClient' = toClient
    <2>1. \A r \in Requests : Waiting(r)' <=> Waiting(r)
      BY DEF Waiting
    <2> QED
      BY <1>3, <2>1, TransitKept
  <1>4. CASE toClient' # toClient
    <2>1. ~mDisconnected /\ toClient' = toClient \o Return(q, b, status)
      BY <1>4
    <2>2. StillKnown(q, b)
      <3>1. SUFFICES ASSUME ~StillKnown(q, b) PROVE FALSE
        OBVIOUS
      <3>2. Return(q, b, status) = <<>>
        BY <3>1 DEF Return
      <3>3. toClient' = toClient
        BY <1>1, <2>1, <3>2, ConcatEmptySeq
      <3> QED
        BY <1>4, <3>3
    <2>3. PICK m : m = [id |-> id[b], generation |-> generation[b], serial |-> reqSerial[q],
                        status |-> status, request |-> q]
      OBVIOUS
    <2>4. toClient' = toClient \o <<m>>
      BY <2>1, <2>2, <2>3 DEF Return
    <2>5. id[b] \in Ids /\ generation[b] \in 0..MaxGeneration /\ reqSerial[q] \in Nat
      <3>1. reqSerial[q] \in 0..MaxRequests /\ generation[b] \in 0..MaxGeneration
        BY DEF WireTypeOK
      <3> QED
        BY <1>1, <3>1, LiveIds, WireBounds
    <2>6. m \in ReturnCommands /\ m.request = q
      BY <2>3, <2>5 DEF ReturnCommands
    <2> QED
      BY <1>1, <2>4, <2>6, TransitSent
  <1> QED
    BY <1>3, <1>4

(* The native buffer b is answered.                                        *)
LEMMA NativeTransit ==
    ASSUME WireTypeOK, TalkInv, TransitInv, NEW b \in Buffers, IsCreated(b),
           NEW status \in Statuses, NEW newPhase, NativeAnswers(b, status, newPhase),
           toClient' = toClient \/ toClient' = IF mDisconnected THEN toClient
                                               ELSE toClient \o Replies(b, status),
           UNCHANGED <<answer, live, reqBuffer, mDisconnected>>,
           \A r \in Requests : MapOnWay(r)' => MapOnWay(r)
    PROVE  TransitInv'
  <1>1. toClient \in Seq(ReturnCommands) /\ PendingInv /\ MapCommandInv
    BY DEF TalkInv, ChannelTypeOK
  <1>2. \A r \in Requests : Waiting(r)' <=> Waiting(r)
    BY DEF Waiting
  <1>3. nativeReply \in [Requests -> {"None", "Waiting"} \cup Statuses]
    BY DEF WireTypeOK
  <1>4. \A r \in Requests : Asked(r)' => Asked(r)
    BY <1>3 DEF NativeAnswers, Asked, Statuses
  <1>5. CASE toClient' = toClient
    BY <1>2, <1>4, <1>5, TransitKept
  <1>6. CASE toClient' # toClient
    <2>1. ~mDisconnected /\ toClient' = toClient \o Replies(b, status)
      BY <1>6
    <2>2. phase[b] = "pending"
      BY <1>1, <1>6, <2>1, ConcatEmptySeq DEF Replies
    <2>3. owner[b] \in Requests /\ nativeReply[owner[b]] = "Waiting"
      BY <1>1, <2>2 DEF PendingInv
    <2>4. PICK q : q = owner[b]
      OBVIOUS
    <2>5. toClient' = toClient \o Return(q, b, status)
      BY <2>1, <2>2, <2>4 DEF Replies
    <2>6. nativeReply'[q] = status
      BY <1>3, <2>2, <2>3, <2>4 DEF NativeAnswers
    <2>7. ~MapOnWay(q)
      BY <1>1, <2>3, <2>4 DEF MapCommandInv, MapOnWay
    <2>8. Asked(q) /\ ~Asked(q)'
      BY <2>3, <2>4, <2>6, <2>7 DEF Asked, Statuses
    <2> QED
      BY <1>4, <2>1, <2>3, <2>4, <2>5, <2>8, TransitAnswered
  <1> QED
    BY <1>5, <1>6

LEMMA ServerTransit ==
    ASSUME WireTypeOK, TalkInv, TransitInv, ServerHandles, Running'
    PROVE  TransitInv'
  <1> PICK h : h = Head(toServer)
    OBVIOUS
  <1>1. /\ toServer # <<>> /\ toServer' = Tail(toServer) /\ h = toServer[1]
        /\ 1 \in DOMAIN toServer /\ h.buffer \in Buffers /\ IsCreated(h.buffer)
        /\ UNCHANGED <<clientVars, requestVars, idVars, mDisconnected>>
    BY ServerShape
  <1>2. UNCHANGED <<answer, live, reqBuffer, mDisconnected>>
    BY <1>1 DEF clientVars, requestVars
  <1>3. toServer \in Seq(Commands) /\ toClient \in Seq(ReturnCommands) /\ MapCommandInv
    BY DEF TalkInv, ChannelTypeOK
  <1>4. \A r : MapOnWay(r) <=>
              MapOnWay(r)' \/ (toServer[1].cmd = "MapAsync" /\ toServer[1].request = r)
    BY <1>1, <1>3, TakenBefore
  <1>5. \A r \in Requests : Waiting(r)' <=> Waiting(r)
    BY <1>2 DEF Waiting
  <1>6. ASSUME UNCHANGED <<toClient, nativeReply>>
        PROVE  TransitInv'
    <2>1. \A r \in Requests : Asked(r)' => Asked(r)
      BY <1>4, <1>6 DEF Asked
    <2> QED
      BY <1>2, <1>5, <1>6, <2>1, TransitKept
  <1>7. CASE DoDeviceCreateBuffer
    BY <1>6, <1>7, CreateEffect
  <1>8. CASE DoBufferUpdateMappedData
    BY <1>6, <1>8, UpdateEffect
  <1>9. CASE DoDestroyObject
    BY <1>6, <1>9, DestroyObjectEffect
  <1>10. CASE DoBufferUnmap
    <2>1. \/ /\ NativeAnswers(h.buffer, "Unmapped", "unmapped")
             /\ toClient' = IF mDisconnected THEN toClient
                            ELSE toClient \o Replies(h.buffer, "Unmapped")
          \/ UNCHANGED <<phase, owner, nativeReply, toClient>>
      BY <1>10, UnmapEffect
    <2>2. "Unmapped" \in Statuses
      BY DEF Statuses
    <2> QED
      BY <1>1, <1>2, <1>4, <1>6, <2>1, <2>2, NativeTransit
  <1>11. CASE DoBufferDestroy
    <2>1. \/ /\ NativeAnswers(h.buffer, CallbackStatus("Destroyed"), "gone")
             /\ toClient' = IF mDisconnected THEN toClient
                            ELSE toClient \o Replies(h.buffer, CallbackStatus("Destroyed"))
          \/ UNCHANGED <<phase, owner, nativeReply, toClient>>
      BY <1>11, DestroyEffect
    <2>2. CallbackStatus("Destroyed") \in Statuses
      BY DEF Statuses, CallbackStatus
    <2> QED
      BY <1>1, <1>2, <1>4, <1>6, <2>1, <2>2, NativeTransit
  <1>12. CASE DoBufferMapAsync
    <2>1. h.cmd = "MapAsync"
      BY <1>12 DEF DoBufferMapAsync, Receive
    <2>2. h.request \in Requests
      BY <1>1, <1>3, <2>1, CommandTypes, LenProperties
    <2>3. PICK q : q = h.request
      OBVIOUS
    <2>4. Asked(q)
      BY <1>1, <2>1, <2>3 DEF Asked, MapOnWay
    <2>5. \/ /\ nativeReply' = [nativeReply EXCEPT ![h.request] = "Waiting"]
             /\ toClient' = toClient
          \/ /\ UNCHANGED <<phase, owner, nativeReply>>
             /\ \E status \in {"DeviceLost", "Error"} :
                   toClient' = IF mDisconnected THEN toClient
                               ELSE toClient \o Return(h.request, h.buffer, status)
      BY <1>12, MapAsyncEffect
    <2>6. CASE /\ nativeReply' = [nativeReply EXCEPT ![h.request] = "Waiting"]
               /\ toClient' = toClient
      <3>1. \A r \in Requests : Asked(r)' => Asked(r)
        <4>1. nativeReply \in [Requests -> {"None", "Waiting"} \cup Statuses]
          BY DEF WireTypeOK
        <4> QED
          BY <1>4, <2>3, <2>4, <2>6, <4>1 DEF Asked
      <3> QED
        BY <1>2, <1>5, <2>6, <3>1, TransitKept
    <2>7. ASSUME NEW status \in {"DeviceLost", "Error"}, UNCHANGED nativeReply,
                 toClient' = IF mDisconnected THEN toClient
                             ELSE toClient \o Return(h.request, h.buffer, status)
          PROVE  TransitInv'
      <3>1. status \in Statuses
        BY DEF Statuses
      <3>2. \A r \in Requests : Asked(r)' => Asked(r)
        BY <1>4, <2>7 DEF Asked
      <3>3. nativeReply[q] = "None"
        BY <1>1, <1>3, <2>1, <2>3 DEF MapCommandInv
      <3>4. ~MapOnWay(q)'
        <4>1. SUFFICES ASSUME NEW k \in DOMAIN toServer', toServer'[k].cmd = "MapAsync",
                              toServer'[k].request = q
                       PROVE  FALSE
          BY DEF MapOnWay
        <4>2. k \in Nat /\ k >= 1 /\ k + 1 \in DOMAIN toServer /\ toServer'[k] = toServer[k + 1]
          BY <1>1, <1>3, Shrunk
        <4>3. 1 \in 1..(k + 1 - 1)
          BY <4>2
        <4> QED
          BY <1>1, <1>3, <2>1, <2>3, <4>1, <4>2, <4>3 DEF MapCommandInv
      <3>5. ~Asked(q)'
        BY <2>7, <3>3, <3>4 DEF Asked
      <3> QED
        BY <1>1, <1>2, <2>2, <2>3, <2>4, <2>7, <3>1, <3>2, <3>5, TransitAnswered
    <2> QED
      BY <2>5, <2>6, <2>7
  <1> QED
    BY <1>7, <1>8, <1>9, <1>10, <1>11, <1>12 DEF ServerHandles

LEMMA DeviceTransit ==
    ASSUME WireTypeOK, TalkInv, TransitInv, NEW b \in Buffers, Grant(b) \/ AnswerLost(b)
    PROVE  TransitInv'
  <1>1. /\ phase[b] = "pending"
        /\ UNCHANGED <<clientVars, requestVars, mDisconnected, toServer>>
    BY DeviceEffect
  <1>2. UNCHANGED <<answer, live, reqBuffer, mDisconnected>>
    BY <1>1 DEF clientVars, requestVars
  <1>3. \A r : MapOnWay(r)' <=> MapOnWay(r)
    BY <1>1 DEF MapOnWay
  <1>4. IsCreated(b)
    BY <1>1 DEF TalkInv, IdInv
  <1>5. toClient \in Seq(ReturnCommands)
    BY DEF TalkInv, ChannelTypeOK
  <1>6. CASE AnswerLost(b)
    <2>1. /\ NativeAnswers(b, "DeviceLost", "lost")
          /\ toClient' = IF mDisconnected THEN toClient ELSE toClient \o Replies(b, "DeviceLost")
      BY <1>6 DEF AnswerLost, ServerStep
    <2>2. "DeviceLost" \in Statuses
      BY DEF Statuses
    <2> QED
      BY <1>2, <1>3, <1>4, <2>1, <2>2, NativeTransit
  <1>7. CASE Grant(b)
    <2>1. NativeAnswers(b, "Success", "mapped")
      BY <1>7 DEF Grant
    <2>2. "Success" \in Statuses
      BY DEF Statuses
    <2>3. \/ toClient' = toClient
          \/ toClient' = IF mDisconnected THEN toClient ELSE toClient \o Replies(b, "Success")
      <3>1. CASE ~StillKnown(owner[b], b)
        <4>1. toClient' = IF mDisconnected THEN toClient ELSE toClient \o <<>>
          BY <1>7, <3>1 DEF Grant, ServerStep
        <4> QED
          BY <1>5, <4>1, ConcatEmptySeq
      <3>2. CASE StillKnown(owner[b], b)
        BY <1>7, <3>2 DEF Grant, ServerStep
      <3> QED
        BY <3>1, <3>2
    <2> QED
      BY <1>2, <1>3, <1>4, <2>1, <2>2, <2>3, NativeTransit
  <1> QED
    BY <1>6, <1>7

LEMMA CallbackTransit ==
    ASSUME WireTypeOK, TalkInv, TransitInv, OnMapAsyncCallback
    PROVE  TransitInv'
  <1>1. /\ ~mDisconnected /\ toClient # <<>> /\ toClient' = Tail(toClient)
        /\ UNCHANGED <<live, reqBuffer, mDisconnected, toServer, nativeVars>>
    BY CallbackEffect
  <1>2. toClient \in Seq(ReturnCommands)
    BY DEF TalkInv, ChannelTypeOK
  <1>3. PICK q : q = Head(toClient).request
    OBVIOUS
  <1>4. \A r \in Requests : r # q => (Waiting(r)' <=> Waiting(r))
    <2>1. CASE UNCHANGED <<answer, clientStatus, mMapState, unflushed>>
      BY <2>1 DEF Waiting
    <2>2. ASSUME NEW r \in Requests, NEW b \in Buffers, NEW reply \in Statuses,
                 AnswerRequest(r, b, reply), r = Head(toClient).request
          PROVE  \A p \in Requests : p # q => (Waiting(p)' <=> Waiting(p))
      <3>1. \A p \in Requests : p # r => answer'[p] = answer[p]
        BY <2>2, AnswerGiven
      <3> QED
        BY <1>3, <2>2, <3>1 DEF Waiting
    <2> QED
      BY <2>1, <2>2, CallbackEffect
  <1>5. /\ 1 \in DOMAIN toClient /\ Head(toClient) = toClient[1]
        /\ \A j \in DOMAIN toClient' : j \in Nat /\ j >= 1 /\ j + 1 \in DOMAIN toClient
                                       /\ toClient'[j] = toClient[j + 1]
    BY <1>1, <1>2, Shrunk
  <1>6. \A j \in DOMAIN toClient' : toClient'[j].request # q
    <2>1. \A j \in DOMAIN toClient' : j + 1 # 1
      BY <1>5
    <2> QED
      BY <1>3, <1>5, <2>1 DEF TransitInv
  <1>7. \A r : AnswerOnWay(r)' => AnswerOnWay(r) /\ r # q
    BY <1>5, <1>6 DEF AnswerOnWay
  <1>8. AnswerOnWay(q)
    BY <1>3, <1>5 DEF AnswerOnWay
  <1>9. ASSUME NEW j \in DOMAIN toClient', NEW k \in DOMAIN toClient', j # k
        PROVE  toClient'[j].request # toClient'[k].request
    <2>1. j + 1 # k + 1
      BY <1>5, <1>9
    <2> QED
      BY <1>5, <2>1 DEF TransitInv
  <1>10. ASSUME NEW r \in Requests
         PROVE  /\ AnswerOnWay(r)' => ~Asked(r)'
                /\ ~mDisconnected' /\ (Asked(r)' \/ AnswerOnWay(r)') /\ live'[reqBuffer'[r]]
                      => Waiting(r)'
    <2>1. /\ AnswerOnWay(r) => ~Asked(r)
          /\ ~mDisconnected /\ (Asked(r) \/ AnswerOnWay(r)) /\ live[reqBuffer[r]] => Waiting(r)
      BY DEF TransitInv
    <2>2. Asked(r)' <=> Asked(r)
      BY <1>1 DEF Asked, MapOnWay, nativeVars
    <2>3. Asked(r)' \/ AnswerOnWay(r)' => r # q
      BY <1>7, <1>8, <2>1, <2>2
    <2> QED
      BY <1>1, <1>4, <1>7, <2>1, <2>2, <2>3
  <1> QED
    BY <1>9, <1>10, EachInTransit

(* A request that is somewhere has been made, of a buffer that exists.     *)
LEMMA SomewhereMade ==
    ASSUME WireTypeOK, TalkInv, NEW r \in Requests, Asked(r) \/ AnswerOnWay(r)
    PROVE  answer[r] # "None" /\ IsCreated(reqBuffer[r]) /\ reqBuffer[r] \in Buffers
  <1>1. SerialInv /\ MapCommandInv /\ ReturnInv
    BY DEF TalkInv
  <1>2. MapOnWay(r) => reqSerial[r] > 0
    BY <1>1 DEF MapOnWay, MapCommandInv
  <1>3. AnswerOnWay(r) => reqSerial[r] > 0
    BY <1>1 DEF AnswerOnWay, ReturnInv
  <1>4. reqSerial[r] > 0 \/ nativeReply[r] # "None"
    BY <1>2, <1>3 DEF Asked
  <1>5. answer[r] # "None"
    BY <1>1, <1>4 DEF SerialInv
  <1>6. IsCreated(reqBuffer[r])
    BY <1>1, <1>5 DEF SerialInv
  <1>7. reqBuffer[r] \in Buffers
    BY <1>6, WireBounds DEF IsCreated, WireTypeOK, Buffers
  <1> QED
    BY <1>5, <1>6, <1>7

LEMMA ClientTransit ==
    ASSUME WireTypeOK, TalkInv, TransitInv, NEW b \in Buffers, Unmap(b) \/ Destroy(b) \/ Release(b)
    PROVE  TransitInv'
  <1>1. IdInv /\ toServer \in Seq(Commands)
    BY DEF TalkInv, ChannelTypeOK
  <1>2. live[b]
    BY DEF Unmap, Destroy, Release
  <1>3. UNCHANGED <<toClient, nativeReply, reqBuffer, mDisconnected>>
    BY DEF Unmap, Destroy, Release, nativeVars
  <1>4. \E cmds \in Seq(Commands) : Send(cmds) /\ \A i \in DOMAIN cmds : cmds[i].cmd # "MapAsync"
    <2>1. CASE Unmap(b)
      <3>1. PICK cmds : cmds = IF WillFlush(b)
                                THEN <<Command("UpdateMappedData", b), Command("Unmap", b)>>
                                ELSE <<Command("Unmap", b)>>
        OBVIOUS
      <3>2. /\ cmds \in Seq(Commands) /\ Send(cmds)
            /\ \A i \in DOMAIN cmds : cmds[i].cmd \in {"UpdateMappedData", "Unmap"}
        BY <1>1, <2>1, <3>1, UnmapSends
      <3>3. \A i \in DOMAIN cmds : cmds[i].cmd # "MapAsync"
        BY <3>2
      <3> QED
        BY <3>2, <3>3
    <2>2. CASE Destroy(b)
      <3>1. PICK cmds : cmds = <<Command("Destroy", b)>>
        OBVIOUS
      <3>2. cmds \in Seq(Commands) /\ \A i \in DOMAIN cmds : cmds[i].cmd = "Destroy"
        BY <1>1, <1>2, <3>1, OneSent DEF Names
      <3>3. Send(cmds)
        BY <2>2, <3>1 DEF Destroy
      <3> QED
        BY <3>2, <3>3
    <2>3. CASE Release(b)
      <3>1. PICK cmds : cmds = <<Command("DestroyObject", b)>>
        OBVIOUS
      <3>2. cmds \in Seq(Commands) /\ \A i \in DOMAIN cmds : cmds[i].cmd = "DestroyObject"
        BY <1>1, <1>2, <3>1, OneSent DEF Names
      <3>3. Send(cmds)
        BY <2>3, <3>1 DEF Release
      <3> QED
        BY <3>2, <3>3
    <2> QED
      BY <2>1, <2>2, <2>3
  <1>5. \A r \in Requests : MapOnWay(r)' <=> MapOnWay(r)
    <2>1. PICK cmds \in Seq(Commands) :
            Send(cmds) /\ \A i \in DOMAIN cmds : cmds[i].cmd # "MapAsync"
      BY <1>4
    <2>2. CASE mDisconnected
      BY <2>1, <2>2 DEF Send, MapOnWay
    <2>3. CASE ~mDisconnected
      <3>1. toServer' = toServer \o cmds
        BY <2>1, <2>3 DEF Send
      <3>2. \A r : MapOnWay(r)' <=>
                \/ MapOnWay(r)
                \/ \E i \in DOMAIN cmds : cmds[i].cmd = "MapAsync" /\ cmds[i].request = r
        BY <1>1, <3>1, SentBefore
      <3> QED
        BY <2>1, <3>2
    <2> QED
      BY <2>2, <2>3
  <1>6. \A r \in Requests : Asked(r)' <=> Asked(r)
    BY <1>3, <1>5 DEF Asked
  <1>7. ASSUME NEW r \in Requests, live'[reqBuffer'[r]], Asked(r) \/ AnswerOnWay(r)
        PROVE  live[reqBuffer[r]] /\ (Waiting(r) => Waiting(r)')
    <2>1. CASE Unmap(b) \/ Destroy(b)
      BY <1>7, <2>1 DEF Unmap, Destroy, Waiting
    <2>2. CASE Release(b)
      <3>1. /\ live' = [live EXCEPT ![b] = FALSE] /\ reqBuffer' = reqBuffer
            /\ answer' = [q \in Requests |-> IF q \in WaitingOn(b) THEN "Destroyed" ELSE answer[q]]
        BY <2>2 DEF Release
      <3>2. live \in [Buffers -> BOOLEAN] /\ reqBuffer[r] \in Buffers
        BY <1>7, SomewhereMade DEF WireTypeOK
      <3>3. reqBuffer[r] # b /\ live[reqBuffer[r]]
        BY <1>7, <3>1, <3>2
      <3>4. r \notin WaitingOn(b)
        BY <3>3 DEF WaitingOn
      <3> QED
        BY <3>1, <3>3, <3>4 DEF Waiting
    <2> QED
      BY <2>1, <2>2
  <1> QED
    BY <1>3, <1>6, <1>7, TransitKept

LEMMA MapAsyncTransit ==
    ASSUME WireTypeOK, TalkInv, TransitInv, NEW r \in Requests, NEW b \in Buffers, MapAsync(r, b)
    PROVE  TransitInv'
  <1>1. toServer \in Seq(Commands)
    BY DEF TalkInv, ChannelTypeOK
  <1>2. /\ nativeReply[r] = "None" /\ ~MapOnWay(r) /\ ~AnswerOnWay(r)
        /\ UNCHANGED <<live, mDisconnected, toClient, nativeReply>>
        /\ \A q \in Requests : q # r => reqBuffer'[q] = reqBuffer[q] /\ answer'[q] = answer[q]
        /\ ~mDisconnected => answer'[r] = "Waiting"
    BY MapAsyncSends
  <1>3. PICK cmds \in Seq(Commands) : Send(cmds) /\ DOMAIN cmds = {1} /\ cmds[1].request = r
    BY MapAsyncSends
  <1>4. \A q \in Requests : q # r => (MapOnWay(q)' <=> MapOnWay(q))
    <2>1. CASE mDisconnected
      BY <1>3, <2>1 DEF Send, MapOnWay
    <2>2. CASE ~mDisconnected
      <3>1. toServer' = toServer \o cmds
        BY <1>3, <2>2 DEF Send
      <3>2. \A q : MapOnWay(q)' <=>
                \/ MapOnWay(q)
                \/ \E i \in DOMAIN cmds : cmds[i].cmd = "MapAsync" /\ cmds[i].request = q
        BY <1>1, <3>1, SentBefore
      <3> QED
        BY <1>3, <3>2
    <2> QED
      BY <2>1, <2>2
  <1>5. ~Asked(r)
    BY <1>2 DEF Asked
  <1>6. Asked(r)' => Waiting(r)'
    <2>1. CASE mDisconnected
      BY <1>2, <1>3, <2>1 DEF Send, MapOnWay, Asked
    <2>2. CASE ~mDisconnected
      BY <1>2, <2>2 DEF Waiting
    <2> QED
      BY <2>1, <2>2
  <1>7. ASSUME NEW q \in Requests
        PROVE  /\ Asked(q)' => Asked(q) \/ (~AnswerOnWay(q) /\ Waiting(q)')
               /\ ~mDisconnected' /\ live'[reqBuffer'[q]] /\ (Asked(q) \/ AnswerOnWay(q))
                     => ~mDisconnected /\ live[reqBuffer[q]] /\ (Waiting(q) => Waiting(q)')
    <2>1. CASE q = r
      BY <1>2, <1>5, <1>6, <2>1
    <2>2. CASE q # r
      <3>1. (Asked(q)' <=> Asked(q)) /\ (Waiting(q)' <=> Waiting(q))
        BY <1>2, <1>4, <2>2 DEF Asked, Waiting
      <3> QED
        BY <1>2, <2>2, <3>1
    <2> QED
      BY <2>1, <2>2
  <1> QED
    BY <1>2, <1>7, TransitKept

LEMMA CreateTransit ==
    ASSUME WireTypeOK, TalkInv, TransitInv, NEW k \in Kinds, CreateBuffer(k)
    PROVE  TransitInv'
  <1>1. toServer \in Seq(Commands)
    BY DEF TalkInv, ChannelTypeOK
  <1>2. PICK b : b = created + 1
    OBVIOUS
  <1>3. /\ b \in Buffers /\ ~IsCreated(b)
        /\ \A x \in Buffers : x # b => live'[x] = live[x]
        /\ UNCHANGED <<nativeReply, mDisconnected, toClient, reqBuffer, answer>>
    BY <1>2, CreateSends
  <1>4. PICK cmds \in Seq(Commands) : Send(cmds) /\ DOMAIN cmds = {1} /\ cmds[1].cmd = "Create"
    BY <1>2, CreateSends
  <1>5. \A q \in Requests : MapOnWay(q)' <=> MapOnWay(q)
    <2>1. CASE mDisconnected
      BY <1>4, <2>1 DEF Send, MapOnWay
    <2>2. CASE ~mDisconnected
      <3>1. toServer' = toServer \o cmds
        BY <1>4, <2>2 DEF Send
      <3>2. \A q : MapOnWay(q)' <=>
                \/ MapOnWay(q)
                \/ \E i \in DOMAIN cmds : cmds[i].cmd = "MapAsync" /\ cmds[i].request = q
        BY <1>1, <3>1, SentBefore
      <3> QED
        BY <1>4, <3>2
    <2> QED
      BY <2>1, <2>2
  <1>6. ASSUME NEW r \in Requests
        PROVE  /\ Asked(r)' => Asked(r)
               /\ ~mDisconnected' /\ live'[reqBuffer'[r]] /\ (Asked(r) \/ AnswerOnWay(r))
                     => ~mDisconnected /\ live[reqBuffer[r]] /\ (Waiting(r) => Waiting(r)')
    <2>1. Asked(r)' <=> Asked(r)
      BY <1>3, <1>5 DEF Asked
    <2>2. Asked(r) \/ AnswerOnWay(r) => reqBuffer[r] \in Buffers /\ reqBuffer[r] # b
      BY <1>3, SomewhereMade
    <2>3. Waiting(r) => Waiting(r)'
      BY <1>3 DEF Waiting
    <2> QED
      BY <1>3, <2>1, <2>2, <2>3
  <1> QED
    BY <1>3, <1>6, TransitKept

LEMMA DisconnectTransit ==
    ASSUME Disconnect
    PROVE  TransitInv'
  <1>1. toClient' = <<>> /\ mDisconnected'
    BY DEF Disconnect
  <1>2. DOMAIN toClient' = {}
    BY <1>1
  <1> QED
    BY <1>1, <1>2 DEF TransitInv, AnswerOnWay

LEMMA LoseTransit ==
    ASSUME TransitInv, LoseDevice \/ UNCHANGED vars
    PROVE  TransitInv'
  <1>1. UNCHANGED <<live, reqBuffer, answer, mDisconnected, toServer, toClient, nativeReply>>
    BY DEF LoseDevice, vars, clientVars, requestVars, wireVars, nativeVars
  <1>2. \A r \in Requests : (Asked(r)' <=> Asked(r)) /\ (Waiting(r)' <=> Waiting(r))
    BY <1>1 DEF Asked, MapOnWay, Waiting
  <1> QED
    BY <1>1, <1>2, TransitKept

(* What a command of the server does to the requests and to its buffer.    *)
LEMMA ServerReplies ==
    ASSUME WireTypeOK, TalkInv, ServerHandles, Running', NEW h, h = Head(toServer)
    PROVE  /\ \A r \in Requests :
                 /\ reqBuffer[r] # h.buffer => nativeReply'[r] = nativeReply[r]
                 /\ nativeReply'[r] = "Success" => nativeReply[r] = "Success"
                 /\ nativeReply'[r] # "None" =>
                       \/ nativeReply[r] # "None"
                       \/ /\ h.cmd = "MapAsync" /\ h.request = r /\ phase[h.buffer] = "unmapped"
                          /\ kind[h.buffer] # "AtCreation"
           /\ phase[h.buffer] \in {"gone", "error"} => phase'[h.buffer] \in {"gone", "error"}
           /\ h.cmd = "Destroy" => phase'[h.buffer] \in {"gone", "error"}
           /\ phase'[h.buffer] = "pending" =>
                 phase[h.buffer] = "pending" \/ kind[h.buffer] # "AtCreation"
  <1>1. ChannelTypeOK /\ IdInv /\ KnownInv /\ PendingInv /\ MapCommandInv
    BY DEF TalkInv
  <1>2. /\ h = toServer[1] /\ 1 \in DOMAIN toServer /\ h.cmd \in Names /\ h.buffer \in Buffers
        /\ h.cmd # "Create" => InServer(h.buffer)
        /\ InOrder(1, h)
    BY ServerShape
  <1>3. /\ nativeReply \in [Requests -> {"None", "Waiting"} \cup Statuses]
        /\ phase \in [Buffers -> {"none", "error", "unmapped", "pending", "mapped", "lost", "gone"}]
    BY DEF WireTypeOK
  <1>4. ASSUME NEW status \in {"Unmapped", "Destroyed", "DeviceLost"}, NEW newPhase,
               NativeAnswers(h.buffer, status, newPhase)
        PROVE  /\ phase'[h.buffer] = newPhase
               /\ \A r \in Requests :
                     /\ reqBuffer[r] # h.buffer => nativeReply'[r] = nativeReply[r]
                     /\ nativeReply'[r] = "Success" => nativeReply[r] = "Success"
                     /\ nativeReply'[r] # "None" => nativeReply[r] # "None"
    <2>1. phase'[h.buffer] = newPhase
      BY <1>2, <1>3, <1>4 DEF NativeAnswers
    <2>2. CASE phase[h.buffer] = "pending"
      <3>1. PICK q \in Requests : q = owner[h.buffer]
        BY <1>1, <1>2, <2>2 DEF PendingInv
      <3>2. nativeReply' = [nativeReply EXCEPT ![q] = status]
        BY <1>4, <2>2, <3>1 DEF NativeAnswers
      <3>3. reqBuffer[q] = h.buffer /\ nativeReply[q] = "Waiting"
        BY <1>1, <1>2, <2>2, <3>1 DEF PendingInv
      <3>4. nativeReply'[q] = status /\ \A r \in Requests : r # q => nativeReply'[r] = nativeReply[r]
        BY <1>3, <3>2
      <3> QED
        BY <2>1, <3>3, <3>4
    <2>3. CASE phase[h.buffer] # "pending"
      BY <1>4, <2>1, <2>3 DEF NativeAnswers
    <2> QED
      BY <2>2, <2>3
  <1>5. CASE DoDeviceCreateBuffer
    <2>1. nativeReply' = nativeReply
      BY <1>5, CreateEffect
    <2>2. h.cmd = "Create"
      BY <1>5 DEF DoDeviceCreateBuffer, Receive
    <2>3. phase[h.buffer] = "none"
      BY <1>2, <2>2 DEF InOrder
    <2>4. phase'[h.buffer] \in {"error", "mapped", "unmapped"}
      BY <1>5, CreateEffect
    <2> QED
      BY <2>1, <2>2, <2>3, <2>4
  <1>6. CASE DoBufferMapAsync
    <2>1. h.cmd = "MapAsync"
      BY <1>6 DEF DoBufferMapAsync, Receive
    <2>2. h.request \in Requests /\ reqBuffer[h.request] = h.buffer
      <3>1. h \in Commands
        BY <1>1, <1>2, LenProperties DEF ChannelTypeOK
      <3> QED
        BY <1>1, <1>2, <2>1, <3>1, CommandTypes DEF MapCommandInv
    <2>3. \/ /\ phase[h.buffer] = "unmapped" /\ kind[h.buffer] # "AtCreation"
             /\ phase' = [phase EXCEPT ![h.buffer] = "pending"]
             /\ nativeReply' = [nativeReply EXCEPT ![h.request] = "Waiting"]
          \/ UNCHANGED <<phase, owner, nativeReply>>
      BY <1>6, MapAsyncEffect
    <2>4. CASE /\ phase[h.buffer] = "unmapped" /\ kind[h.buffer] # "AtCreation"
               /\ phase' = [phase EXCEPT ![h.buffer] = "pending"]
               /\ nativeReply' = [nativeReply EXCEPT ![h.request] = "Waiting"]
      <3>1. /\ nativeReply'[h.request] = "Waiting"
            /\ \A r \in Requests : r # h.request => nativeReply'[r] = nativeReply[r]
        BY <1>3, <2>2, <2>4
      <3> QED
        BY <2>1, <2>2, <2>4, <3>1
    <2>5. CASE UNCHANGED <<phase, owner, nativeReply>>
      BY <2>1, <2>5
    <2> QED
      BY <2>3, <2>4, <2>5
  <1>7. CASE DoBufferUpdateMappedData
    <2>1. h.cmd = "UpdateMappedData"
      BY <1>7 DEF DoBufferUpdateMappedData, Receive
    <2>2. UNCHANGED <<phase, nativeReply>>
      BY <1>7, UpdateEffect
    <2> QED
      BY <2>1, <2>2
  <1>8. CASE DoBufferUnmap
    <2>1. h.cmd = "Unmap"
      BY <1>8 DEF DoBufferUnmap, Receive
    <2>2. \/ /\ phase[h.buffer] \in {"pending", "mapped"}
             /\ NativeAnswers(h.buffer, "Unmapped", "unmapped")
          \/ UNCHANGED <<phase, owner, nativeReply, toClient>>
      BY <1>8, UnmapEffect
    <2> QED
      BY <1>4, <2>1, <2>2
  <1>9. CASE DoBufferDestroy
    <2>1. h.cmd = "Destroy"
      BY <1>9 DEF DoBufferDestroy, Receive
    <2>2. \/ NativeAnswers(h.buffer, CallbackStatus("Destroyed"), "gone")
          \/ phase[h.buffer] = "error" /\ UNCHANGED <<phase, owner, nativeReply, toClient>>
      BY <1>9, DestroyEffect
    <2>3. CallbackStatus("Destroyed") \in {"Unmapped", "Destroyed", "DeviceLost"}
      BY DEF CallbackStatus
    <2> QED
      BY <1>4, <2>1, <2>2, <2>3
  <1>10. CASE DoDestroyObject
    <2>1. h.cmd = "DestroyObject"
      BY <1>10 DEF DoDestroyObject, Receive
    <2>2. /\ UNCHANGED nativeReply
          /\ phase'[h.buffer] = IF phase[h.buffer] \in {"error", "pending"} THEN phase[h.buffer]
                                                                          ELSE "gone"
      BY <1>10, DestroyObjectEffect
    <2> QED
      BY <2>1, <2>2
  <1> QED
    BY <1>5, <1>6, <1>7, <1>8, <1>9, <1>10 DEF ServerHandles

(* A step of the device is about one buffer, whose object is there if the  *)
(* table changes.                                                          *)
LEMMA DeviceShape ==
    ASSUME WireTypeOK, TalkInv, NEW b \in Buffers, Grant(b) \/ AnswerLost(b)
    PROVE  /\ phase[b] = "pending" /\ IsCreated(b)
           /\ UNCHANGED <<clientVars, requestVars, idVars, mDisconnected, toServer>>
           /\ phase'[b] \in {"mapped", "lost"}
           /\ \A x \in Buffers : (InServer(x)' <=> InServer(x)) /\ (x # b => phase'[x] = phase[x])
           /\ \A x \in Buffers : x # b /\ InServer(x) => known'[id[x]] = known[id[x]]
           /\ \A i \in Ids : known'[i].read = known[i].read /\ known'[i].write = known[i].write
           /\ InServer(b) =>
                 \/ known'[id[b]].mapWriteState = known[id[b]].mapWriteState
                 \/ known'[id[b]].mapWriteState = "Mapped"
           /\ \A r \in Requests :
                 /\ r # owner[b] => nativeReply'[r] = nativeReply[r]
                 /\ nativeReply'[r] = "None" <=> nativeReply[r] = "None"
           /\ nativeReply'[owner[b]] = "Success" /\ InServer(b) /\ MapsWrite(kind[b]) =>
                 known'[id[b]].mapWriteState = "Mapped"
           /\ owner[b] \in Requests /\ reqBuffer[owner[b]] = b
  <1>1. IdInv /\ KnownInv /\ PendingInv
    BY DEF TalkInv
  <1>2. /\ phase[b] = "pending"
        /\ UNCHANGED <<clientVars, requestVars, idVars, mDisconnected, toServer>>
        /\ \A i \in Ids : /\ known'[i].handle = known[i].handle
                          /\ known'[i].state = known[i].state
                          /\ known'[i].read = known[i].read /\ known'[i].write = known[i].write
                          /\ i # id[b] => known'[i] = known[i]
        /\ NativeAnswers(b, "Success", "mapped") \/ NativeAnswers(b, "DeviceLost", "lost")
    BY DeviceEffect
  <1>3. IsCreated(b) /\ id[b] \in Ids
    BY <1>1, <1>2, LiveIds DEF IdInv
  <1>4. \A x \in Buffers : IsCreated(x) => id[x] \in Ids
    BY <1>1, LiveIds
  <1>5. owner[b] \in Requests /\ reqBuffer[owner[b]] = b /\ nativeReply[owner[b]] = "Waiting"
    BY <1>1, <1>2 DEF PendingInv
  <1>6. UNCHANGED <<created, id>>
    BY <1>2 DEF clientVars
  <1>7. /\ nativeReply \in [Requests -> {"None", "Waiting"} \cup Statuses]
        /\ phase \in [Buffers -> {"none", "error", "unmapped", "pending", "mapped", "lost", "gone"}]
        /\ known \in [Ids -> Entry]
    BY DEF WireTypeOK
  <1>8. phase'[b] \in {"mapped", "lost"} /\ \A x \in Buffers : x # b => phase'[x] = phase[x]
    BY <1>2, <1>7 DEF NativeAnswers
  <1>9. PICK q \in Requests : q = owner[b]
    BY <1>5
  <1>10. /\ nativeReply'[q] \in {"Success", "DeviceLost"}
         /\ \A r \in Requests : r # q => nativeReply'[r] = nativeReply[r]
    BY <1>2, <1>7, <1>9 DEF NativeAnswers
  <1>11. \A x \in Buffers : InServer(x)' <=> InServer(x)
    BY <1>2, <1>4, <1>6 DEF InServer, IsCreated
  <1>12. /\ known' = known \/ InServer(b)
         /\ \/ known'[id[b]].mapWriteState = known[id[b]].mapWriteState
            \/ known'[id[b]].mapWriteState = "Mapped"
         /\ nativeReply'[q] = "Success" /\ InServer(b) /\ MapsWrite(kind[b]) =>
                 known'[id[b]].mapWriteState = "Mapped"
    <2>1. CASE AnswerLost(b)
      <3>1. known' = known /\ NativeAnswers(b, "DeviceLost", "lost")
        BY <2>1 DEF AnswerLost, ServerStep
      <3>2. nativeReply'[q] = "DeviceLost"
        BY <1>2, <1>7, <1>9, <3>1 DEF NativeAnswers
      <3> QED
        BY <3>1, <3>2
    <2>2. CASE Grant(b) /\ ~StillKnown(owner[b], b)
      <3>1. known' = known
        BY <2>2 DEF Grant, ServerStep
      <3>2. ~InServer(b)
        <4>1. SUFFICES ASSUME InServer(b) PROVE StillKnown(owner[b], b)
          BY <2>2
        <4> QED
          BY <1>1, <1>3, <4>1 DEF InServer, KnownInv, StillKnown
      <3> QED
        BY <3>1, <3>2
    <2>3. CASE Grant(b) /\ StillKnown(owner[b], b)
      <3>1. InServer(b)
        BY <1>3, <2>3, KnownIsThere
      <3>2. known' = IF MapsRead(kind[b]) THEN known
                     ELSE [known EXCEPT ![id[b]].mapWriteState = "Mapped"]
        BY <2>3 DEF Grant, ServerStep
      <3>3. CASE MapsRead(kind[b])
        <4>1. ~MapsWrite(kind[b])
          BY <3>3 DEF MapsRead, MapsWrite
        <4> QED
          BY <3>1, <3>2, <3>3, <4>1
      <3>4. CASE ~MapsRead(kind[b])
        <4>1. known'[id[b]] = [known[id[b]] EXCEPT !.mapWriteState = "Mapped"]
          BY <1>3, <1>7, <3>2, <3>4
        <4>2. known[id[b]] \in Entry
          BY <1>3, <1>7
        <4>3. known'[id[b]].mapWriteState = "Mapped"
          BY <4>1, <4>2 DEF Entry
        <4> QED
          BY <3>1, <4>3
      <3> QED
        BY <3>3, <3>4
    <2> QED
      BY <2>1, <2>2, <2>3
  <1>13. ASSUME NEW x \in Buffers, x # b, InServer(x)
         PROVE  known'[id[x]] = known[id[x]]
    <2>1. IsCreated(x) /\ known[id[x]].handle = x
      BY <1>13 DEF InServer
    <2>2. CASE id[x] # id[b]
      BY <1>2, <1>4, <2>1, <2>2
    <2>3. CASE id[x] = id[b]
      <3>1. ~InServer(b)
        BY <1>13, <2>1, <2>3 DEF InServer
      <3> QED
        BY <1>12, <3>1
    <2> QED
      BY <2>2, <2>3
  <1>14. \A r \in Requests : nativeReply'[r] = "None" <=> nativeReply[r] = "None"
    BY <1>5, <1>9, <1>10
  <1> QED
    BY <1>2, <1>3, <1>5, <1>8, <1>9, <1>10, <1>11, <1>12, <1>13, <1>14

-----------------------------------------------------------------------------
(* The handles a mapping needs.                                            *)

LEMMA EachHandles ==
    ASSUME \A x \in Buffers : Handles(x)'
    PROVE  HandleInv'
  BY DEF HandleInv

LEMMA HandlesKept ==
    ASSUME NEW x \in Buffers, Handles(x), id'[x] = id[x], kind'[x] = kind[x],
           InServer(x)' /\ phase'[x] \notin {"gone", "error"} =>
               /\ InServer(x) /\ phase[x] \notin {"gone", "error"}
               /\ MapsRead(kind[x]) /\ known[id[x]].read => known'[id[x]].read
               /\ MapsWrite(kind[x]) /\ known[id[x]].write => known'[id[x]].write,
           mMapState'[x] = mMapState[x] \/ mMapState'[x] = "Unmapped",
           phase'[x] = "pending" => phase[x] = "pending" \/ kind[x] # "AtCreation",
           \A r \in Requests : reqBuffer'[r] = x /\ nativeReply'[r] # "None" =>
               (reqBuffer[r] = x /\ nativeReply[r] # "None") \/ kind[x] # "AtCreation"
    PROVE  Handles(x)'
  <1>1. /\ InServer(x)' /\ phase'[x] \notin {"gone", "error"} =>
              /\ MapsRead(kind'[x]) => known'[id'[x]].read
              /\ MapsWrite(kind'[x]) => known'[id'[x]].write
    BY DEF Handles
  <1>2. /\ mMapState'[x] = "MappedForRead" => MapsRead(kind'[x])
        /\ mMapState'[x] = "MappedForWrite" => MapsWrite(kind'[x])
        /\ mMapState'[x] = "MappedAtCreation" => AtCreation(kind'[x])
    BY DEF Handles
  <1>3. /\ phase'[x] = "pending" => kind'[x] # "AtCreation"
        /\ \A r \in Requests : reqBuffer'[r] = x /\ nativeReply'[r] # "None" =>
              kind'[x] # "AtCreation"
    BY DEF Handles
  <1> QED
    BY <1>1, <1>2, <1>3 DEF Handles, MapsRead, MapsWrite, AtCreation

LEMMA ServerHandlesKept ==
    ASSUME WireTypeOK, TalkInv, HandleInv, ServerHandles, Running'
    PROVE  HandleInv'
  <1> PICK h : h = Head(toServer)
    OBVIOUS
  <1>1. /\ h.buffer \in Buffers /\ h.id \in Ids /\ h.id = id[h.buffer]
        /\ UNCHANGED <<clientVars, requestVars>>
        /\ h.cmd # "Create" => InServer(h.buffer)
        /\ InServer(h.buffer)' <=> h.cmd # "DestroyObject"
        /\ \A x \in Buffers : x # h.buffer =>
              /\ InServer(x)' <=> InServer(x)
              /\ InServer(x) => known'[id[x]] = known[id[x]]
              /\ phase'[x] = phase[x]
    BY ServerShape
  <1>2. UNCHANGED <<id, kind, mMapState, reqBuffer>>
    BY <1>1 DEF clientVars, requestVars
  <1>3. \A r \in Requests :
              /\ reqBuffer[r] # h.buffer => nativeReply'[r] = nativeReply[r]
              /\ nativeReply'[r] # "None" => nativeReply[r] # "None" \/ kind[h.buffer] # "AtCreation"
    BY ServerReplies
  <1>4. /\ phase[h.buffer] \in {"gone", "error"} => phase'[h.buffer] \in {"gone", "error"}
        /\ h.cmd = "Destroy" => phase'[h.buffer] \in {"gone", "error"}
        /\ phase'[h.buffer] = "pending" =>
              phase[h.buffer] = "pending" \/ kind[h.buffer] # "AtCreation"
    BY ServerReplies
  <1>5. \A x \in Buffers : Handles(x)
    BY DEF HandleInv
  <1>6. ASSUME NEW x \in Buffers, x # h.buffer
        PROVE  Handles(x)'
    BY <1>1, <1>2, <1>3, <1>5, <1>6, HandlesKept
  <1>7. PICK y : y = h.buffer
    OBVIOUS
  <1>8. Handles(y)'
    <2>1. CASE DoDeviceCreateBuffer
      <3>1. /\ known'[h.id].write <=> MapsWrite(kind[y]) \/ AtCreation(kind[y])
            /\ phase'[y] = "error" \/ (known'[h.id].read <=> MapsRead(kind[y]))
            /\ phase'[y] \in {"error", "mapped", "unmapped"} /\ nativeReply' = nativeReply
        BY <1>7, <2>1, CreateEffect
      <3>2. /\ phase'[y] \notin {"gone", "error"} =>
                  /\ MapsRead(kind'[y]) => known'[id'[y]].read
                  /\ MapsWrite(kind'[y]) => known'[id'[y]].write
            /\ phase'[y] # "pending"
        BY <1>1, <1>2, <1>7, <3>1
      <3>3. Handles(y)
        BY <1>1, <1>5, <1>7
      <3>4. /\ mMapState'[y] = "MappedForRead" => MapsRead(kind'[y])
            /\ mMapState'[y] = "MappedForWrite" => MapsWrite(kind'[y])
            /\ mMapState'[y] = "MappedAtCreation" => AtCreation(kind'[y])
            /\ \A r \in Requests : reqBuffer'[r] = y /\ nativeReply'[r] # "None" =>
                  kind'[y] # "AtCreation"
        BY <1>2, <3>1, <3>3 DEF Handles
      <3> QED
        BY <3>2, <3>4 DEF Handles, MapsRead, MapsWrite, AtCreation
    <2>2. CASE ~DoDeviceCreateBuffer
      <3>1. h.cmd # "Create"
        BY <2>2 DEF ServerHandles, DoBufferMapAsync, DoBufferUpdateMappedData, DoBufferUnmap,
                    DoBufferDestroy, DoDestroyObject, Receive
      <3>2. InServer(y)' /\ phase'[y] \notin {"gone", "error"} =>
                /\ InServer(y) /\ phase[y] \notin {"gone", "error"}
                /\ MapsRead(kind[y]) /\ known[id[y]].read => known'[id[y]].read
                /\ MapsWrite(kind[y]) /\ known[id[y]].write => known'[id[y]].write
        <4>1. CASE DoBufferMapAsync
          <5>1. known' = known
            BY <4>1, MapAsyncEffect
          <5> QED
            BY <1>1, <1>4, <1>7, <3>1, <5>1
        <4>2. CASE DoBufferUpdateMappedData
          <5>1. known' = known
            BY <4>2, UpdateEffect
          <5> QED
            BY <1>1, <1>4, <1>7, <3>1, <5>1
        <4>3. CASE DoBufferUnmap
          <5>1. /\ known'[h.id].read = known[h.id].read
                /\ known'[h.id].write <=> known[h.id].write /\ ~ForCreation(kind[h.buffer])
            BY <4>3, UnmapEffect
          <5>2. MapsWrite(kind[y]) => ~ForCreation(kind[y])
            BY DEF ForCreation
          <5> QED
            BY <1>1, <1>4, <1>7, <3>1, <5>1, <5>2
        <4>4. CASE DoBufferDestroy
          BY <1>4, <1>7, <4>4 DEF DoBufferDestroy, Receive
        <4>5. CASE DoDestroyObject
          BY <1>1, <1>7, <4>5 DEF DoDestroyObject, Receive
        <4> QED
          BY <2>2, <4>1, <4>2, <4>3, <4>4, <4>5 DEF ServerHandles
      <3>3. y \in Buffers /\ Handles(y)
        BY <1>1, <1>5, <1>7
      <3> QED
        BY <1>2, <1>3, <1>4, <1>7, <3>2, <3>3, HandlesKept
    <2> QED
      BY <2>1, <2>2
  <1> QED
    BY <1>6, <1>7, <1>8, EachHandles

LEMMA DeviceHandlesKept ==
    ASSUME WireTypeOK, TalkInv, HandleInv, NEW b \in Buffers, Grant(b) \/ AnswerLost(b)
    PROVE  HandleInv'
  <1>1. /\ phase[b] = "pending"
        /\ UNCHANGED <<clientVars, requestVars>>
        /\ phase'[b] \in {"mapped", "lost"}
        /\ \A x \in Buffers : (InServer(x)' <=> InServer(x)) /\ (x # b => phase'[x] = phase[x])
        /\ \A i \in Ids : known'[i].read = known[i].read /\ known'[i].write = known[i].write
        /\ \A r \in Requests : nativeReply'[r] = "None" <=> nativeReply[r] = "None"
    BY DeviceShape
  <1>2. UNCHANGED <<id, kind, mMapState, reqBuffer>>
    BY <1>1 DEF clientVars, requestVars
  <1>3. \A x \in Buffers : Handles(x)
    BY DEF HandleInv
  <1>4. \A x \in Buffers : InServer(x) => id[x] \in Ids
    BY LiveIds DEF TalkInv, InServer
  <1>5. ASSUME NEW x \in Buffers
        PROVE  Handles(x)'
    <2>1. phase'[x] = phase[x] \/ (phase[x] = "pending" /\ phase'[x] \in {"mapped", "lost"})
      BY <1>1
    <2>2. InServer(x) => known'[id[x]].read = known[id[x]].read /\ known'[id[x]].write = known[id[x]].write
      BY <1>1, <1>4
    <2> QED
      BY <1>1, <1>2, <1>3, <2>1, <2>2, HandlesKept
  <1> QED
    BY <1>5, EachHandles

(* The client's steps: the table and the phases stay.                      *)
LEMMA ClientHandlesKept ==
    ASSUME WireTypeOK, TalkInv, HandleInv,
           \/ \E b \in Buffers : Unmap(b) \/ Destroy(b) \/ Release(b)
           \/ Disconnect \/ LoseDevice \/ UNCHANGED vars
    PROVE  HandleInv'
  <1>1. /\ UNCHANGED <<created, id, kind, known, phase, nativeReply, reqBuffer>>
        /\ \A x \in Buffers : mMapState'[x] = mMapState[x] \/ mMapState'[x] = "Unmapped"
    <2>1. mMapState \in [Buffers -> {"Unmapped", "MappedForRead", "MappedForWrite",
                                     "MappedAtCreation"}]
      BY DEF WireTypeOK
    <2>2. ASSUME NEW b \in Buffers, Unmap(b)
          PROVE  /\ UNCHANGED <<created, id, kind, known, phase, nativeReply, reqBuffer>>
                 /\ mMapState' = [mMapState EXCEPT ![b] = "Unmapped"]
      BY <2>2 DEF Unmap, serverVars, nativeVars
    <2>3. ASSUME NEW b \in Buffers, Destroy(b)
          PROVE  UNCHANGED <<created, id, kind, known, phase, nativeReply, reqBuffer, mMapState>>
      BY <2>3 DEF Destroy, serverVars, nativeVars
    <2>4. ASSUME NEW b \in Buffers, Release(b)
          PROVE  UNCHANGED <<created, id, kind, known, phase, nativeReply, reqBuffer, mMapState>>
      BY <2>4 DEF Release, serverVars, nativeVars
    <2>5. ASSUME Disconnect \/ LoseDevice \/ UNCHANGED vars
          PROVE  UNCHANGED <<created, id, kind, known, phase, nativeReply, reqBuffer, mMapState>>
      BY <2>5 DEF Disconnect, LoseDevice, vars, clientVars, requestVars, serverVars, nativeVars
    <2> QED
      BY <2>1, <2>2, <2>3, <2>4, <2>5
  <1>2. \A x \in Buffers : InServer(x)' <=> InServer(x)
    BY <1>1 DEF InServer, IsCreated
  <1>3. ASSUME NEW x \in Buffers
        PROVE  Handles(x)'
    <2>1. Handles(x)
      BY DEF HandleInv
    <2> QED
      BY <1>1, <1>2, <2>1, HandlesKept
  <1> QED
    BY <1>3, EachHandles

LEMMA MapAsyncHandlesKept ==
    ASSUME WireTypeOK, TalkInv, HandleInv, NEW r \in Requests, NEW b \in Buffers, MapAsync(r, b)
    PROVE  HandleInv'
  <1>1. /\ nativeReply[r] = "None"
        /\ UNCHANGED <<created, kind, id, mMapState, known, phase, nativeReply>>
        /\ \A q \in Requests : q # r => reqBuffer'[q] = reqBuffer[q]
    BY MapAsyncSends
  <1>2. \A x \in Buffers : InServer(x)' <=> InServer(x)
    BY <1>1 DEF InServer, IsCreated
  <1>3. ASSUME NEW x \in Buffers
        PROVE  Handles(x)'
    <2>1. Handles(x)
      BY DEF HandleInv
    <2> QED
      BY <1>1, <1>2, <2>1, HandlesKept
  <1> QED
    BY <1>3, EachHandles

LEMMA CreateHandlesKept ==
    ASSUME WireTypeOK, TalkInv, HandleInv, NEW k \in Kinds, CreateBuffer(k)
    PROVE  HandleInv'
  <1>0. SerialInv
    BY DEF TalkInv
  <1>1. PICK b : b = created + 1
    OBVIOUS
  <1>2. /\ b \in Buffers /\ ~IsCreated(b) /\ phase[b] = "none"
        /\ kind'[b] = k /\ ~InServer(b)'
        /\ mMapState'[b] = IF AtCreation(k) THEN "MappedAtCreation" ELSE "Unmapped"
        /\ \A x \in Buffers : x # b => /\ id'[x] = id[x] /\ kind'[x] = kind[x]
                                       /\ mMapState'[x] = mMapState[x]
                                       /\ InServer(x)' <=> InServer(x)
        /\ UNCHANGED <<known, phase, nativeReply, reqBuffer>>
    BY <1>1, CreateSends
  <1>3. \A r \in Requests : reqBuffer[r] = b => nativeReply[r] = "None"
    BY <1>0, <1>2 DEF SerialInv
  <1>4. Handles(b)'
    BY <1>2, <1>3 DEF Handles, MapsRead, MapsWrite, AtCreation
  <1>5. ASSUME NEW x \in Buffers, x # b
        PROVE  Handles(x)'
    <2>1. Handles(x)
      BY DEF HandleInv
    <2> QED
      BY <1>2, <1>5, <2>1, HandlesKept
  <1> QED
    BY <1>4, <1>5, EachHandles

LEMMA CallbackHandlesKept ==
    ASSUME WireTypeOK, TalkInv, HandleInv, OnMapAsyncCallback
    PROVE  HandleInv'
  <1>1. /\ UNCHANGED <<created, kind, id, reqBuffer, serverVars, nativeVars>>
        /\ \/ UNCHANGED <<answer, clientStatus, mMapState, unflushed>>
           \/ \E r \in Requests, b \in Buffers, reply \in Statuses :
                 /\ AnswerRequest(r, b, reply) /\ reqBuffer[r] = b
                 /\ reply = "Success" => nativeReply[r] = "Success"
    BY CallbackEffect
  <1>2. UNCHANGED <<created, kind, id, reqBuffer, known, phase, nativeReply>>
    BY <1>1 DEF serverVars, nativeVars
  <1>3. \A x \in Buffers : InServer(x)' <=> InServer(x)
    BY <1>2 DEF InServer, IsCreated
  <1>4. ASSUME NEW x \in Buffers, mMapState'[x] = mMapState[x]
        PROVE  Handles(x)'
    <2>1. Handles(x)
      BY DEF HandleInv
    <2> QED
      BY <1>2, <1>3, <1>4, <2>1, HandlesKept
  <1>5. CASE UNCHANGED <<answer, clientStatus, mMapState, unflushed>>
    BY <1>4, <1>5, EachHandles
  <1>6. ASSUME NEW r \in Requests, NEW b \in Buffers, NEW reply \in Statuses,
               AnswerRequest(r, b, reply), reqBuffer[r] = b,
               reply = "Success" => nativeReply[r] = "Success"
        PROVE  HandleInv'
    <2>1. mMapState \in [Buffers -> {"Unmapped", "MappedForRead", "MappedForWrite",
                                     "MappedAtCreation"}]
      BY DEF WireTypeOK
    <2>2. \A x \in Buffers : x # b => mMapState'[x] = mMapState[x]
      BY <1>6, <2>1 DEF AnswerRequest
    <2>3. \/ mMapState'[b] = mMapState[b]
          \/ /\ reply = "Success"
             /\ mMapState'[b] = IF MapsRead(kind[b]) THEN "MappedForRead" ELSE "MappedForWrite"
      BY <1>6, <2>1 DEF AnswerRequest, FinalStatus
    <2>4. CASE mMapState'[b] = mMapState[b]
      BY <1>4, <2>2, <2>4, EachHandles
    <2>5. CASE /\ reply = "Success"
               /\ mMapState'[b] = IF MapsRead(kind[b]) THEN "MappedForRead" ELSE "MappedForWrite"
      <3>1. Handles(b)
        BY DEF HandleInv
      <3>2. kind[b] # "AtCreation"
        BY <1>6, <2>5, <3>1 DEF Handles
      <3>3. kind[b] \in AllKinds
        BY DEF WireTypeOK
      <3>4. /\ mMapState'[b] = "MappedForRead" => MapsRead(kind'[b])
            /\ mMapState'[b] = "MappedForWrite" => MapsWrite(kind'[b])
            /\ mMapState'[b] # "MappedAtCreation"
        BY <1>2, <2>5, <3>2, <3>3 DEF MapsRead, MapsWrite, AllKinds
      <3>5. /\ InServer(b)' /\ phase'[b] \notin {"gone", "error"} =>
                  /\ MapsRead(kind'[b]) => known'[id'[b]].read
                  /\ MapsWrite(kind'[b]) => known'[id'[b]].write
            /\ kind'[b] # "AtCreation"
        BY <1>2, <1>3, <3>1, <3>2 DEF Handles
      <3>6. Handles(b)'
        BY <3>4, <3>5 DEF Handles, MapsRead, MapsWrite, AtCreation
      <3> QED
        BY <1>4, <2>2, <3>6, EachHandles
    <2> QED
      BY <2>3, <2>4, <2>5
  <1> QED
    BY <1>1, <1>5, <1>6

-----------------------------------------------------------------------------
(* The server takes what the client writes.                                *)

LEMMA EachWrites ==
    ASSUME \A x \in Buffers : Writes(x)'
    PROVE  WriteInv'
  BY DEF WriteInv

(* A buffer, after a step.                                                 *)
LEMMA WritesParts ==
    ASSUME NEW x \in Buffers,
           \A r \in Requests :
               reqBuffer'[r] = x /\ Safe(r)' /\ nativeReply'[r] = "Success" /\ MapsWrite(kind'[x])
                   => InServer(x)' /\ known'[id'[x]].mapWriteState = "Mapped",
           ClientMaps(x)' /\ MapsWrite(kind'[x])
               => InServer(x)' /\ known'[id'[x]].mapWriteState = "Mapped",
           mMapState'[x] = "MappedAtCreation" /\ mWriteHandle'[x] =>
               /\ ~OnWay(x, Ends)'
               /\ phase'[x] = "none" \/ (phase'[x] \in {"mapped", "error"} /\ Takes(x)'),
           \A j \in DOMAIN toServer' :
               toServer'[j].buffer = x /\ toServer'[j].cmd = "UpdateMappedData" =>
                   /\ ~Before(j, x, Ends)'
                   /\ (phase'[x] = "none" /\ AtCreation(kind'[x])) \/ Takes(x)'
    PROVE  Writes(x)'
  BY DEF Writes, MapsWrite, AtCreation

(* The server has handled a command for another buffer, or one that leaves *)
(* the mapping of x as it is.                                              *)
LEMMA WritesTaken ==
    ASSUME ChannelTypeOK, NEW x \in Buffers, Writes(x), toServer # <<>>, toServer' = Tail(toServer),
           UNCHANGED <<clientVars, requestVars>>,
           InServer(x) => InServer(x)' /\ known'[id[x]] = known[id[x]],
           phase'[x] = phase[x] \/ (Takes(x) /\ phase[x] \notin {"none", "mapped", "error"}),
           \A r \in Requests :
               reqBuffer[r] = x /\ nativeReply'[r] = "Success" => nativeReply[r] = "Success"
    PROVE  Writes(x)'
  <1>1. UNCHANGED <<id, kind, mMapState, mReadHandle, mWriteHandle, reqBuffer, answer, clientStatus>>
    BY DEF clientVars, requestVars
  <1>2. toServer \in Seq(Commands)
    BY DEF ChannelTypeOK
  <1>3. /\ \A j \in DOMAIN toServer' : \A y, n : Before(j + 1, y, n) <=>
              Before(j, y, n)' \/ (toServer[1].buffer = y /\ toServer[1].cmd \in n)
        /\ \A y, n : OnWay(y, n) <=>
              OnWay(y, n)' \/ (toServer[1].buffer = y /\ toServer[1].cmd \in n)
    BY <1>2, TakenBefore
  <1>4. \A j \in DOMAIN toServer' : j + 1 \in DOMAIN toServer /\ toServer'[j] = toServer[j + 1]
    BY <1>2, Shrunk
  <1>5. Takes(x) => Takes(x)'
    BY <1>1 DEF Takes
  <1>6. \A r : Safe(r)' <=> Safe(r)
    BY <1>1 DEF Safe, Waiting
  <1>7. ClientMaps(x)' <=> ClientMaps(x)
    BY <1>1 DEF ClientMaps
  <1>8. ASSUME NEW r \in Requests, reqBuffer'[r] = x, Safe(r)', nativeReply'[r] = "Success",
               MapsWrite(kind'[x])
        PROVE  InServer(x)' /\ known'[id'[x]].mapWriteState = "Mapped"
    <2>1. reqBuffer[r] = x /\ Safe(r) /\ nativeReply[r] = "Success" /\ MapsWrite(kind[x])
      BY <1>1, <1>6, <1>8
    <2>2. InServer(x) /\ known[id[x]].mapWriteState = "Mapped"
      BY <2>1 DEF Writes
    <2> QED
      BY <1>1, <2>2
  <1>9. ASSUME ClientMaps(x)', MapsWrite(kind'[x])
        PROVE  InServer(x)' /\ known'[id'[x]].mapWriteState = "Mapped"
    <2>1. InServer(x) /\ known[id[x]].mapWriteState = "Mapped"
      BY <1>1, <1>7, <1>9 DEF Writes
    <2> QED
      BY <1>1, <2>1
  <1>10. ASSUME mMapState'[x] = "MappedAtCreation", mWriteHandle'[x]
         PROVE  /\ ~OnWay(x, Ends)'
                /\ phase'[x] = "none" \/ (phase'[x] \in {"mapped", "error"} /\ Takes(x)')
    <2>1. /\ ~OnWay(x, Ends)
          /\ phase[x] = "none" \/ (phase[x] \in {"mapped", "error"} /\ Takes(x))
      BY <1>1, <1>10 DEF Writes
    <2> QED
      BY <1>3, <1>5, <2>1
  <1>11. ASSUME NEW j \in DOMAIN toServer', toServer'[j].buffer = x,
                toServer'[j].cmd = "UpdateMappedData"
         PROVE  /\ ~Before(j, x, Ends)'
                /\ (phase'[x] = "none" /\ AtCreation(kind'[x])) \/ Takes(x)'
    <2>1. /\ ~Before(j + 1, x, Ends)
          /\ (phase[x] = "none" /\ AtCreation(kind[x])) \/ Takes(x)
      BY <1>4, <1>11 DEF Writes
    <2> QED
      BY <1>1, <1>3, <1>5, <2>1
  <1> QED
    BY <1>8, <1>9, <1>10, <1>11, WritesParts

(* A command that ends the mappings of x or releases it finds none in use. *)
LEMMA WritesEnded ==
    ASSUME WireTypeOK, TalkInv, SafeInv, MappedInv, NEW x \in Buffers, Writes(x), toServer # <<>>,
           toServer' = Tail(toServer), UNCHANGED <<clientVars, requestVars>>,
           toServer[1].buffer = x, toServer[1].cmd \in Ends \cup {"DestroyObject"},
           \A r \in Requests : nativeReply'[r] = "Success" => nativeReply[r] = "Success"
    PROVE  Writes(x)'
  <1>1. UNCHANGED <<id, kind, live, mMapState, mReadHandle, mWriteHandle, reqBuffer, answer,
                    clientStatus>>
    BY DEF clientVars, requestVars
  <1>2. toServer \in Seq(Commands) /\ CommandInv /\ SerialInv /\ MapCommandInv
    BY DEF TalkInv, ChannelTypeOK
  <1>3. 1 \in DOMAIN toServer /\ \A j \in DOMAIN toServer' :
            j \in Nat /\ j >= 1 /\ j + 1 \in DOMAIN toServer /\ toServer'[j] = toServer[j + 1]
    BY <1>2, Shrunk
  <1>4. PICK h : h = toServer[1]
    OBVIOUS
  <1>5. InOrder(1, h)
    BY <1>2, <1>3, <1>4 DEF CommandInv
  <1>6. h.cmd \in Ends => OnWay(x, Ends)
    BY <1>3, <1>4 DEF OnWay
  <1>7. h.cmd = "DestroyObject" => ~live[x]
    BY <1>4, <1>5 DEF InOrder
  <1>8. ASSUME NEW r \in Requests, reqBuffer'[r] = x, Safe(r)', nativeReply'[r] = "Success"
        PROVE  FALSE
    <2>1. reqBuffer[r] = x /\ Safe(r) /\ nativeReply[r] = "Success"
      BY <1>1, <1>8 DEF Safe, Waiting
    <2>2. live[x]
      BY <1>2, <2>1 DEF SerialInv, Safe
    <2>3. ~MapOnWay(r)
      BY <1>2, <2>1 DEF MapOnWay, MapCommandInv
    <2>4. ~OnWay(x, Ends)
      BY <2>1, <2>3 DEF SafeInv, Unended
    <2> QED
      BY <1>4, <1>6, <1>7, <2>2, <2>4
  <1>9. ~ClientMaps(x)'
    <2>1. ~ClientMaps(x)
      BY <1>4, <1>6, <1>7 DEF MappedInv, ClientMaps
    <2> QED
      BY <1>1, <2>1 DEF ClientMaps
  <1>10. ~(mMapState'[x] = "MappedAtCreation" /\ mWriteHandle'[x])
    BY <1>1, <1>4, <1>6, <1>7 DEF Writes, MappedInv
  <1>11. ASSUME NEW j \in DOMAIN toServer', toServer'[j].buffer = x,
                toServer'[j].cmd = "UpdateMappedData"
         PROVE  FALSE
    <2>1. PICK m : m = toServer[j + 1]
      OBVIOUS
    <2>2. m.buffer = x /\ m.cmd = "UpdateMappedData" /\ j + 1 \in DOMAIN toServer
      BY <1>3, <1>11, <2>1
    <2>3. 1 \in 1..(j + 1 - 1)
      BY <1>3
    <2>4. h.cmd \in Ends => Before(j + 1, x, Ends)
      BY <1>4, <2>3 DEF Before
    <2>5. h.cmd # "DestroyObject"
      BY <1>2, <1>4, <2>1, <2>2, <2>3 DEF CommandInv, InOrder
    <2>6. ~Before(j + 1, x, Ends)
      BY <2>1, <2>2 DEF Writes
    <2> QED
      BY <1>4, <2>4, <2>5, <2>6
  <1> QED
    BY <1>8, <1>9, <1>10, <1>11, WritesParts

LEMMA ServerWrites ==
    ASSUME WireTypeOK, TalkInv, SafeInv, MappedInv, HandleInv, WriteInv, ServerHandles, Running'
    PROVE  WriteInv'
  <1> PICK h : h = Head(toServer)
    OBVIOUS
  <1>0. ChannelTypeOK /\ KnownInv
    BY DEF TalkInv
  <1>1. /\ toServer # <<>> /\ toServer' = Tail(toServer) /\ h = toServer[1]
        /\ 1 \in DOMAIN toServer /\ h.cmd \in Names /\ h.buffer \in Buffers /\ h.id \in Ids
        /\ h.id = id[h.buffer] /\ InOrder(1, h)
        /\ UNCHANGED <<clientVars, requestVars>>
        /\ h.cmd # "Create" => InServer(h.buffer)
        /\ InServer(h.buffer)' <=> h.cmd # "DestroyObject"
        /\ \A x \in Buffers : x # h.buffer =>
              /\ InServer(x)' <=> InServer(x)
              /\ InServer(x) => known'[id[x]] = known[id[x]]
              /\ phase'[x] = phase[x]
    BY ServerShape
  <1>2. \A r \in Requests : nativeReply'[r] = "Success" => nativeReply[r] = "Success"
    BY ServerReplies
  <1>3. \A x \in Buffers : Writes(x)
    BY DEF WriteInv
  <1>4. ASSUME NEW x \in Buffers, x # h.buffer
        PROVE  Writes(x)'
    BY <1>0, <1>1, <1>2, <1>3, <1>4, WritesTaken
  <1>5. PICK y \in Buffers : y = h.buffer
    BY <1>1
  <1>6. Writes(y)
    BY <1>3
  <1>7. CASE h.cmd \in Ends \cup {"DestroyObject"}
    <2>1. Writes(y)'
      BY <1>1, <1>2, <1>5, <1>6, <1>7, WritesEnded
    <2> QED
      BY <1>4, <1>5, <2>1, EachWrites
  <1>8. CASE h.cmd \in {"MapAsync", "UpdateMappedData"}
    <2>1. InServer(y) /\ InServer(y)'
      BY <1>1, <1>5, <1>8
    <2>2. phase[y] # "none"
      BY <1>0, <1>1, <1>5, <2>1 DEF KnownInv, InServer
    <2>3. known' = known /\ (phase'[y] = phase[y] \/ phase[y] = "unmapped")
      <3>1. CASE DoBufferMapAsync
        BY <1>5, <3>1, MapAsyncEffect
      <3>2. CASE DoBufferUpdateMappedData
        BY <3>2, UpdateEffect
      <3> QED
        BY <1>8, <3>1, <3>2 DEF ServerHandles, DoDeviceCreateBuffer, DoBufferUnmap, DoBufferDestroy,
                                DoDestroyObject, Receive
    <2>4. CASE phase'[y] = phase[y]
      <3>1. Writes(y)'
        BY <1>0, <1>1, <1>2, <1>6, <2>1, <2>3, <2>4, WritesTaken
      <3> QED
        BY <1>4, <1>5, <3>1, EachWrites
    <2>5. CASE phase[y] = "unmapped"
      <3>1. CASE Takes(y)
        <4>1. Writes(y)'
          BY <1>0, <1>1, <1>2, <1>6, <2>1, <2>3, <2>5, <3>1, WritesTaken
        <4> QED
          BY <1>4, <1>5, <4>1, EachWrites
      <3>2. CASE ~Takes(y)
        <4>1. UNCHANGED <<id, kind, mMapState, mReadHandle, mWriteHandle, reqBuffer, answer,
                          clientStatus>>
          BY <1>1 DEF clientVars, requestVars
        <4>2. ~(mMapState'[y] = "MappedAtCreation" /\ mWriteHandle'[y])
          BY <1>6, <2>5, <4>1 DEF Writes
        <4>3. toServer \in Seq(Commands)
          BY <1>0 DEF ChannelTypeOK
        <4>4. \A j \in DOMAIN toServer' : j + 1 \in DOMAIN toServer /\ toServer'[j] = toServer[j + 1]
          BY <1>1, <4>3, Shrunk
        <4>5. \A j \in DOMAIN toServer' :
                  ~(toServer'[j].buffer = y /\ toServer'[j].cmd = "UpdateMappedData")
          BY <1>6, <2>2, <3>2, <4>4 DEF Writes
        <4>6. ASSUME NEW r \in Requests, reqBuffer'[r] = y, Safe(r)', nativeReply'[r] = "Success",
                     MapsWrite(kind'[y])
              PROVE  InServer(y)' /\ known'[id'[y]].mapWriteState = "Mapped"
          <5>1. reqBuffer[r] = y /\ Safe(r) /\ nativeReply[r] = "Success" /\ MapsWrite(kind[y])
            BY <1>2, <4>1, <4>6 DEF Safe, Waiting
          <5>2. known[id[y]].mapWriteState = "Mapped"
            BY <1>6, <5>1 DEF Writes
          <5> QED
            BY <2>1, <2>3, <4>1, <5>2
        <4>7. ~ClientMaps(y)'
          BY <2>5, <4>1 DEF MappedInv, ClientMaps
        <4>8. Writes(y)'
          BY <4>2, <4>5, <4>6, <4>7, WritesParts
        <4> QED
          BY <1>4, <1>5, <4>8, EachWrites
      <3> QED
        BY <3>1, <3>2
    <2> QED
      BY <2>3, <2>4, <2>5
  <1>9. CASE h.cmd = "Create"
    <2>1. phase[y] = "none"
      BY <1>1, <1>5, <1>9 DEF InOrder
    <2>2. ~InServer(y)
      BY <1>0, <1>1, <1>5, <2>1 DEF InServer, KnownInv
    <2>3. UNCHANGED <<id, kind, mMapState, mReadHandle, mWriteHandle, reqBuffer, answer,
                      clientStatus>>
      BY <1>1 DEF clientVars, requestVars
    <2>4. DoDeviceCreateBuffer
      BY <1>9 DEF ServerHandles, DoBufferMapAsync, DoBufferUpdateMappedData, DoBufferUnmap,
                  DoBufferDestroy, DoDestroyObject, Receive
    <2>5. AtCreation(kind[y]) => Takes(y)' /\ phase'[y] \in {"mapped", "error"}
      <3>1. SUFFICES ASSUME AtCreation(kind[y]) PROVE Takes(y)' /\ phase'[y] \in {"mapped", "error"}
        OBVIOUS
      <3>2. /\ known'[h.id].write /\ known'[h.id].mapWriteState \in {"Mapped", "MapError"}
            /\ phase'[y] \in {"mapped", "error"}
        BY <1>5, <2>4, <3>1, CreateEffect
      <3>3. InServer(y)' /\ id'[y] = h.id
        BY <1>1, <1>5, <1>9, <2>3
      <3> QED
        BY <3>2, <3>3 DEF Takes
    <2>6. toServer \in Seq(Commands)
      BY <1>0 DEF ChannelTypeOK
    <2>7. \A j \in DOMAIN toServer' : j + 1 \in DOMAIN toServer /\ toServer'[j] = toServer[j + 1]
      BY <1>1, <2>6, Shrunk
    <2>8. /\ \A j \in DOMAIN toServer' : \A n : Before(j, y, n)' => Before(j + 1, y, n)
          /\ \A n : OnWay(y, n)' => OnWay(y, n)
      BY <1>1, <2>6, TakenBefore
    <2>9. ASSUME NEW r \in Requests, reqBuffer'[r] = y, Safe(r)', nativeReply'[r] = "Success",
                 MapsWrite(kind'[y])
          PROVE  FALSE
      <3>1. reqBuffer[r] = y /\ Safe(r) /\ nativeReply[r] = "Success" /\ MapsWrite(kind[y])
        BY <1>2, <2>3, <2>9 DEF Safe, Waiting
      <3> QED
        BY <1>6, <2>2, <3>1 DEF Writes
    <2>10. ~ClientMaps(y)'
      BY <2>1, <2>3 DEF MappedInv, ClientMaps
    <2>11. ASSUME mMapState'[y] = "MappedAtCreation", mWriteHandle'[y]
           PROVE  /\ ~OnWay(y, Ends)'
                  /\ phase'[y] \in {"mapped", "error"} /\ Takes(y)'
      <3>1. AtCreation(kind[y])
        BY <2>3, <2>11 DEF HandleInv, Handles
      <3>2. ~OnWay(y, Ends)
        BY <1>6, <2>3, <2>11 DEF Writes
      <3> QED
        BY <2>5, <2>8, <3>1, <3>2
    <2>12. ASSUME NEW j \in DOMAIN toServer', toServer'[j].buffer = y,
                  toServer'[j].cmd = "UpdateMappedData"
           PROVE  ~Before(j, y, Ends)' /\ Takes(y)'
      <3>1. ~Before(j + 1, y, Ends) /\ ((phase[y] = "none" /\ AtCreation(kind[y])) \/ Takes(y))
        BY <1>6, <2>7, <2>12 DEF Writes
      <3>2. AtCreation(kind[y])
        BY <2>2, <3>1 DEF Takes
      <3> QED
        BY <2>5, <2>8, <3>1, <3>2
    <2>13. Writes(y)'
      BY <2>9, <2>10, <2>11, <2>12, WritesParts
    <2> QED
      BY <1>4, <1>5, <2>13, EachWrites
  <1> QED
    BY <1>1, <1>7, <1>8, <1>9 DEF Names, Ends

LEMMA DeviceWrites ==
    ASSUME WireTypeOK, TalkInv, SafeInv, MappedInv, WriteInv, NEW b \in Buffers,
           Grant(b) \/ AnswerLost(b)
    PROVE  WriteInv'
  <1>0. IdInv /\ CommandInv /\ LiveInv /\ SerialInv
    BY DEF TalkInv
  <1>1. /\ phase[b] = "pending"
        /\ UNCHANGED <<clientVars, requestVars, mDisconnected, toServer>>
        /\ \A x \in Buffers : (InServer(x)' <=> InServer(x)) /\ (x # b => phase'[x] = phase[x])
        /\ \A x \in Buffers : x # b /\ InServer(x) => known'[id[x]] = known[id[x]]
    BY DeviceShape
  <1>2. /\ \A i \in Ids : known'[i].read = known[i].read /\ known'[i].write = known[i].write
        /\ InServer(b) =>
              \/ known'[id[b]].mapWriteState = known[id[b]].mapWriteState
              \/ known'[id[b]].mapWriteState = "Mapped"
        /\ \A r \in Requests : r # owner[b] => nativeReply'[r] = nativeReply[r]
        /\ nativeReply'[owner[b]] = "Success" /\ InServer(b) /\ MapsWrite(kind[b]) =>
              known'[id[b]].mapWriteState = "Mapped"
        /\ owner[b] \in Requests /\ reqBuffer[owner[b]] = b /\ IsCreated(b)
    BY DeviceShape
  <1>3. UNCHANGED <<id, kind, mMapState, mReadHandle, mWriteHandle, reqBuffer, answer, clientStatus>>
    BY <1>1 DEF clientVars, requestVars
  <1>4. /\ \A j, x, n : Before(j, x, n)' <=> Before(j, x, n)
        /\ \A x, n : OnWay(x, n)' <=> OnWay(x, n)
    BY <1>1 DEF Before, OnWay
  <1>5. \A r : Safe(r)' <=> Safe(r)
    BY <1>3 DEF Safe, Waiting
  <1>6. \A x : ClientMaps(x)' <=> ClientMaps(x)
    BY <1>3 DEF ClientMaps
  <1>7. ASSUME NEW x \in Buffers, x # b
        PROVE  Writes(x)'
    <2>1. Writes(x)
      BY DEF WriteInv
    <2>2. phase'[x] = phase[x] /\ (InServer(x) => InServer(x)' /\ known'[id'[x]] = known[id[x]])
      BY <1>1, <1>3, <1>7
    <2>3. Takes(x) => Takes(x)'
      BY <2>2 DEF Takes
    <2>4. \A r \in Requests : reqBuffer[r] = x => nativeReply'[r] = nativeReply[r]
      BY <1>2, <1>7
    <2>5. ASSUME NEW r \in Requests, reqBuffer'[r] = x, Safe(r)', nativeReply'[r] = "Success",
                 MapsWrite(kind'[x])
          PROVE  InServer(x)' /\ known'[id'[x]].mapWriteState = "Mapped"
      <3>1. reqBuffer[r] = x /\ Safe(r) /\ nativeReply[r] = "Success" /\ MapsWrite(kind[x])
        BY <1>3, <1>5, <2>4, <2>5
      <3> QED
        BY <2>1, <2>2, <3>1 DEF Writes
    <2>6. ASSUME ClientMaps(x)', MapsWrite(kind'[x])
          PROVE  InServer(x)' /\ known'[id'[x]].mapWriteState = "Mapped"
      BY <1>3, <1>6, <2>1, <2>2, <2>6 DEF Writes
    <2>7. ASSUME mMapState'[x] = "MappedAtCreation", mWriteHandle'[x]
          PROVE  /\ ~OnWay(x, Ends)'
                 /\ phase'[x] = "none" \/ (phase'[x] \in {"mapped", "error"} /\ Takes(x)')
      BY <1>3, <1>4, <2>1, <2>2, <2>3, <2>7 DEF Writes
    <2>8. ASSUME NEW j \in DOMAIN toServer', toServer'[j].buffer = x,
                 toServer'[j].cmd = "UpdateMappedData"
          PROVE  /\ ~Before(j, x, Ends)'
                 /\ (phase'[x] = "none" /\ AtCreation(kind'[x])) \/ Takes(x)'
      BY <1>1, <1>3, <1>4, <2>1, <2>2, <2>3, <2>8 DEF Writes
    <2> QED
      BY <2>5, <2>6, <2>7, <2>8, WritesParts
  <1>8. Writes(b)'
    <2>1. Writes(b)
      BY DEF WriteInv
    <2>2. InServer(b) => id[b] \in Ids
      BY <1>0, <1>2, LiveIds
    <2>3. Takes(b) => Takes(b)'
      BY <1>1, <1>2, <1>3, <2>2 DEF Takes
    <2>4. ASSUME NEW r \in Requests, reqBuffer'[r] = b, Safe(r)', nativeReply'[r] = "Success",
                 MapsWrite(kind'[b])
          PROVE  InServer(b)' /\ known'[id'[b]].mapWriteState = "Mapped"
      <3>1. reqBuffer[r] = b /\ Safe(r) /\ MapsWrite(kind[b])
        BY <1>3, <1>5, <2>4
      <3>2. nativeReply[r] # "Success"
        BY <1>1, <3>1 DEF SafeInv, Unended
      <3>3. r = owner[b]
        BY <1>2, <2>4, <3>2
      <3>4. live[b] /\ ~mDisconnected
        BY <1>0, <3>1 DEF SerialInv, Safe
      <3>5. ~OnWay(b, {"Create"})
        BY <1>0, <1>1 DEF OnWay, CommandInv, InOrder
      <3>6. InServer(b)
        BY <1>0, <3>4, <3>5 DEF LiveInv
      <3> QED
        BY <1>1, <1>2, <1>3, <2>4, <3>1, <3>3, <3>6
    <2>5. ~ClientMaps(b)'
      BY <1>1, <1>6 DEF MappedInv
    <2>6. ~(mMapState'[b] = "MappedAtCreation" /\ mWriteHandle'[b])
      BY <1>1, <1>3, <2>1 DEF Writes
    <2>7. ASSUME NEW j \in DOMAIN toServer', toServer'[j].buffer = b,
                 toServer'[j].cmd = "UpdateMappedData"
          PROVE  ~Before(j, b, Ends)' /\ Takes(b)'
      BY <1>1, <1>4, <2>1, <2>3, <2>7 DEF Writes
    <2> QED
      BY <2>4, <2>5, <2>6, <2>7, WritesParts
  <1> QED
    BY <1>7, <1>8, EachWrites

(* The client has sent commands.                                           *)
LEMMA WritesSent ==
    ASSUME toServer \in Seq(Commands), NEW x \in Buffers, Writes(x), NEW cmds \in Seq(Commands),
           Send(cmds), UNCHANGED <<known, phase>>, id'[x] = id[x], kind'[x] = kind[x],
           InServer(x)' <=> InServer(x),
           \A r \in Requests : reqBuffer'[r] = x /\ Safe(r)' /\ nativeReply'[r] = "Success" =>
               reqBuffer[r] = x /\ Safe(r) /\ nativeReply[r] = "Success",
           ClientMaps(x)' => ClientMaps(x),
           mMapState'[x] = "MappedAtCreation" /\ mWriteHandle'[x] =>
               /\ mMapState[x] = "MappedAtCreation" /\ mWriteHandle[x]
               /\ \A i \in DOMAIN cmds : cmds[i].buffer = x => cmds[i].cmd \notin Ends,
           \A i \in DOMAIN cmds : cmds[i].buffer = x /\ cmds[i].cmd = "UpdateMappedData" =>
               /\ i = 1 /\ ~OnWay(x, Ends)
               /\ (phase[x] = "none" /\ AtCreation(kind[x])) \/ Takes(x)
    PROVE  Writes(x)'
  <1>1. Takes(x) => Takes(x)'
    BY DEF Takes
  <1>2. ASSUME NEW r \in Requests, reqBuffer'[r] = x, Safe(r)', nativeReply'[r] = "Success",
               MapsWrite(kind'[x])
        PROVE  InServer(x)' /\ known'[id'[x]].mapWriteState = "Mapped"
    <2>1. reqBuffer[r] = x /\ Safe(r) /\ nativeReply[r] = "Success" /\ MapsWrite(kind[x])
      BY <1>2
    <2> QED
      BY <2>1 DEF Writes
  <1>3. ASSUME ClientMaps(x)', MapsWrite(kind'[x])
        PROVE  InServer(x)' /\ known'[id'[x]].mapWriteState = "Mapped"
    BY <1>3 DEF Writes
  <1>4. CASE mDisconnected
    <2>1. toServer' = toServer
      BY <1>4 DEF Send
    <2>2. /\ \A j, n : Before(j, x, n)' <=> Before(j, x, n)
          /\ \A n : OnWay(x, n)' <=> OnWay(x, n)
      BY <2>1 DEF Before, OnWay
    <2>3. ASSUME mMapState'[x] = "MappedAtCreation", mWriteHandle'[x]
          PROVE  /\ ~OnWay(x, Ends)'
                 /\ phase'[x] = "none" \/ (phase'[x] \in {"mapped", "error"} /\ Takes(x)')
      <3>1. /\ ~OnWay(x, Ends)
            /\ phase[x] = "none" \/ (phase[x] \in {"mapped", "error"} /\ Takes(x))
        BY <2>3 DEF Writes
      <3> QED
        BY <1>1, <2>2, <3>1
    <2>4. ASSUME NEW j \in DOMAIN toServer', toServer'[j].buffer = x,
                 toServer'[j].cmd = "UpdateMappedData"
          PROVE  /\ ~Before(j, x, Ends)'
                 /\ (phase'[x] = "none" /\ AtCreation(kind'[x])) \/ Takes(x)'
      <3>1. /\ ~Before(j, x, Ends)
            /\ (phase[x] = "none" /\ AtCreation(kind[x])) \/ Takes(x)
        BY <2>1, <2>4 DEF Writes
      <3> QED
        BY <1>1, <2>2, <3>1
    <2> QED
      BY <1>2, <1>3, <2>3, <2>4, WritesParts
  <1>5. CASE ~mDisconnected
    <2>1. toServer' = toServer \o cmds
      BY <1>5 DEF Send
    <2>2. /\ \A j \in DOMAIN toServer : \A n : Before(j, x, n)' <=> Before(j, x, n)
          /\ \A n : OnWay(x, n)' <=>
                \/ OnWay(x, n)
                \/ \E i \in DOMAIN cmds : cmds[i].buffer = x /\ cmds[i].cmd \in n
      BY <2>1, SentBefore
    <2>3. /\ \A j \in DOMAIN toServer : j \in DOMAIN toServer' /\ toServer'[j] = toServer[j]
          /\ \A j \in DOMAIN toServer' :
                \/ j \in DOMAIN toServer
                \/ j > Len(toServer) /\ j - Len(toServer) \in DOMAIN cmds
                   /\ toServer'[j] = cmds[j - Len(toServer)]
          /\ DOMAIN toServer' = 1..(Len(toServer) + Len(cmds))
      BY <2>1, Grown
    <2>4. ASSUME mMapState'[x] = "MappedAtCreation", mWriteHandle'[x]
          PROVE  /\ ~OnWay(x, Ends)'
                 /\ phase'[x] = "none" \/ (phase'[x] \in {"mapped", "error"} /\ Takes(x)')
      <3>1. /\ ~OnWay(x, Ends)
            /\ phase[x] = "none" \/ (phase[x] \in {"mapped", "error"} /\ Takes(x))
        BY <2>4 DEF Writes
      <3> QED
        BY <1>1, <2>2, <2>4, <3>1
    <2>5. ASSUME NEW j \in DOMAIN toServer', toServer'[j].buffer = x,
                 toServer'[j].cmd = "UpdateMappedData"
          PROVE  /\ ~Before(j, x, Ends)'
                 /\ (phase'[x] = "none" /\ AtCreation(kind'[x])) \/ Takes(x)'
      <3>1. CASE j \in DOMAIN toServer
        <4>1. toServer[j].buffer = x /\ toServer[j].cmd = "UpdateMappedData"
          BY <2>3, <2>5, <3>1
        <4>2. /\ ~Before(j, x, Ends)
              /\ (phase[x] = "none" /\ AtCreation(kind[x])) \/ Takes(x)
          BY <3>1, <4>1 DEF Writes
        <4> QED
          BY <1>1, <2>2, <3>1, <4>2
      <3>2. CASE j \notin DOMAIN toServer
        <4>1. PICK i : i = j - Len(toServer)
          OBVIOUS
        <4>2. i \in DOMAIN cmds /\ cmds[i].buffer = x /\ cmds[i].cmd = "UpdateMappedData"
          BY <2>3, <2>5, <3>2, <4>1
        <4>3. i = 1 /\ ~OnWay(x, Ends)
          BY <4>2
        <4>4. (phase[x] = "none" /\ AtCreation(kind[x])) \/ Takes(x)
          BY <4>2
        <4>5. 1..(j - 1) = DOMAIN toServer
          <5>1. Len(toServer) \in Nat /\ DOMAIN toServer = 1..Len(toServer)
            OBVIOUS
          <5>2. j \in Int
            BY <2>3, <2>5, <5>1
          <5>3. j - 1 = Len(toServer)
            BY <4>1, <4>3, <5>1, <5>2
          <5> QED
            BY <5>1, <5>3
        <4>6. ASSUME NEW k \in 1..(j - 1), toServer'[k].buffer = x, toServer'[k].cmd \in Ends
              PROVE  FALSE
          <5>1. k \in DOMAIN toServer /\ toServer'[k] = toServer[k]
            BY <2>3, <4>5
          <5> QED
            BY <4>3, <4>6, <5>1 DEF OnWay
        <4>7. ~Before(j, x, Ends)'
          BY <4>6 DEF Before, Ends
        <4> QED
          BY <1>1, <4>4, <4>7
      <3> QED
        BY <3>1, <3>2
    <2> QED
      BY <1>2, <1>3, <2>4, <2>5, WritesParts
  <1> QED
    BY <1>4, <1>5

LEMMA UnmapFlushes ==
    ASSUME WireTypeOK, IdInv, NEW b \in Buffers, live[b],
           NEW cmds, cmds = IF WillFlush(b)
                              THEN <<Command("UpdateMappedData", b), Command("Unmap", b)>>
                              ELSE <<Command("Unmap", b)>>
    PROVE  \A i \in DOMAIN cmds : cmds[i].cmd = "UpdateMappedData" => i = 1 /\ WillFlush(b)
  <1> DEFINE u == Command("UpdateMappedData", b)
             n == Command("Unmap", b)
  <1>1. n.cmd = "Unmap"
    BY DEF Command
  <1>2. cmds = IF WillFlush(b) THEN <<u, n>> ELSE <<n>>
    OBVIOUS
  <1> HIDE DEF u, n
  <1>3. CASE WillFlush(b)
    <2>1. cmds = <<u, n>>
      BY <1>2, <1>3
    <2> QED
      BY <1>1, <1>3, <2>1
  <1>4. CASE ~WillFlush(b)
    <2>1. cmds = <<n>>
      BY <1>2, <1>4
    <2> QED
      BY <1>1, <2>1
  <1> QED
    BY <1>3, <1>4

LEMMA ClientWrites ==
    ASSUME WireTypeOK, TalkInv, SafeInv, MappedInv, HandleInv, WriteInv, NEW b \in Buffers,
           Unmap(b) \/ Destroy(b) \/ Release(b)
    PROVE  WriteInv'
  <1>0. IdInv /\ SerialInv /\ toServer \in Seq(Commands)
    BY DEF TalkInv, ChannelTypeOK
  <1>1. /\ mMapState \in [Buffers -> {"Unmapped", "MappedForRead", "MappedForWrite",
                                      "MappedAtCreation"}]
        /\ mReadHandle \in [Buffers -> BOOLEAN] /\ mWriteHandle \in [Buffers -> BOOLEAN]
        /\ live \in [Buffers -> BOOLEAN]
    BY DEF WireTypeOK
  <1>2. UNCHANGED <<created, id, kind, known, phase, nativeReply, reqBuffer>>
    BY DEF Unmap, Destroy, Release, serverVars, nativeVars
  <1>3. live[b] /\ \A x \in Buffers : InServer(x)' <=> InServer(x)
    BY <1>2 DEF InServer, IsCreated, Unmap, Destroy, Release
  <1>4. \A x \in Buffers : Writes(x)
    BY DEF WriteInv
  <1>5. CASE Unmap(b)
    <2>1. PICK cmds : cmds = IF WillFlush(b)
                              THEN <<Command("UpdateMappedData", b), Command("Unmap", b)>>
                              ELSE <<Command("Unmap", b)>>
      OBVIOUS
    <2>2. /\ cmds \in Seq(Commands) /\ Send(cmds)
          /\ \A i \in DOMAIN cmds : cmds[i].buffer = b
      BY <1>0, <1>5, <2>1, UnmapSends, SMTT(30)
    <2>3. \A i \in DOMAIN cmds : cmds[i].cmd = "UpdateMappedData" => i = 1 /\ WillFlush(b)
      BY <1>0, <1>3, <2>1, UnmapFlushes
    <2>4. UNCHANGED <<answer, mReadHandle>> /\ Tag(b, "Unmapped")
          /\ mMapState' = [mMapState EXCEPT ![b] = "Unmapped"]
      BY <1>5 DEF Unmap
    <2>5. \A r \in Requests : Safe(r)' => Safe(r) /\ reqBuffer[r] # b
      BY <1>2, <2>4 DEF Safe, Waiting, Tag, WaitingOn
    <2>6. \A x \in Buffers : mWriteHandle'[x] => mWriteHandle[x]
      BY <1>1, <1>5 DEF Unmap
    <2>7. \A x \in Buffers : ClientMaps(x)' => ClientMaps(x)
      BY <1>1, <2>4, <2>6 DEF ClientMaps
    <2>8. WillFlush(b) =>
              /\ ~OnWay(b, Ends)
              /\ (phase[b] = "none" /\ AtCreation(kind[b])) \/ Takes(b)
      <3>1. Writes(b) /\ Handles(b)
        BY <1>4 DEF HandleInv
      <3>2. CASE mMapState[b] = "MappedAtCreation" /\ mWriteHandle[b]
        BY <3>1, <3>2 DEF Writes, Handles
      <3>3. CASE mMapState[b] = "MappedForWrite" /\ mWriteHandle[b]
        <4>1. ClientMaps(b) /\ MapsWrite(kind[b])
          BY <3>1, <3>3 DEF ClientMaps, Handles
        <4>2. phase[b] = "mapped" /\ ~OnWay(b, Ends)
          BY <4>1 DEF MappedInv
        <4>3. InServer(b) /\ known[id[b]].mapWriteState = "Mapped"
          BY <3>1, <4>1 DEF Writes
        <4>4. known[id[b]].write
          BY <3>1, <4>1, <4>2, <4>3 DEF Handles
        <4> QED
          BY <4>2, <4>3, <4>4 DEF Takes
      <3> QED
        BY <3>2, <3>3 DEF WillFlush
    <2>9. ASSUME NEW x \in Buffers
          PROVE  Writes(x)'
      <3>1. \A r \in Requests : reqBuffer'[r] = x /\ Safe(r)' /\ nativeReply'[r] = "Success" =>
                reqBuffer[r] = x /\ Safe(r) /\ nativeReply[r] = "Success"
        BY <1>2, <2>5
      <3>2. mMapState'[x] = "MappedAtCreation" /\ mWriteHandle'[x] =>
                x # b /\ mMapState[x] = "MappedAtCreation" /\ mWriteHandle[x]
        BY <1>1, <2>4, <2>6
      <3>3. \A i \in DOMAIN cmds : cmds[i].buffer = x /\ cmds[i].cmd = "UpdateMappedData" =>
                /\ i = 1 /\ ~OnWay(x, Ends)
                /\ (phase[x] = "none" /\ AtCreation(kind[x])) \/ Takes(x)
        BY <2>2, <2>3, <2>8
      <3>4. Writes(x) /\ (ClientMaps(x)' => ClientMaps(x)) /\ (InServer(x)' <=> InServer(x))
        BY <1>3, <1>4, <2>7
      <3>5. mMapState'[x] = "MappedAtCreation" /\ mWriteHandle'[x] =>
                /\ mMapState[x] = "MappedAtCreation" /\ mWriteHandle[x]
                /\ \A i \in DOMAIN cmds : cmds[i].buffer = x => cmds[i].cmd \notin Ends
        BY <2>2, <3>2
      <3> QED
        BY <1>0, <1>2, <2>2, <3>1, <3>3, <3>4, <3>5, WritesSent
    <2> QED
      BY <2>9, EachWrites
  <1>6. CASE Destroy(b) \/ Release(b)
    <2>1. PICK name \in {"Destroy", "DestroyObject"} : Send(<<Command(name, b)>>)
      BY <1>6 DEF Destroy, Release
    <2>2. PICK cmds : cmds = <<Command(name, b)>>
      OBVIOUS
    <2>3. /\ cmds \in Seq(Commands)
          /\ \A i \in DOMAIN cmds : cmds[i].buffer = b /\ cmds[i].cmd = name
      BY <1>0, <1>3, <2>2, OneSent DEF Names
    <2>4. Send(cmds)
      BY <2>1, <2>2
    <2>5. /\ mMapState' = mMapState
          /\ mReadHandle' = [mReadHandle EXCEPT ![b] = FALSE]
          /\ mWriteHandle' = [mWriteHandle EXCEPT ![b] = FALSE]
      BY <1>6 DEF Destroy, Release
    <2>6. \A r \in Requests : Safe(r)' => Safe(r)
      <3>1. CASE Destroy(b)
        <4>1. UNCHANGED answer /\ Tag(b, "Destroyed")
          BY <3>1 DEF Destroy
        <4> QED
          BY <4>1 DEF Safe, Waiting, Tag
      <3>2. CASE Release(b)
        <4>1. /\ answer' = [r \in Requests |-> IF r \in WaitingOn(b) THEN "Destroyed" ELSE answer[r]]
              /\ clientStatus' = [r \in Requests |-> IF r \in WaitingOn(b) THEN "Success"
                                                                           ELSE clientStatus[r]]
          BY <3>2 DEF Release
        <4> QED
          BY <4>1 DEF Safe, Waiting
      <3> QED
        BY <1>6, <3>1, <3>2
    <2>7. \A x \in Buffers : /\ ClientMaps(x)' => ClientMaps(x)
                             /\ mWriteHandle'[x] => x # b /\ mWriteHandle[x]
      BY <1>1, <2>5 DEF ClientMaps
    <2>8. ASSUME NEW x \in Buffers
          PROVE  Writes(x)'
      <3>1. \A r \in Requests : reqBuffer'[r] = x /\ Safe(r)' /\ nativeReply'[r] = "Success" =>
                reqBuffer[r] = x /\ Safe(r) /\ nativeReply[r] = "Success"
        BY <1>2, <2>6
      <3>2. mMapState'[x] = "MappedAtCreation" /\ mWriteHandle'[x] =>
                /\ mMapState[x] = "MappedAtCreation" /\ mWriteHandle[x]
                /\ \A i \in DOMAIN cmds : cmds[i].buffer = x => cmds[i].cmd \notin Ends
        BY <2>3, <2>5, <2>7
      <3>3. \A i \in DOMAIN cmds : cmds[i].cmd # "UpdateMappedData"
        BY <2>3
      <3>4. Writes(x) /\ (ClientMaps(x)' => ClientMaps(x)) /\ (InServer(x)' <=> InServer(x))
        BY <1>3, <1>4, <2>7
      <3> QED
        BY <1>0, <1>2, <2>3, <2>4, <3>1, <3>2, <3>3, <3>4, WritesSent
    <2> QED
      BY <2>8, EachWrites
  <1> QED
    BY <1>5, <1>6

LEMMA MapAsyncWrites ==
    ASSUME WireTypeOK, TalkInv, WriteInv, NEW r \in Requests, NEW b \in Buffers, MapAsync(r, b)
    PROVE  WriteInv'
  <1>1. toServer \in Seq(Commands)
    BY DEF TalkInv, ChannelTypeOK
  <1>2. /\ nativeReply[r] = "None"
        /\ UNCHANGED <<created, kind, id, live, mMapState, mReadHandle, mWriteHandle, clientStatus,
                       known, phase, nativeReply>>
        /\ \A q \in Requests : q # r => reqBuffer'[q] = reqBuffer[q] /\ answer'[q] = answer[q]
    BY MapAsyncSends
  <1>3. PICK cmds \in Seq(Commands) : Send(cmds) /\ DOMAIN cmds = {1} /\ cmds[1].cmd = "MapAsync"
    BY MapAsyncSends
  <1>4. \A i \in DOMAIN cmds : cmds[i].cmd # "UpdateMappedData" /\ cmds[i].cmd \notin Ends
    BY <1>3 DEF Ends
  <1>5. ASSUME NEW x \in Buffers
        PROVE  Writes(x)'
    <2>1. Writes(x)
      BY DEF WriteInv
    <2>2. (InServer(x)' <=> InServer(x)) /\ (ClientMaps(x)' <=> ClientMaps(x))
      BY <1>2 DEF InServer, IsCreated, ClientMaps
    <2>3. ASSUME NEW q \in Requests, reqBuffer'[q] = x, Safe(q)', nativeReply'[q] = "Success"
          PROVE  reqBuffer[q] = x /\ Safe(q) /\ nativeReply[q] = "Success"
      <3>1. q # r /\ nativeReply[q] = "Success"
        BY <1>2, <2>3
      <3> QED
        BY <1>2, <2>3, <3>1 DEF Safe, Waiting
    <2>4. mMapState'[x] = "MappedAtCreation" /\ mWriteHandle'[x] =>
              /\ mMapState[x] = "MappedAtCreation" /\ mWriteHandle[x]
              /\ \A i \in DOMAIN cmds : cmds[i].buffer = x => cmds[i].cmd \notin Ends
      BY <1>2, <1>4
    <2> QED
      BY <1>1, <1>2, <1>3, <1>4, <2>1, <2>2, <2>3, <2>4, WritesSent
  <1> QED
    BY <1>5, EachWrites

(* All commands on their way are for buffers that were created.            *)
LEMMA NoneOnWay ==
    ASSUME CommandInv, NEW b, ~IsCreated(b)
    PROVE  \A j \in DOMAIN toServer : toServer[j].buffer # b
  BY DEF CommandInv, InOrder

LEMMA CreateWrites ==
    ASSUME WireTypeOK, TalkInv, WriteInv, NEW k \in Kinds, CreateBuffer(k)
    PROVE  WriteInv'
  <1>1. CommandInv /\ SerialInv /\ toServer \in Seq(Commands)
    BY DEF TalkInv, ChannelTypeOK
  <1>2. PICK b : b = created + 1
    OBVIOUS
  <1>3. /\ b \in Buffers /\ ~IsCreated(b) /\ phase[b] = "none"
        /\ mMapState'[b] = IF AtCreation(k) THEN "MappedAtCreation" ELSE "Unmapped"
        /\ \A x \in Buffers : x # b =>
              /\ id'[x] = id[x] /\ kind'[x] = kind[x]
              /\ mMapState'[x] = mMapState[x] /\ mReadHandle'[x] = mReadHandle[x]
              /\ mWriteHandle'[x] = mWriteHandle[x]
              /\ InServer(x)' <=> InServer(x)
        /\ UNCHANGED <<known, phase, nativeReply, reqBuffer, answer, clientStatus>>
    BY <1>2, CreateSends
  <1>4. PICK cmds \in Seq(Commands) : /\ Send(cmds) /\ DOMAIN cmds = {1} /\ cmds[1].cmd = "Create"
                                      /\ cmds[1].buffer = b
    BY <1>2, CreateSends
  <1>5. \A i \in DOMAIN cmds : /\ cmds[i].cmd # "UpdateMappedData" /\ cmds[i].cmd \notin Ends
                               /\ cmds[i].cmd = "Create"
    BY <1>4 DEF Ends
  <1>6. \A r : Safe(r)' <=> Safe(r)
    BY <1>3 DEF Safe, Waiting
  <1>7. ASSUME NEW x \in Buffers, x # b
        PROVE  Writes(x)'
    <2>1. Writes(x)
      BY DEF WriteInv
    <2>2. /\ id'[x] = id[x] /\ kind'[x] = kind[x] /\ mMapState'[x] = mMapState[x]
          /\ mReadHandle'[x] = mReadHandle[x] /\ mWriteHandle'[x] = mWriteHandle[x]
          /\ InServer(x)' <=> InServer(x)
      BY <1>3, <1>7
    <2>3. ClientMaps(x)' <=> ClientMaps(x)
      BY <2>2 DEF ClientMaps
    <2>4. \A r \in Requests : reqBuffer'[r] = x /\ Safe(r)' /\ nativeReply'[r] = "Success" =>
              reqBuffer[r] = x /\ Safe(r) /\ nativeReply[r] = "Success"
      BY <1>3, <1>6
    <2>5. mMapState'[x] = "MappedAtCreation" /\ mWriteHandle'[x] =>
              /\ mMapState[x] = "MappedAtCreation" /\ mWriteHandle[x]
              /\ \A i \in DOMAIN cmds : cmds[i].buffer = x => cmds[i].cmd \notin Ends
      BY <1>5, <2>2
    <2>6. UNCHANGED <<known, phase>>
      BY <1>3
    <2> QED
      BY <1>1, <1>4, <1>5, <2>1, <2>2, <2>3, <2>4, <2>5, <2>6, WritesSent
  <1>8. Writes(b)'
    <2>1. ASSUME NEW j \in DOMAIN toServer', toServer'[j].buffer = b
          PROVE  toServer'[j].cmd = "Create"
      <3>1. \A i \in DOMAIN toServer : toServer[i].buffer # b
        BY <1>1, <1>3, NoneOnWay
      <3>2. CASE mDisconnected
        BY <1>4, <2>1, <3>1, <3>2 DEF Send
      <3>3. CASE ~mDisconnected
        <4>1. toServer' = toServer \o cmds
          BY <1>4, <3>3 DEF Send
        <4>2. /\ \A i \in DOMAIN toServer : i \in DOMAIN toServer' /\ toServer'[i] = toServer[i]
              /\ \A i \in DOMAIN toServer' :
                    \/ i \in DOMAIN toServer
                    \/ i > Len(toServer) /\ i - Len(toServer) \in DOMAIN cmds
                       /\ toServer'[i] = cmds[i - Len(toServer)]
          BY <1>1, <4>1, Grown
        <4> QED
          BY <1>5, <2>1, <3>1, <4>2
      <3> QED
        BY <3>2, <3>3
    <2>2. ~OnWay(b, Ends)'
      BY <2>1 DEF OnWay, Ends
    <2>3. ~ClientMaps(b)'
      BY <1>3 DEF ClientMaps
    <2>4. ASSUME NEW r \in Requests, reqBuffer'[r] = b, nativeReply'[r] = "Success"
          PROVE  FALSE
      <3>1. reqBuffer[r] = b /\ nativeReply[r] = "Success"
        BY <1>3, <2>4
      <3> QED
        BY <1>1, <1>3, <3>1 DEF SerialInv
    <2>5. phase'[b] = "none" /\ b \in Buffers
      BY <1>3
    <2>6. \A j \in DOMAIN toServer' :
              ~(toServer'[j].buffer = b /\ toServer'[j].cmd = "UpdateMappedData")
      BY <2>1
    <2> QED
      BY <2>2, <2>3, <2>4, <2>5, <2>6, WritesParts
  <1> QED
    BY <1>7, <1>8, EachWrites

LEMMA RestWrites ==
    ASSUME WireTypeOK, WriteInv, Disconnect \/ LoseDevice \/ UNCHANGED vars
    PROVE  WriteInv'
  <1>1. UNCHANGED <<created, id, kind, mMapState, mReadHandle, mWriteHandle, reqBuffer, known, phase,
                    nativeReply>>
    BY DEF Disconnect, LoseDevice, vars, clientVars, requestVars, serverVars, nativeVars
  <1>2. (\A r \in Requests : Safe(r)' => Safe(r)) /\ (toServer' = toServer \/ toServer' = <<>>)
    <2>1. CASE Disconnect
      <3>1. /\ toServer' = <<>>
            /\ answer' = [r \in Requests |-> IF Waiting(r) THEN "DeviceLost" ELSE answer[r]]
        BY <2>1 DEF Disconnect
      <3>2. \A r \in Requests : ~Waiting(r)'
        BY <3>1 DEF Waiting
      <3> QED
        BY <3>1, <3>2 DEF Safe
    <2>2. CASE LoseDevice \/ UNCHANGED vars
      BY <2>2 DEF LoseDevice, vars, requestVars, wireVars, Safe, Waiting
    <2> QED
      BY <2>1, <2>2
  <1>3. /\ \A j \in DOMAIN toServer' : toServer' = toServer
        /\ \A j \in DOMAIN toServer' : \A x, n : Before(j, x, n)' => Before(j, x, n)
        /\ \A x, n : OnWay(x, n)' => OnWay(x, n)
    <2>1. CASE toServer' = toServer
      BY <2>1 DEF Before, OnWay
    <2>2. CASE toServer' = <<>>
      <3>1. DOMAIN toServer' = {}
        BY <2>2
      <3> QED
        BY <3>1 DEF OnWay
    <2> QED
      BY <1>2, <2>1, <2>2
  <1>4. ASSUME NEW x \in Buffers
        PROVE  Writes(x)'
    <2>1. Writes(x)
      BY DEF WriteInv
    <2>2. /\ InServer(x)' <=> InServer(x)
          /\ ClientMaps(x)' <=> ClientMaps(x)
          /\ Takes(x)' <=> Takes(x)
      BY <1>1 DEF InServer, IsCreated, ClientMaps, Takes
    <2>3. ASSUME NEW r \in Requests, reqBuffer'[r] = x, Safe(r)', nativeReply'[r] = "Success",
                 MapsWrite(kind'[x])
          PROVE  InServer(x)' /\ known'[id'[x]].mapWriteState = "Mapped"
      <3>1. reqBuffer[r] = x /\ Safe(r) /\ nativeReply[r] = "Success" /\ MapsWrite(kind[x])
        BY <1>1, <1>2, <2>3
      <3> QED
        BY <1>1, <2>1, <2>2, <3>1 DEF Writes
    <2>4. ASSUME ClientMaps(x)', MapsWrite(kind'[x])
          PROVE  InServer(x)' /\ known'[id'[x]].mapWriteState = "Mapped"
      BY <1>1, <2>1, <2>2, <2>4 DEF Writes
    <2>5. ASSUME mMapState'[x] = "MappedAtCreation", mWriteHandle'[x]
          PROVE  /\ ~OnWay(x, Ends)'
                 /\ phase'[x] = "none" \/ (phase'[x] \in {"mapped", "error"} /\ Takes(x)')
      <3>1. /\ ~OnWay(x, Ends)
            /\ phase[x] = "none" \/ (phase[x] \in {"mapped", "error"} /\ Takes(x))
        BY <1>1, <2>1, <2>5 DEF Writes
      <3> QED
        BY <1>1, <1>3, <2>2, <3>1
    <2>6. ASSUME NEW j \in DOMAIN toServer', toServer'[j].buffer = x,
                 toServer'[j].cmd = "UpdateMappedData"
          PROVE  /\ ~Before(j, x, Ends)'
                 /\ (phase'[x] = "none" /\ AtCreation(kind'[x])) \/ Takes(x)'
      <3>1. /\ ~Before(j, x, Ends)
            /\ (phase[x] = "none" /\ AtCreation(kind[x])) \/ Takes(x)
        BY <1>3, <2>1, <2>6 DEF Writes
      <3> QED
        BY <1>1, <1>3, <2>2, <3>1
    <2> QED
      BY <2>3, <2>4, <2>5, <2>6, WritesParts
  <1> QED
    BY <1>4, EachWrites

LEMMA CallbackWrites ==
    ASSUME WireTypeOK, TalkInv, HandleInv, WriteInv, OnMapAsyncCallback
    PROVE  WriteInv'
  <1>1. /\ UNCHANGED <<created, kind, id, mReadHandle, mWriteHandle, reqBuffer, toServer, serverVars,
                       nativeVars>>
        /\ \/ UNCHANGED <<answer, clientStatus, mMapState, unflushed>>
           \/ \E r \in Requests, b \in Buffers, reply \in Statuses :
                 /\ AnswerRequest(r, b, reply) /\ reqBuffer[r] = b /\ answer[r] = "Waiting"
                 /\ reply = "Success" => nativeReply[r] = "Success"
    BY CallbackEffect
  <1>2. UNCHANGED <<known, phase, nativeReply>>
    BY <1>1 DEF serverVars, nativeVars
  <1>3. \A x \in Buffers : /\ InServer(x)' <=> InServer(x)
                           /\ Takes(x)' <=> Takes(x)
                           /\ \A n : OnWay(x, n)' <=> OnWay(x, n)
                           /\ \A j, n : Before(j, x, n)' <=> Before(j, x, n)
    BY <1>1, <1>2 DEF InServer, IsCreated, Takes, OnWay, Before
  <1>4. ASSUME NEW x \in Buffers, \A r \in Requests : Safe(r)' => Safe(r),
               ClientMaps(x)' /\ MapsWrite(kind[x]) =>
                   InServer(x) /\ known[id[x]].mapWriteState = "Mapped",
               mMapState'[x] = "MappedAtCreation" => mMapState[x] = "MappedAtCreation"
        PROVE  Writes(x)'
    <2>1. Writes(x)
      BY DEF WriteInv
    <2>2. ASSUME NEW r \in Requests, reqBuffer'[r] = x, Safe(r)', nativeReply'[r] = "Success",
                 MapsWrite(kind'[x])
          PROVE  InServer(x)' /\ known'[id'[x]].mapWriteState = "Mapped"
      <3>1. reqBuffer[r] = x /\ Safe(r) /\ nativeReply[r] = "Success" /\ MapsWrite(kind[x])
        BY <1>1, <1>2, <1>4, <2>2
      <3> QED
        BY <1>1, <1>2, <1>3, <2>1, <3>1 DEF Writes
    <2>3. ASSUME mMapState'[x] = "MappedAtCreation", mWriteHandle'[x]
          PROVE  /\ ~OnWay(x, Ends)'
                 /\ phase'[x] = "none" \/ (phase'[x] \in {"mapped", "error"} /\ Takes(x)')
      <3>1. /\ ~OnWay(x, Ends)
            /\ phase[x] = "none" \/ (phase[x] \in {"mapped", "error"} /\ Takes(x))
        BY <1>1, <1>4, <2>1, <2>3 DEF Writes
      <3> QED
        BY <1>2, <1>3, <3>1
    <2>4. ASSUME NEW j \in DOMAIN toServer', toServer'[j].buffer = x,
                 toServer'[j].cmd = "UpdateMappedData"
          PROVE  /\ ~Before(j, x, Ends)'
                 /\ (phase'[x] = "none" /\ AtCreation(kind'[x])) \/ Takes(x)'
      <3>1. /\ ~Before(j, x, Ends)
            /\ (phase[x] = "none" /\ AtCreation(kind[x])) \/ Takes(x)
        BY <1>1, <2>1, <2>4 DEF Writes
      <3> QED
        BY <1>1, <1>2, <1>3, <3>1
    <2>5. ClientMaps(x)' /\ MapsWrite(kind'[x]) =>
              InServer(x)' /\ known'[id'[x]].mapWriteState = "Mapped"
      BY <1>1, <1>2, <1>3, <1>4
    <2> QED
      BY <2>2, <2>3, <2>4, <2>5, WritesParts
  <1>5. \A x \in Buffers : ClientMaps(x) /\ MapsWrite(kind[x]) =>
            InServer(x) /\ known[id[x]].mapWriteState = "Mapped"
    BY DEF WriteInv, Writes
  <1>6. CASE UNCHANGED <<answer, clientStatus, mMapState, unflushed>>
    <2>1. /\ \A r \in Requests : Safe(r)' => Safe(r)
          /\ \A x \in Buffers : ClientMaps(x)' => ClientMaps(x)
      BY <1>1, <1>6 DEF Safe, Waiting, ClientMaps
    <2> QED
      BY <1>4, <1>5, <1>6, <2>1, EachWrites
  <1>7. ASSUME NEW r \in Requests, NEW b \in Buffers, NEW reply \in Statuses,
               AnswerRequest(r, b, reply), reqBuffer[r] = b, answer[r] = "Waiting",
               reply = "Success" => nativeReply[r] = "Success"
        PROVE  WriteInv'
    <2>1. /\ mMapState \in [Buffers -> {"Unmapped", "MappedForRead", "MappedForWrite",
                                        "MappedAtCreation"}]
          /\ clientStatus \in [Requests -> {"Success", "Unmapped", "Destroyed"}]
      BY DEF WireTypeOK
    <2>2. /\ answer'[r] \in Statuses
          /\ \A q \in Requests : q # r => answer'[q] = answer[q]
      BY <1>7, AnswerGiven
    <2>3. \A q \in Requests : q # r => clientStatus'[q] = clientStatus[q]
      BY <1>7, <2>1 DEF AnswerRequest
    <2>4. \A q \in Requests : Safe(q)' => Safe(q)
      BY <2>2, <2>3 DEF Safe, Waiting, Statuses
    <2>5. \A x \in Buffers : x # b => mMapState'[x] = mMapState[x]
      BY <1>7, <2>1 DEF AnswerRequest
    <2>6. \/ mMapState'[b] = mMapState[b]
          \/ /\ reply = "Success" /\ clientStatus[r] = "Success"
             /\ mMapState'[b] = IF MapsRead(kind[b]) THEN "MappedForRead" ELSE "MappedForWrite"
      BY <1>7, <2>1 DEF AnswerRequest, FinalStatus
    <2>7. ASSUME NEW x \in Buffers, mMapState'[x] = mMapState[x]
          PROVE  Writes(x)'
      <3>1. ClientMaps(x)' => ClientMaps(x)
        BY <1>1, <2>7 DEF ClientMaps
      <3> QED
        BY <1>4, <1>5, <2>4, <2>7, <3>1
    <2>8. ASSUME reply = "Success", clientStatus[r] = "Success",
                 mMapState'[b] = IF MapsRead(kind[b]) THEN "MappedForRead" ELSE "MappedForWrite"
          PROVE  Writes(b)'
      <3>1. Safe(r) /\ nativeReply[r] = "Success"
        BY <1>7, <2>8 DEF Safe, Waiting
      <3>2. MapsWrite(kind[b]) => InServer(b) /\ known[id[b]].mapWriteState = "Mapped"
        BY <1>7, <3>1 DEF WriteInv, Writes
      <3>3. mMapState'[b] # "MappedAtCreation"
        BY <2>8
      <3> QED
        BY <1>4, <2>4, <3>2, <3>3
    <2>9. Writes(b)'
      BY <2>6, <2>7, <2>8
    <2> QED
      BY <2>5, <2>7, <2>9, EachWrites
  <1> QED
    BY <1>1, <1>6, <1>7

-----------------------------------------------------------------------------
(* A buffer whose handle is gone is destroyed before it is mapped.         *)

LEMMA EachDropped ==
    ASSUME \A x \in Buffers : Dropped(x)'
    PROVE  DropInv'
  BY DEF DropInv

(* The device, the client's answer: no command is sent or handled.         *)
LEMMA DroppedKept ==
    ASSUME NEW x \in Buffers, Dropped(x), toServer' = toServer,
           live'[x] /\ ~mDisconnected' /\ kind'[x] # "AtCreation" /\ ~Handle(x)' =>
               live[x] /\ ~mDisconnected /\ kind[x] # "AtCreation" /\ ~Handle(x),
           phase[x] \in {"gone", "error"} => phase'[x] \in {"gone", "error"},
           \A r \in Requests : Safe(r)' /\ reqBuffer'[r] = x =>
               /\ Safe(r) /\ reqBuffer[r] = x
               /\ nativeReply[r] = "None" => nativeReply'[r] = "None"
    PROVE  Dropped(x)'
  <1>1. SUFFICES ASSUME live'[x], ~mDisconnected', kind'[x] # "AtCreation", ~Handle(x)'
                 PROVE  /\ phase'[x] \in {"gone", "error"} \/ OnWay(x, {"Destroy"})'
                        /\ \A r \in Requests : Safe(r)' /\ reqBuffer'[r] = x =>
                              /\ nativeReply'[r] = "None"
                              /\ \/ phase'[x] \in {"gone", "error"}
                                 \/ /\ MapOnWay(r)'
                                    /\ \A j \in DOMAIN toServer' :
                                          toServer'[j].cmd = "MapAsync" /\ toServer'[j].request = r
                                              => Before(j, x, {"Destroy"})'
    BY DEF Dropped
  <1>2. live[x] /\ ~mDisconnected /\ kind[x] # "AtCreation" /\ ~Handle(x)
    BY <1>1
  <1>3. /\ \A j, n : Before(j, x, n)' <=> Before(j, x, n)
        /\ \A n : OnWay(x, n)' <=> OnWay(x, n)
        /\ \A r : MapOnWay(r)' <=> MapOnWay(r)
    BY DEF Before, OnWay, MapOnWay
  <1>4. phase[x] \in {"gone", "error"} \/ OnWay(x, {"Destroy"})
    BY <1>2 DEF Dropped
  <1>5. ASSUME NEW r \in Requests, Safe(r)', reqBuffer'[r] = x
        PROVE  /\ nativeReply'[r] = "None"
               /\ \/ phase'[x] \in {"gone", "error"}
                  \/ /\ MapOnWay(r)'
                     /\ \A j \in DOMAIN toServer' :
                           toServer'[j].cmd = "MapAsync" /\ toServer'[j].request = r
                               => Before(j, x, {"Destroy"})'
    <2>1. Safe(r) /\ reqBuffer[r] = x /\ (nativeReply[r] = "None" => nativeReply'[r] = "None")
      BY <1>5
    <2>2. nativeReply[r] = "None"
      BY <1>2, <2>1 DEF Dropped
    <2>3. \/ phase[x] \in {"gone", "error"}
          \/ /\ MapOnWay(r)
             /\ \A j \in DOMAIN toServer : toServer[j].cmd = "MapAsync" /\ toServer[j].request = r
                    => Before(j, x, {"Destroy"})
      BY <1>2, <2>1 DEF Dropped
    <2> QED
      BY <1>3, <2>1, <2>2, <2>3
  <1> QED
    BY <1>3, <1>4, <1>5

(* The client has sent commands.                                           *)
LEMMA DroppedSent ==
    ASSUME toServer \in Seq(Commands), NEW x \in Buffers, Dropped(x), NEW cmds \in Seq(Commands),
           Send(cmds), UNCHANGED <<mDisconnected, phase, nativeReply>>,
           live'[x] /\ kind'[x] # "AtCreation" /\ ~Handle(x)' =>
               live[x] /\ kind[x] # "AtCreation" /\ ~Handle(x),
           \A r \in Requests : Safe(r)' /\ reqBuffer'[r] = x =>
               \/ /\ Safe(r) /\ reqBuffer[r] = x
                  /\ \A i \in DOMAIN cmds : cmds[i].cmd = "MapAsync" => cmds[i].request # r
               \/ /\ nativeReply[r] = "None" /\ ~MapOnWay(r)
                  /\ \E i \in DOMAIN cmds : cmds[i].cmd = "MapAsync" /\ cmds[i].request = r
    PROVE  Dropped(x)'
  <1>1. SUFFICES ASSUME live'[x], ~mDisconnected', kind'[x] # "AtCreation", ~Handle(x)'
                 PROVE  /\ phase'[x] \in {"gone", "error"} \/ OnWay(x, {"Destroy"})'
                        /\ \A r \in Requests : Safe(r)' /\ reqBuffer'[r] = x =>
                              /\ nativeReply'[r] = "None"
                              /\ \/ phase'[x] \in {"gone", "error"}
                                 \/ /\ MapOnWay(r)'
                                    /\ \A j \in DOMAIN toServer' :
                                          toServer'[j].cmd = "MapAsync" /\ toServer'[j].request = r
                                              => Before(j, x, {"Destroy"})'
    BY DEF Dropped
  <1>2. live[x] /\ ~mDisconnected /\ kind[x] # "AtCreation" /\ ~Handle(x)
    BY <1>1
  <1>3. toServer' = toServer \o cmds
    BY <1>2 DEF Send
  <1>4. /\ \A j \in DOMAIN toServer : \A n : Before(j, x, n)' <=> Before(j, x, n)
        /\ \A j \in DOMAIN toServer' : \A n :
              j \notin DOMAIN toServer /\ OnWay(x, n) => Before(j, x, n)'
        /\ \A n : OnWay(x, n) => OnWay(x, n)'
        /\ \A r : MapOnWay(r)' <=>
              \/ MapOnWay(r)
              \/ \E i \in DOMAIN cmds : cmds[i].cmd = "MapAsync" /\ cmds[i].request = r
    BY <1>3, SentBefore
  <1>5. /\ \A j \in DOMAIN toServer : j \in DOMAIN toServer' /\ toServer'[j] = toServer[j]
        /\ \A j \in DOMAIN toServer' :
              \/ j \in DOMAIN toServer
              \/ j > Len(toServer) /\ j - Len(toServer) \in DOMAIN cmds
                 /\ toServer'[j] = cmds[j - Len(toServer)]
    BY <1>3, Grown
  <1>6. phase[x] \in {"gone", "error"} \/ OnWay(x, {"Destroy"})
    BY <1>2 DEF Dropped
  <1>7. ASSUME NEW r \in Requests, Safe(r)', reqBuffer'[r] = x
        PROVE  /\ nativeReply'[r] = "None"
               /\ \/ phase'[x] \in {"gone", "error"}
                  \/ /\ MapOnWay(r)'
                     /\ \A j \in DOMAIN toServer' :
                           toServer'[j].cmd = "MapAsync" /\ toServer'[j].request = r
                               => Before(j, x, {"Destroy"})'
    <2>1. CASE /\ Safe(r) /\ reqBuffer[r] = x
               /\ \A i \in DOMAIN cmds : cmds[i].cmd = "MapAsync" => cmds[i].request # r
      <3>1. nativeReply[r] = "None"
        BY <1>2, <2>1 DEF Dropped
      <3>2. \/ phase[x] \in {"gone", "error"}
            \/ /\ MapOnWay(r)
               /\ \A j \in DOMAIN toServer : toServer[j].cmd = "MapAsync" /\ toServer[j].request = r
                      => Before(j, x, {"Destroy"})
        BY <1>2, <2>1 DEF Dropped
      <3>3. \A j \in DOMAIN toServer' : toServer'[j].cmd = "MapAsync" /\ toServer'[j].request = r =>
                j \in DOMAIN toServer /\ toServer[j].cmd = "MapAsync" /\ toServer[j].request = r
        BY <1>5, <2>1
      <3> QED
        BY <1>4, <3>1, <3>2, <3>3
    <2>2. CASE /\ nativeReply[r] = "None" /\ ~MapOnWay(r)
               /\ \E i \in DOMAIN cmds : cmds[i].cmd = "MapAsync" /\ cmds[i].request = r
      <3>1. \A j \in DOMAIN toServer' : toServer'[j].cmd = "MapAsync" /\ toServer'[j].request = r =>
                j \notin DOMAIN toServer
        BY <1>5, <2>2 DEF MapOnWay
      <3> QED
        BY <1>4, <1>6, <2>2, <3>1
    <2> QED
      BY <1>7, <2>1, <2>2
  <1> QED
    BY <1>4, <1>6, <1>7

LEMMA ServerDrops ==
    ASSUME WireTypeOK, TalkInv, DropInv, ServerHandles, Running'
    PROVE  DropInv'
  <1> PICK h : h = Head(toServer)
    OBVIOUS
  <1>0. MapCommandInv /\ toServer \in Seq(Commands)
    BY DEF TalkInv, ChannelTypeOK
  <1>1. /\ toServer # <<>> /\ toServer' = Tail(toServer) /\ h = toServer[1]
        /\ 1 \in DOMAIN toServer /\ h.buffer \in Buffers
        /\ UNCHANGED <<clientVars, requestVars, mDisconnected>>
        /\ \A x \in Buffers : x # h.buffer => phase'[x] = phase[x]
    BY ServerShape
  <1>2. /\ \A r \in Requests : nativeReply'[r] # "None" =>
              \/ nativeReply[r] # "None"
              \/ h.cmd = "MapAsync" /\ h.request = r /\ phase[h.buffer] = "unmapped"
        /\ phase[h.buffer] \in {"gone", "error"} => phase'[h.buffer] \in {"gone", "error"}
        /\ h.cmd = "Destroy" => phase'[h.buffer] \in {"gone", "error"}
    BY ServerReplies
  <1>3. UNCHANGED <<live, kind, mReadHandle, mWriteHandle, reqBuffer, answer, clientStatus,
                    mDisconnected>>
    BY <1>1 DEF clientVars, requestVars
  <1>4. /\ \A r : Safe(r)' <=> Safe(r)
        /\ \A x : Handle(x)' <=> Handle(x)
    BY <1>3 DEF Safe, Waiting, Handle
  <1>5. /\ \A j \in DOMAIN toServer' : \A y, n : Before(j + 1, y, n) <=>
              Before(j, y, n)' \/ (toServer[1].buffer = y /\ toServer[1].cmd \in n)
        /\ \A y, n : OnWay(y, n) <=>
              OnWay(y, n)' \/ (toServer[1].buffer = y /\ toServer[1].cmd \in n)
        /\ \A r : MapOnWay(r) =>
              MapOnWay(r)' \/ (toServer[1].cmd = "MapAsync" /\ toServer[1].request = r)
    BY <1>0, <1>1, TakenBefore
  <1>6. \A j \in DOMAIN toServer' : j + 1 \in DOMAIN toServer /\ toServer'[j] = toServer[j + 1]
    BY <1>0, <1>1, Shrunk
  <1>7. ASSUME NEW x \in Buffers
        PROVE  Dropped(x)'
    <2>1. SUFFICES ASSUME live'[x], ~mDisconnected', kind'[x] # "AtCreation", ~Handle(x)'
                   PROVE  /\ phase'[x] \in {"gone", "error"} \/ OnWay(x, {"Destroy"})'
                          /\ \A r \in Requests : Safe(r)' /\ reqBuffer'[r] = x =>
                                /\ nativeReply'[r] = "None"
                                /\ \/ phase'[x] \in {"gone", "error"}
                                   \/ /\ MapOnWay(r)'
                                      /\ \A j \in DOMAIN toServer' :
                                            toServer'[j].cmd = "MapAsync" /\ toServer'[j].request = r
                                                => Before(j, x, {"Destroy"})'
      BY DEF Dropped
    <2>2. live[x] /\ ~mDisconnected /\ kind[x] # "AtCreation" /\ ~Handle(x) /\ Dropped(x)
      BY <1>3, <1>4, <2>1 DEF DropInv
    <2>3. phase[x] \in {"gone", "error"} => phase'[x] \in {"gone", "error"}
      BY <1>1, <1>2
    <2>4. h.buffer = x /\ h.cmd = "Destroy" => phase'[x] \in {"gone", "error"}
      BY <1>2
    <2>5. phase[x] \in {"gone", "error"} \/ OnWay(x, {"Destroy"})
      BY <2>2 DEF Dropped
    <2>6. phase'[x] \in {"gone", "error"} \/ OnWay(x, {"Destroy"})'
      BY <1>1, <1>5, <2>3, <2>4, <2>5
    <2>7. ASSUME NEW r \in Requests, Safe(r)', reqBuffer'[r] = x
          PROVE  /\ nativeReply'[r] = "None"
                 /\ \/ phase'[x] \in {"gone", "error"}
                    \/ /\ MapOnWay(r)'
                       /\ \A j \in DOMAIN toServer' :
                             toServer'[j].cmd = "MapAsync" /\ toServer'[j].request = r
                                 => Before(j, x, {"Destroy"})'
      <3>1. Safe(r) /\ reqBuffer[r] = x
        BY <1>3, <1>4, <2>7
      <3>2. nativeReply[r] = "None"
        BY <2>2, <3>1 DEF Dropped
      <3>3. \/ phase[x] \in {"gone", "error"}
            \/ /\ MapOnWay(r)
               /\ \A j \in DOMAIN toServer : toServer[j].cmd = "MapAsync" /\ toServer[j].request = r
                      => Before(j, x, {"Destroy"})
        BY <2>2, <3>1 DEF Dropped
      <3>4. h.cmd = "MapAsync" /\ h.request = r => h.buffer = x
        BY <1>0, <1>1, <3>1 DEF MapCommandInv
      <3>5. h.cmd = "MapAsync" /\ h.request = r => phase[x] \in {"gone", "error"}
        BY <1>1, <3>3, FirstBefore
      <3>6. nativeReply'[r] = "None"
        BY <1>2, <3>2, <3>4, <3>5
      <3>7. CASE phase[x] \in {"gone", "error"}
        BY <2>3, <3>6, <3>7
      <3>8. CASE phase[x] \notin {"gone", "error"} /\ ~(h.buffer = x /\ h.cmd = "Destroy")
        <4>1. MapOnWay(r)'
          BY <1>1, <1>5, <3>3, <3>5, <3>8
        <4>2. ASSUME NEW j \in DOMAIN toServer', toServer'[j].cmd = "MapAsync",
                     toServer'[j].request = r
              PROVE  Before(j, x, {"Destroy"})'
          <5>1. Before(j + 1, x, {"Destroy"})
            BY <1>6, <3>3, <3>8, <4>2
          <5> QED
            BY <1>1, <1>5, <3>8, <5>1
        <4> QED
          BY <3>6, <4>1, <4>2
      <3> QED
        BY <2>4, <3>6, <3>7, <3>8
    <2> QED
      BY <2>6, <2>7
  <1> QED
    BY <1>7, EachDropped

LEMMA DeviceDrops ==
    ASSUME WireTypeOK, TalkInv, DropInv, NEW b \in Buffers, Grant(b) \/ AnswerLost(b)
    PROVE  DropInv'
  <1>1. /\ phase[b] = "pending" /\ toServer' = toServer
        /\ UNCHANGED <<clientVars, requestVars, mDisconnected>>
        /\ \A x \in Buffers : x # b => phase'[x] = phase[x]
        /\ \A r \in Requests : nativeReply'[r] = "None" <=> nativeReply[r] = "None"
    BY DeviceShape
  <1>2. UNCHANGED <<live, kind, mReadHandle, mWriteHandle, reqBuffer, answer, clientStatus,
                    mDisconnected>>
    BY <1>1 DEF clientVars, requestVars
  <1>3. /\ \A r : Safe(r)' <=> Safe(r)
        /\ \A x : Handle(x)' <=> Handle(x)
    BY <1>2 DEF Safe, Waiting, Handle
  <1>4. ASSUME NEW x \in Buffers
        PROVE  Dropped(x)'
    <2>1. Dropped(x)
      BY DEF DropInv
    <2>2. phase[x] \in {"gone", "error"} => phase'[x] \in {"gone", "error"}
      BY <1>1
    <2> QED
      BY <1>1, <1>2, <1>3, <2>1, <2>2, DroppedKept
  <1> QED
    BY <1>4, EachDropped

LEMMA UnmapDrops ==
    ASSUME WireTypeOK, TalkInv, DropInv, NEW b \in Buffers, Unmap(b)
    PROVE  DropInv'
  <1>1. IdInv /\ toServer \in Seq(Commands)
    BY DEF TalkInv, ChannelTypeOK
  <1>2. PICK cmds : cmds = IF WillFlush(b)
                            THEN <<Command("UpdateMappedData", b), Command("Unmap", b)>>
                            ELSE <<Command("Unmap", b)>>
    OBVIOUS
  <1>3. /\ cmds \in Seq(Commands) /\ Send(cmds)
        /\ \A i \in DOMAIN cmds : cmds[i].cmd \in {"UpdateMappedData", "Unmap"}
    BY <1>1, <1>2, UnmapSends, SMTT(30)
  <1>4. UNCHANGED <<live, kind, mReadHandle, reqBuffer, answer, mDisconnected, phase, nativeReply>>
        /\ Tag(b, "Unmapped")
    BY DEF Unmap, nativeVars
  <1>5. \A r \in Requests : Safe(r)' => Safe(r)
    BY <1>4 DEF Safe, Waiting, Tag
  <1>6. \A x \in Buffers : kind[x] # "AtCreation" => (Handle(x)' <=> Handle(x))
    <2>1. mWriteHandle \in [Buffers -> BOOLEAN] /\ kind \in [Buffers -> AllKinds]
      BY DEF WireTypeOK
    <2>2. \A x \in Buffers : x # b \/ MapsWrite(kind[x]) => mWriteHandle'[x] = mWriteHandle[x]
      BY <2>1 DEF Unmap
    <2>3. \A x \in Buffers : kind[x] # "AtCreation" /\ ~MapsRead(kind[x]) => MapsWrite(kind[x])
      BY <2>1 DEF MapsRead, MapsWrite, AllKinds
    <2> QED
      BY <1>4, <2>2, <2>3 DEF Handle
  <1>7. \A i \in DOMAIN cmds : cmds[i].cmd # "MapAsync"
    BY <1>3
  <1>8. ASSUME NEW x \in Buffers
        PROVE  Dropped(x)'
    <2>1. Dropped(x)
      BY DEF DropInv
    <2>2. live'[x] /\ kind'[x] # "AtCreation" /\ ~Handle(x)' =>
              live[x] /\ kind[x] # "AtCreation" /\ ~Handle(x)
      BY <1>4, <1>6
    <2>3. \A r \in Requests : Safe(r)' /\ reqBuffer'[r] = x => Safe(r) /\ reqBuffer[r] = x
      BY <1>4, <1>5
    <2> QED
      BY <1>1, <1>3, <1>4, <1>7, <2>1, <2>2, <2>3, DroppedSent
  <1> QED
    BY <1>8, EachDropped

LEMMA EndDrops ==
    ASSUME WireTypeOK, TalkInv, DropInv, NEW b \in Buffers, Destroy(b) \/ Release(b)
    PROVE  DropInv'
  <1>0. IdInv /\ toServer \in Seq(Commands) /\ live[b]
    BY DEF TalkInv, ChannelTypeOK, Destroy, Release
  <1>1. /\ mReadHandle \in [Buffers -> BOOLEAN] /\ mWriteHandle \in [Buffers -> BOOLEAN]
        /\ live \in [Buffers -> BOOLEAN]
    BY DEF WireTypeOK
  <1>2. PICK name \in {"Destroy", "DestroyObject"} :
            Send(<<Command(name, b)>>) /\ (Destroy(b) => name = "Destroy")
    BY DEF Destroy, Release
  <1>3. PICK cmds : cmds = <<Command(name, b)>>
    OBVIOUS
  <1>4. /\ cmds \in Seq(Commands) /\ Len(cmds) = 1
        /\ \A i \in DOMAIN cmds : cmds[i].buffer = b /\ cmds[i].cmd = name
    BY <1>0, <1>3, OneSent DEF Names
  <1>5. Send(cmds)
    BY <1>2, <1>3
  <1>6. /\ UNCHANGED <<kind, reqBuffer, mDisconnected, phase, nativeReply>>
        /\ mReadHandle' = [mReadHandle EXCEPT ![b] = FALSE]
        /\ mWriteHandle' = [mWriteHandle EXCEPT ![b] = FALSE]
    BY DEF Destroy, Release, nativeVars
  <1>7. \A x \in Buffers : x # b => live'[x] = live[x] /\ (Handle(x)' <=> Handle(x))
    <2>1. live' = live \/ live' = [live EXCEPT ![b] = FALSE]
      BY DEF Destroy, Release
    <2>2. \A x \in Buffers : x # b => live'[x] = live[x]
      BY <1>1, <2>1
    <2> QED
      BY <1>1, <1>6, <2>2 DEF Handle
  <1>8. \A r \in Requests : Safe(r)' => Safe(r) /\ reqBuffer[r] # b
    <2>1. CASE Destroy(b)
      <3>1. UNCHANGED answer /\ Tag(b, "Destroyed")
        BY <2>1 DEF Destroy
      <3> QED
        BY <3>1 DEF Safe, Waiting, Tag, WaitingOn
    <2>2. CASE Release(b)
      <3>1. /\ answer' = [r \in Requests |-> IF r \in WaitingOn(b) THEN "Destroyed" ELSE answer[r]]
            /\ clientStatus' = [r \in Requests |-> IF r \in WaitingOn(b) THEN "Success"
                                                                         ELSE clientStatus[r]]
        BY <2>2 DEF Release
      <3> QED
        BY <3>1 DEF Safe, Waiting, WaitingOn
    <2> QED
      BY <2>1, <2>2
  <1>9. \A i \in DOMAIN cmds : cmds[i].cmd # "MapAsync"
    BY <1>4
  <1>10. ASSUME NEW x \in Buffers, x # b
         PROVE  Dropped(x)'
    <2>1. Dropped(x)
      BY DEF DropInv
    <2>2. live'[x] /\ kind'[x] # "AtCreation" /\ ~Handle(x)' =>
              live[x] /\ kind[x] # "AtCreation" /\ ~Handle(x)
      BY <1>6, <1>7, <1>10
    <2>3. \A r \in Requests : Safe(r)' /\ reqBuffer'[r] = x => Safe(r) /\ reqBuffer[r] = x
      BY <1>6, <1>8
    <2> QED
      BY <1>0, <1>4, <1>5, <1>6, <1>9, <2>1, <2>2, <2>3, DroppedSent
  <1>11. Dropped(b)'
    <2>1. CASE Destroy(b)
      <3>1. ASSUME ~mDisconnected'
            PROVE  OnWay(b, {"Destroy"})'
        <4>1. toServer' = toServer \o cmds
          BY <1>5, <1>6, <3>1 DEF Send
        <4>2. (\E i \in DOMAIN cmds : cmds[i].buffer = b /\ cmds[i].cmd \in {"Destroy"}) =>
                  OnWay(b, {"Destroy"})'
          BY <1>0, <1>4, <4>1, SentBefore
        <4>3. 1 \in DOMAIN cmds
          BY <1>4
        <4> QED
          BY <1>2, <1>4, <2>1, <4>2, <4>3
      <3>2. \A r \in Requests : ~(Safe(r)' /\ reqBuffer'[r] = b)
        BY <1>6, <1>8
      <3> QED
        BY <3>1, <3>2 DEF Dropped
    <2>2. CASE Release(b)
      <3>1. live' = [live EXCEPT ![b] = FALSE]
        BY <2>2 DEF Release
      <3>2. ~live'[b]
        BY <1>1, <3>1
      <3> QED
        BY <3>2 DEF Dropped
    <2> QED
      BY <2>1, <2>2
  <1> QED
    BY <1>10, <1>11, EachDropped

LEMMA MapAsyncDrops ==
    ASSUME WireTypeOK, TalkInv, DropInv, NEW r \in Requests, NEW b \in Buffers, MapAsync(r, b)
    PROVE  DropInv'
  <1>1. toServer \in Seq(Commands)
    BY DEF TalkInv, ChannelTypeOK
  <1>2. /\ nativeReply[r] = "None" /\ ~MapOnWay(r)
        /\ UNCHANGED <<kind, live, mReadHandle, mWriteHandle, clientStatus, mDisconnected, phase,
                       nativeReply>>
        /\ \A q \in Requests : q # r => reqBuffer'[q] = reqBuffer[q] /\ answer'[q] = answer[q]
    BY MapAsyncSends
  <1>3. PICK cmds \in Seq(Commands) : /\ Send(cmds) /\ DOMAIN cmds = {1}
                                      /\ cmds[1].cmd = "MapAsync" /\ cmds[1].request = r
    BY MapAsyncSends
  <1>4. \A x : Handle(x)' <=> Handle(x)
    BY <1>2 DEF Handle
  <1>5. ASSUME NEW x \in Buffers
        PROVE  Dropped(x)'
    <2>1. Dropped(x)
      BY DEF DropInv
    <2>2. ASSUME NEW q \in Requests, Safe(q)', reqBuffer'[q] = x
          PROVE  \/ /\ Safe(q) /\ reqBuffer[q] = x
                    /\ \A i \in DOMAIN cmds : cmds[i].cmd = "MapAsync" => cmds[i].request # q
                 \/ /\ nativeReply[q] = "None" /\ ~MapOnWay(q)
                    /\ \E i \in DOMAIN cmds : cmds[i].cmd = "MapAsync" /\ cmds[i].request = q
      <3>1. CASE q = r
        BY <1>2, <1>3, <3>1
      <3>2. CASE q # r
        <4>1. Safe(q) /\ reqBuffer[q] = x
          BY <1>2, <2>2, <3>2 DEF Safe, Waiting
        <4> QED
          BY <1>3, <3>2, <4>1
      <3> QED
        BY <3>1, <3>2
    <2>3. live'[x] /\ kind'[x] # "AtCreation" /\ ~Handle(x)' =>
              live[x] /\ kind[x] # "AtCreation" /\ ~Handle(x)
      BY <1>2, <1>4
    <2> QED
      BY <1>1, <1>2, <1>3, <2>1, <2>2, <2>3, DroppedSent
  <1> QED
    BY <1>5, EachDropped

LEMMA CreateDrops ==
    ASSUME WireTypeOK, TalkInv, DropInv, NEW k \in Kinds, CreateBuffer(k)
    PROVE  DropInv'
  <1>1. toServer \in Seq(Commands)
    BY DEF TalkInv, ChannelTypeOK
  <1>2. PICK b : b = created + 1
    OBVIOUS
  <1>3. /\ b \in Buffers /\ kind'[b] = k
        /\ mReadHandle'[b] = MapsRead(k) /\ mWriteHandle'[b] = (MapsWrite(k) \/ AtCreation(k))
        /\ \A x \in Buffers : x # b =>
              /\ live'[x] = live[x] /\ kind'[x] = kind[x]
              /\ mReadHandle'[x] = mReadHandle[x] /\ mWriteHandle'[x] = mWriteHandle[x]
        /\ UNCHANGED <<phase, nativeReply, mDisconnected, reqBuffer, answer, clientStatus>>
    BY <1>2, CreateSends
  <1>4. PICK cmds \in Seq(Commands) : Send(cmds) /\ DOMAIN cmds = {1} /\ cmds[1].cmd = "Create"
    BY <1>2, CreateSends
  <1>5. \A r : Safe(r)' <=> Safe(r)
    BY <1>3 DEF Safe, Waiting
  <1>6. \A i \in DOMAIN cmds : cmds[i].cmd # "MapAsync"
    BY <1>4
  <1>7. ASSUME NEW x \in Buffers, x # b
        PROVE  Dropped(x)'
    <2>1. Dropped(x)
      BY DEF DropInv
    <2>2. live'[x] /\ kind'[x] # "AtCreation" /\ ~Handle(x)' =>
              live[x] /\ kind[x] # "AtCreation" /\ ~Handle(x)
      BY <1>3, <1>7 DEF Handle
    <2>3. \A r \in Requests : Safe(r)' /\ reqBuffer'[r] = x => Safe(r) /\ reqBuffer[r] = x
      BY <1>3, <1>5
    <2>4. UNCHANGED <<mDisconnected, phase, nativeReply>>
      BY <1>3
    <2> QED
      BY <1>1, <1>4, <1>6, <2>1, <2>2, <2>3, <2>4, DroppedSent
  <1>8. Dropped(b)'
    <2>1. k \in AllKinds
      BY WireBounds
    <2>2. k # "AtCreation" => Handle(b)'
      BY <1>3, <2>1 DEF Handle, MapsRead, MapsWrite, AllKinds
    <2> QED
      BY <1>3, <2>2 DEF Dropped
  <1> QED
    BY <1>3, <1>7, <1>8, EachDropped

LEMMA RestDrops ==
    ASSUME WireTypeOK, DropInv, Disconnect \/ LoseDevice \/ UNCHANGED vars
    PROVE  DropInv'
  <1>1. CASE Disconnect
    <2>1. mDisconnected'
      BY <1>1 DEF Disconnect
    <2> QED
      BY <2>1 DEF DropInv, Dropped
  <1>2. CASE LoseDevice \/ UNCHANGED vars
    <2>1. UNCHANGED <<live, kind, mReadHandle, mWriteHandle, reqBuffer, answer, clientStatus,
                      mDisconnected, toServer, phase, nativeReply>>
      BY <1>2 DEF LoseDevice, vars, clientVars, requestVars, wireVars, nativeVars
    <2>2. /\ \A r : Safe(r)' <=> Safe(r)
          /\ \A x : Handle(x)' <=> Handle(x)
      BY <2>1 DEF Safe, Waiting, Handle
    <2>3. ASSUME NEW x \in Buffers
          PROVE  Dropped(x)'
      <3>1. Dropped(x)
        BY DEF DropInv
      <3> QED
        BY <2>1, <2>2, <3>1, DroppedKept
    <2> QED
      BY <2>3, EachDropped
  <1> QED
    BY <1>1, <1>2

LEMMA CallbackDrops ==
    ASSUME WireTypeOK, TalkInv, DropInv, OnMapAsyncCallback
    PROVE  DropInv'
  <1>1. /\ UNCHANGED <<live, kind, mReadHandle, mWriteHandle, reqBuffer, mDisconnected, toServer,
                       nativeVars>>
        /\ \/ UNCHANGED <<answer, clientStatus, mMapState, unflushed>>
           \/ \E r \in Requests, b \in Buffers, reply \in Statuses :
                 AnswerRequest(r, b, reply) /\ answer[r] = "Waiting"
    BY CallbackEffect
  <1>2. UNCHANGED <<phase, nativeReply>>
    BY <1>1 DEF nativeVars
  <1>3. \A x : Handle(x)' <=> Handle(x)
    BY <1>1 DEF Handle
  <1>4. \A q \in Requests : Safe(q)' => Safe(q)
    <2>1. CASE UNCHANGED <<answer, clientStatus, mMapState, unflushed>>
      BY <2>1 DEF Safe, Waiting
    <2>2. ASSUME NEW r \in Requests, NEW b \in Buffers, NEW reply \in Statuses,
                 AnswerRequest(r, b, reply), answer[r] = "Waiting"
          PROVE  \A q \in Requests : Safe(q)' => Safe(q)
      <3>1. clientStatus \in [Requests -> {"Success", "Unmapped", "Destroyed"}]
        BY DEF WireTypeOK
      <3>2. /\ answer'[r] \in Statuses
            /\ \A q \in Requests : q # r => answer'[q] = answer[q]
        BY <2>2, AnswerGiven
      <3>3. \A q \in Requests : q # r => clientStatus'[q] = clientStatus[q]
        BY <2>2, <3>1 DEF AnswerRequest
      <3> QED
        BY <3>2, <3>3 DEF Safe, Waiting, Statuses
    <2> QED
      BY <1>1, <2>1, <2>2
  <1>5. ASSUME NEW x \in Buffers
        PROVE  Dropped(x)'
    <2>1. Dropped(x)
      BY DEF DropInv
    <2> QED
      BY <1>1, <1>2, <1>3, <1>4, <2>1, DroppedKept
  <1> QED
    BY <1>5, EachDropped

-----------------------------------------------------------------------------
LEMMA AgreeInit == Init => AgreeInv
  <1> SUFFICES ASSUME Init PROVE AgreeInv
    OBVIOUS
  <1>1. DOMAIN toServer = {} /\ DOMAIN toClient = {}
    BY DEF Init
  <1>2. /\ knownSize = 1 /\ mCurrentId = 1 /\ wireError = "None"
        /\ \A b \in Buffers : /\ ~IsCreated(b) /\ ~InServer(b) /\ phase[b] = "none" /\ ~live[b]
                              /\ mMapState[b] = "Unmapped"
        /\ \A r \in Requests : nativeReply[r] = "None" /\ ~Waiting(r)
    BY DEF Init, IsCreated, InServer, Waiting
  <1>3. NumberInv
    BY <1>1, <1>2 DEF NumberInv
  <1>4. ReleaseInv
    BY <1>1, <1>2 DEF ReleaseInv
  <1>5. TransitInv
    BY <1>1, <1>2 DEF TransitInv, Asked, MapOnWay, AnswerOnWay
  <1>6. HandleInv
    BY <1>2 DEF HandleInv, Handles
  <1>7. WriteInv
    BY <1>1, <1>2 DEF WriteInv, Writes, Safe, ClientMaps
  <1>8. DropInv
    BY <1>2 DEF DropInv, Dropped
  <1> QED
    BY <1>2, <1>3, <1>4, <1>5, <1>6, <1>7, <1>8 DEF AgreeInv, NoWireError

LEMMA AgreePreserved == GrantInv /\ BothSidesInv /\ AgreeInv /\ [Next]_vars => AgreeInv'
  <1> SUFFICES ASSUME GrantInv, BothSidesInv, AgreeInv, [Next]_vars PROVE AgreeInv'
    OBVIOUS
  <1>0. /\ Running /\ NumberInv /\ ReleaseInv /\ TransitInv /\ HandleInv /\ WriteInv /\ DropInv
        /\ WireTypeOK /\ TalkInv /\ SafeInv /\ MappedInv
    BY DEF AgreeInv, GrantInv, BothSidesInv, NoWireError, Running
  <1>1. Running'
    BY <1>0, StepRuns
  <1>2. SUFFICES NumberInv' /\ ReleaseInv' /\ TransitInv' /\ HandleInv' /\ WriteInv' /\ DropInv'
    BY <1>1 DEF AgreeInv, NoWireError, Running
  <1>3. ASSUME NEW k \in Kinds, CreateBuffer(k)
        PROVE  NumberInv' /\ ReleaseInv' /\ TransitInv' /\ HandleInv' /\ WriteInv' /\ DropInv'
    BY <1>0, <1>3, CreateNumbers, CreateTransit, CreateHandlesKept, CreateWrites, CreateDrops
  <1>4. ASSUME NEW b \in Buffers, Unmap(b) \/ Destroy(b) \/ Release(b)
        PROVE  NumberInv' /\ ReleaseInv' /\ TransitInv' /\ HandleInv' /\ WriteInv' /\ DropInv'
    BY <1>0, <1>4, ClientNumbers, ClientTransit, ClientHandlesKept, ClientWrites, UnmapDrops,
       EndDrops
  <1>5. ASSUME NEW r \in Requests, NEW b \in Buffers, MapAsync(r, b)
        PROVE  NumberInv' /\ ReleaseInv' /\ TransitInv' /\ HandleInv' /\ WriteInv' /\ DropInv'
    BY <1>0, <1>5, MapAsyncNumbers, MapAsyncTransit, MapAsyncHandlesKept, MapAsyncWrites,
       MapAsyncDrops
  <1>6. CASE Disconnect
    BY <1>0, <1>6, DisconnectNumbers, DisconnectTransit, ClientHandlesKept, RestWrites, RestDrops
  <1>7. CASE OnMapAsyncCallback
    BY <1>0, <1>7, DeviceNumbers, CallbackTransit, CallbackHandlesKept, CallbackWrites,
       CallbackDrops
  <1>8. CASE ServerHandles
    BY <1>0, <1>1, <1>8, NumbersTaken, ReleasesTaken, ServerTransit, ServerHandlesKept,
       ServerWrites, ServerDrops
  <1>9. ASSUME NEW b \in Buffers, Grant(b) \/ AnswerLost(b)
        PROVE  NumberInv' /\ ReleaseInv' /\ TransitInv' /\ HandleInv' /\ WriteInv' /\ DropInv'
    BY <1>0, <1>9, DeviceNumbers, DeviceTransit, DeviceHandlesKept, DeviceWrites, DeviceDrops
  <1>10. CASE LoseDevice \/ UNCHANGED vars
    BY <1>0, <1>10, DeviceNumbers, LoseTransit, ClientHandlesKept, RestWrites, RestDrops
  <1> QED
    BY <1>3, <1>4, <1>5, <1>6, <1>7, <1>8, <1>9, <1>10 DEF Next

(* No handler fails: whatever an application calls and however the two     *)
(* channels interleave, KnownObjects finds or takes every id a command     *)
(* names, the data of UpdateMappedData finds a mapping with its handle,    *)
(* the request of a MapAsyncCallback is waiting, and both sides have the   *)
(* handle of the mapping it grants.                                        *)
THEOREM HandlersNeverFail == Spec => []NoWireError
  <1>1. Spec => [](GrantInv /\ BothSidesInv /\ AgreeInv)
    BY GrantInit, GrantPreserved, SidesInit, SidesPreserved, AgreeInit, AgreePreserved, PTL
       DEF Spec
  <1>2. AgreeInv => NoWireError
    BY DEF AgreeInv
  <1> QED
    BY <1>1, <1>2, PTL

-----------------------------------------------------------------------------
(* What the client promises its application.                               *)

LEMMA TurnsKept ==
    ASSUME TurnInv, \A x \in Buffers : Holds(x)' => Holds(x),
           \A x \in Buffers, r \in Requests : WillGrant(r, x)' => WillGrant(r, x),
           \A r \in Requests : ~Waiting(r)' =>
               clientStatus'[r] = "Success" \/ (~Waiting(r) /\ clientStatus'[r] = clientStatus[r])
    PROVE  TurnInv'
  <1>1. ASSUME NEW x \in Buffers, NEW r \in Requests, WillGrant(r, x)'
        PROVE  ~Holds(x)' /\ \A q \in Requests : WillGrant(q, x)' => q = r
    BY <1>1 DEF TurnInv
  <1>2. \A r \in Requests : ~Waiting(r)' => clientStatus'[r] = "Success"
    BY DEF TurnInv
  <1> QED
    BY <1>1, <1>2 DEF TurnInv

(* The steps of the server, of its device, and of nobody.                  *)
LEMMA ClientRests ==
    ASSUME TurnInv, UNCHANGED <<mMapState, mReadHandle, mWriteHandle, requestVars>>,
           \A r \in Requests : nativeReply'[r] = "Success" => nativeReply[r] = "Success"
    PROVE  TurnInv'
  <1>1. \A x \in Buffers : Holds(x)' <=> Holds(x)
    BY DEF Holds, ClientMaps
  <1>2. \A x \in Buffers, r \in Requests : WillGrant(r, x)' => WillGrant(r, x)
    BY DEF WillGrant, Safe, Waiting, requestVars
  <1>3. \A r \in Requests : ~Waiting(r)' => ~Waiting(r) /\ clientStatus'[r] = clientStatus[r]
    BY DEF Waiting, requestVars
  <1> QED
    BY <1>1, <1>2, <1>3, TurnsKept

(* Unmap, Destroy and Release: b is not held afterwards, and no request    *)
(* for it is open.                                                         *)
LEMMA EndTurns ==
    ASSUME WireTypeOK, NEW b \in Buffers, Unmap(b) \/ Destroy(b) \/ Release(b)
    PROVE  /\ UNCHANGED <<reqBuffer, nativeReply>>
           /\ ~Holds(b)' /\ \A x \in Buffers : x # b => (Holds(x)' <=> Holds(x))
           /\ \A r \in Requests :
                 /\ reqBuffer[r] = b => ~Safe(r)'
                 /\ reqBuffer[r] # b => /\ answer'[r] = answer[r]
                                        /\ clientStatus'[r] = clientStatus[r]
                 /\ ~Waiting(r) => answer'[r] = answer[r] /\ clientStatus'[r] = clientStatus[r]
                 /\ Waiting(r) /\ reqBuffer[r] = b =>
                       answer'[r] = answer[r] \/ clientStatus'[r] = "Success"
           /\ \/ answer' = answer
              \/ answer' = [r \in Requests |-> IF r \in WaitingOn(b) THEN "Destroyed" ELSE answer[r]]
  <1>1. /\ mMapState \in [Buffers -> {"Unmapped", "MappedForRead", "MappedForWrite",
                                      "MappedAtCreation"}]
        /\ mReadHandle \in [Buffers -> BOOLEAN] /\ mWriteHandle \in [Buffers -> BOOLEAN]
        /\ answer \in [Requests -> {"None", "Waiting"} \cup Statuses]
        /\ clientStatus \in [Requests -> {"Success", "Unmapped", "Destroyed"}]
    BY DEF WireTypeOK
  <1>2. UNCHANGED <<reqBuffer, nativeReply>>
    BY DEF Unmap, Destroy, Release, nativeVars
  <1>3. CASE Unmap(b)
    <2>1. /\ \A x \in Buffers : x # b => /\ mMapState'[x] = mMapState[x]
                                         /\ mReadHandle'[x] = mReadHandle[x]
                                         /\ mWriteHandle'[x] = mWriteHandle[x]
          /\ mMapState'[b] = "Unmapped"
      BY <1>1, <1>3 DEF Unmap
    <2>2. answer' = answer /\ Tag(b, "Unmapped")
      BY <1>3 DEF Unmap
    <2>3. \A r \in Requests :
              clientStatus'[r] = IF r \in WaitingOn(b) /\ clientStatus[r] = "Success"
                                   THEN "Unmapped" ELSE clientStatus[r]
      BY <2>2 DEF Tag
    <2>4. ~Holds(b)' /\ \A x \in Buffers : x # b => (Holds(x)' <=> Holds(x))
      BY <2>1 DEF Holds, ClientMaps
    <2> QED
      BY <1>1, <1>2, <2>2, <2>3, <2>4 DEF WaitingOn, Safe, Waiting
  <1>4. CASE Destroy(b)
    <2>1. /\ \A x \in Buffers : x # b => /\ mMapState'[x] = mMapState[x]
                                         /\ mReadHandle'[x] = mReadHandle[x]
                                         /\ mWriteHandle'[x] = mWriteHandle[x]
          /\ ~mReadHandle'[b] /\ ~mWriteHandle'[b]
      BY <1>1, <1>4 DEF Destroy
    <2>2. answer' = answer /\ Tag(b, "Destroyed")
      BY <1>4 DEF Destroy
    <2>3. \A r \in Requests :
              clientStatus'[r] = IF r \in WaitingOn(b) /\ clientStatus[r] = "Success"
                                   THEN "Destroyed" ELSE clientStatus[r]
      BY <2>2 DEF Tag
    <2>4. ~Holds(b)' /\ \A x \in Buffers : x # b => (Holds(x)' <=> Holds(x))
      BY <2>1 DEF Holds, ClientMaps
    <2> QED
      BY <1>1, <1>2, <2>2, <2>3, <2>4 DEF WaitingOn, Safe, Waiting
  <1>5. CASE Release(b)
    <2>1. /\ \A x \in Buffers : x # b => /\ mMapState'[x] = mMapState[x]
                                         /\ mReadHandle'[x] = mReadHandle[x]
                                         /\ mWriteHandle'[x] = mWriteHandle[x]
          /\ ~mReadHandle'[b] /\ ~mWriteHandle'[b]
      BY <1>1, <1>5 DEF Release
    <2>2. /\ answer' = [r \in Requests |-> IF r \in WaitingOn(b) THEN "Destroyed" ELSE answer[r]]
          /\ \A r \in Requests : clientStatus'[r] = IF r \in WaitingOn(b) THEN "Success"
                                                                      ELSE clientStatus[r]
      BY <1>5 DEF Release
    <2>3. ~Holds(b)' /\ \A x \in Buffers : x # b => (Holds(x)' <=> Holds(x))
      BY <2>1 DEF Holds, ClientMaps
    <2> QED
      BY <1>1, <1>2, <2>2, <2>3 DEF WaitingOn, Safe, Waiting
  <1> QED
    BY <1>3, <1>4, <1>5

(* The answer to r is given: it is granted, or the buffers stay as they    *)
(* are.                                                                    *)
LEMMA AnswerTurn ==
    ASSUME WireTypeOK, NEW r \in Requests, NEW b \in Buffers, NEW reply \in Statuses,
           AnswerRequest(r, b, reply), UNCHANGED <<mReadHandle, mWriteHandle, reqBuffer, nativeReply>>
    PROVE  /\ clientStatus'[r] = "Success" /\ answer'[r] \in Statuses
           /\ \A q \in Requests : q # r =>
                 answer'[q] = answer[q] /\ clientStatus'[q] = clientStatus[q]
           /\ \A x \in Buffers : x # b => (Holds(x)' <=> Holds(x))
           /\ \/ /\ reply = "Success" /\ clientStatus[r] = "Success"
                 /\ answer'[r] = "Success" /\ Holds(b)'
              \/ answer'[r] # "Success" /\ (Holds(b)' <=> Holds(b))
  <1>1. /\ mMapState \in [Buffers -> {"Unmapped", "MappedForRead", "MappedForWrite",
                                      "MappedAtCreation"}]
        /\ answer \in [Requests -> {"None", "Waiting"} \cup Statuses]
        /\ clientStatus \in [Requests -> {"Success", "Unmapped", "Destroyed"}]
    BY DEF WireTypeOK
  <1>2. PICK status : status = FinalStatus(r, reply)
    OBVIOUS
  <1>3. status \in Statuses /\ (status = "Success" => reply = "Success" /\ clientStatus[r] = "Success")
    BY <1>1, <1>2 DEF FinalStatus, Statuses
  <1>4. /\ answer' = [answer EXCEPT ![r] =
                IF status = "Success" /\ ~Handle(b) THEN "DeviceLost" ELSE status]
        /\ mMapState' = [mMapState EXCEPT ![b] =
                IF ~(status = "Success" /\ Handle(b)) THEN @
                ELSE IF MapsRead(kind[b]) THEN "MappedForRead" ELSE "MappedForWrite"]
        /\ clientStatus' = [clientStatus EXCEPT ![r] = "Success"]
    BY <1>2 DEF AnswerRequest, Handle
  <1>5. /\ clientStatus'[r] = "Success"
        /\ answer'[r] = IF status = "Success" /\ ~Handle(b) THEN "DeviceLost" ELSE status
        /\ \A q \in Requests : q # r => answer'[q] = answer[q] /\ clientStatus'[q] = clientStatus[q]
        /\ \A x \in Buffers : x # b => mMapState'[x] = mMapState[x]
        /\ mMapState'[b] = IF ~(status = "Success" /\ Handle(b)) THEN mMapState[b]
                           ELSE IF MapsRead(kind[b]) THEN "MappedForRead" ELSE "MappedForWrite"
    BY <1>1, <1>4
  <1>6. \A x \in Buffers : x # b => (Holds(x)' <=> Holds(x))
    BY <1>5 DEF Holds, ClientMaps
  <1>7. answer'[r] \in Statuses
    BY <1>3, <1>5 DEF Statuses
  <1>8. CASE status = "Success" /\ Handle(b)
    <2>1. Holds(b)'
      BY <1>5, <1>8 DEF Holds, ClientMaps, Handle
    <2> QED
      BY <1>3, <1>5, <1>6, <1>7, <1>8, <2>1
  <1>9. CASE ~(status = "Success" /\ Handle(b))
    <2>1. Holds(b)' <=> Holds(b)
      BY <1>5, <1>9 DEF Holds, ClientMaps
    <2>2. answer'[r] # "Success"
      BY <1>5, <1>9
    <2> QED
      BY <1>5, <1>6, <1>7, <2>1, <2>2
  <1> QED
    BY <1>8, <1>9

LEMMA TurnInit == Init => TurnInv
  BY DEF Init, TurnInv, WillGrant, Safe, Waiting

LEMMA TurnPreserved ==
    GrantInv /\ BothSidesInv /\ AgreeInv /\ TurnInv /\ [Next]_vars => TurnInv'
  <1> SUFFICES ASSUME GrantInv, BothSidesInv, AgreeInv, TurnInv, [Next]_vars PROVE TurnInv'
    OBVIOUS
  <1>0. /\ Running /\ WriteInv /\ WireTypeOK /\ TalkInv /\ SafeInv /\ MappedInv
        /\ SerialInv /\ PendingInv
    BY DEF AgreeInv, GrantInv, BothSidesInv, TalkInv, NoWireError, Running
  <1>01. Running'
    BY <1>0, StepRuns DEF AgreeInv
  <1>1. ASSUME NEW k \in Kinds, CreateBuffer(k)
        PROVE  TurnInv'
    <2> DEFINE b == created + 1
    <2>1. /\ b \in Buffers /\ ~live[b]
          /\ UNCHANGED <<nativeReply, reqBuffer, answer, clientStatus>>
          /\ \A x \in Buffers : x # b =>
                /\ mMapState'[x] = mMapState[x] /\ mReadHandle'[x] = mReadHandle[x]
                /\ mWriteHandle'[x] = mWriteHandle[x]
      BY <1>0, <1>1, CreateSends
    <2>2. \A x \in Buffers : x # b => (Holds(x)' <=> Holds(x))
      BY <2>1 DEF Holds, ClientMaps
    <2>3. \A x \in Buffers, r \in Requests : WillGrant(r, x)' => WillGrant(r, x) /\ x # b
      BY <1>0, <2>1 DEF WillGrant, Safe, Waiting, SerialInv
    <2> HIDE DEF b
    <2>4. ASSUME NEW x \in Buffers, NEW r \in Requests, WillGrant(r, x)'
          PROVE  ~Holds(x)' /\ \A q \in Requests : WillGrant(q, x)' => q = r
      BY <2>2, <2>3, <2>4 DEF TurnInv
    <2>5. \A r \in Requests : ~Waiting(r)' => clientStatus'[r] = "Success"
      BY <2>1 DEF TurnInv, Waiting
    <2> QED
      BY <2>4, <2>5 DEF TurnInv
  <1>2. ASSUME NEW b \in Buffers, Unmap(b) \/ Destroy(b) \/ Release(b)
        PROVE  TurnInv'
    <2>1. \A x \in Buffers : Holds(x)' => Holds(x)
      BY <1>0, <1>2, EndTurns
    <2>2. \A x \in Buffers, r \in Requests : WillGrant(r, x)' => WillGrant(r, x)
      BY <1>0, <1>2, EndTurns DEF WillGrant, Safe, Waiting
    <2>3. \A r \in Requests : ~Waiting(r)' =>
              clientStatus'[r] = "Success" \/ (~Waiting(r) /\ clientStatus'[r] = clientStatus[r])
      BY <1>0, <1>2, EndTurns DEF Waiting
    <2> QED
      BY <2>1, <2>2, <2>3, TurnsKept
  <1>3. ASSUME NEW r \in Requests, NEW b \in Buffers, MapAsync(r, b)
        PROVE  TurnInv'
    <2>1. /\ answer[r] = "None" /\ nativeReply[r] = "None"
          /\ UNCHANGED <<mMapState, mReadHandle, mWriteHandle, clientStatus, nativeReply>>
          /\ \A q \in Requests : q # r => reqBuffer'[q] = reqBuffer[q] /\ answer'[q] = answer[q]
      BY <1>0, <1>3, MapAsyncSends
    <2>2. \A x \in Buffers : Holds(x)' => Holds(x)
      BY <2>1 DEF Holds, ClientMaps
    <2>3. \A x \in Buffers, q \in Requests : WillGrant(q, x)' => WillGrant(q, x)
      BY <2>1 DEF WillGrant, Safe, Waiting
    <2>4. \A q \in Requests : ~Waiting(q)' => ~Waiting(q) /\ clientStatus'[q] = clientStatus[q]
      BY <2>1 DEF Waiting
    <2> QED
      BY <2>2, <2>3, <2>4, TurnsKept
  <1>4. CASE Disconnect
    <2>1. /\ UNCHANGED <<mMapState, mReadHandle, mWriteHandle>>
          /\ \A r \in Requests : ~Waiting(r)' /\ clientStatus'[r] = "Success"
      BY <1>4 DEF Disconnect, Waiting, clientVars
    <2> QED
      BY <2>1 DEF TurnInv, WillGrant, Safe
  <1>5. CASE OnMapAsyncCallback
    <2>1. UNCHANGED <<mReadHandle, mWriteHandle, reqBuffer, nativeReply>>
      BY <1>0, <1>5, CallbackEffect DEF nativeVars
    <2>2. CASE UNCHANGED <<answer, clientStatus, mMapState>>
      <3>1. \A x \in Buffers : Holds(x)' => Holds(x)
        BY <2>1, <2>2 DEF Holds, ClientMaps
      <3>2. \A x \in Buffers, q \in Requests : WillGrant(q, x)' => WillGrant(q, x)
        BY <2>1, <2>2 DEF WillGrant, Safe, Waiting
      <3>3. \A q \in Requests : ~Waiting(q)' => ~Waiting(q) /\ clientStatus'[q] = clientStatus[q]
        BY <2>2 DEF Waiting
      <3> QED
        BY <3>1, <3>2, <3>3, TurnsKept
    <2>3. ASSUME NEW r \in Requests, NEW b \in Buffers, NEW reply \in Statuses,
                 AnswerRequest(r, b, reply), reqBuffer[r] = b, answer[r] = "Waiting",
                 reply = "Success" => nativeReply[r] = "Success"
          PROVE  TurnInv'
      <3>1. /\ clientStatus'[r] = "Success" /\ answer'[r] \in Statuses
            /\ \A q \in Requests : q # r =>
                  answer'[q] = answer[q] /\ clientStatus'[q] = clientStatus[q]
            /\ \A x \in Buffers : x # b => (Holds(x)' <=> Holds(x))
            /\ \/ reply = "Success" /\ clientStatus[r] = "Success"
               \/ Holds(b)' <=> Holds(b)
        BY <1>0, <2>1, <2>3, AnswerTurn
      <3>2. \A x \in Buffers, q \in Requests : WillGrant(q, x)' => WillGrant(q, x) /\ q # r
        BY <2>1, <3>1 DEF WillGrant, Safe, Waiting, Statuses
      <3>3. reply = "Success" /\ clientStatus[r] = "Success" => WillGrant(r, b)
        BY <2>3 DEF WillGrant, Safe, Waiting
      <3>4. ASSUME NEW x \in Buffers, NEW q \in Requests, WillGrant(q, x)'
            PROVE  ~Holds(x)' /\ \A p \in Requests : WillGrant(p, x)' => p = q
        BY <3>1, <3>2, <3>3, <3>4 DEF TurnInv
      <3>5. \A q \in Requests : ~Waiting(q)' => clientStatus'[q] = "Success"
        BY <3>1 DEF TurnInv, Waiting
      <3> QED
        BY <3>4, <3>5 DEF TurnInv
    <2> QED
      BY <1>0, <1>5, <2>2, <2>3, CallbackEffect
  <1>6. CASE ServerHandles
    <2>1. UNCHANGED <<mMapState, mReadHandle, mWriteHandle, requestVars>>
      BY <1>0, <1>01, <1>6, ServerShape DEF clientVars
    <2>2. \A r \in Requests : nativeReply'[r] = "Success" => nativeReply[r] = "Success"
      BY <1>0, <1>01, <1>6, ServerReplies
    <2> QED
      BY <2>1, <2>2, ClientRests
  <1>7. ASSUME NEW b \in Buffers, Grant(b) \/ AnswerLost(b)
        PROVE  TurnInv'
    <2>1. /\ phase[b] = "pending"
          /\ UNCHANGED <<mMapState, mReadHandle, mWriteHandle, reqBuffer, answer, clientStatus>>
          /\ NativeAnswers(b, "Success", "mapped") \/ NativeAnswers(b, "DeviceLost", "lost")
      BY <1>0, <1>7, DeviceEffect DEF clientVars, requestVars
    <2>2. PICK o \in Requests : o = owner[b] /\ reqBuffer[o] = b
      BY <1>0, <2>1 DEF PendingInv
    <2>3. \A r \in Requests : r # o => nativeReply'[r] = nativeReply[r]
      BY <1>0, <2>1, <2>2 DEF NativeAnswers, WireTypeOK
    <2>4. ~Holds(b)
      BY <1>0, <2>1 DEF Holds, MappedInv, WriteInv, Writes
    <2>5. \A r \in Requests : ~WillGrant(r, b)
      BY <1>0, <2>1 DEF WillGrant, SafeInv, Unended
    <2>6. \A x \in Buffers : Holds(x)' <=> Holds(x)
      BY <2>1 DEF Holds, ClientMaps
    <2>7. \A x \in Buffers, r \in Requests : WillGrant(r, x)' => WillGrant(r, x) \/ (r = o /\ x = b)
      BY <2>1, <2>2, <2>3 DEF WillGrant, Safe, Waiting
    <2>8. ASSUME NEW x \in Buffers, NEW r \in Requests, WillGrant(r, x)'
          PROVE  ~Holds(x)' /\ \A q \in Requests : WillGrant(q, x)' => q = r
      BY <2>4, <2>5, <2>6, <2>7, <2>8 DEF TurnInv
    <2>9. \A r \in Requests : ~Waiting(r)' => clientStatus'[r] = "Success"
      BY <2>1 DEF TurnInv, Waiting
    <2> QED
      BY <2>8, <2>9 DEF TurnInv
  <1>8. CASE LoseDevice \/ UNCHANGED vars
    <2>1. UNCHANGED <<mMapState, mReadHandle, mWriteHandle, requestVars, nativeReply>>
      BY <1>8 DEF LoseDevice, vars, clientVars, nativeVars
    <2> QED
      BY <2>1, ClientRests
  <1> QED
    BY <1>1, <1>2, <1>3, <1>4, <1>5, <1>6, <1>7, <1>8 DEF Next

(* A step that is none for the application that uses x.                    *)
LEMMA ClientStays ==
    ASSUME NEW x \in Buffers, Holds(x)' <=> Holds(x),
           \A r \in Requests :
               \/ /\ reqBuffer'[r] = reqBuffer[r] /\ answer'[r] = answer[r]
                  /\ clientStatus'[r] = clientStatus[r]
               \/ reqBuffer'[r] = reqBuffer[r] /\ reqBuffer[r] # x
               \/ reqBuffer'[r] # x /\ answer[r] = "None"
    PROVE  [Promise(x)!Next]_(Promise(x)!protocolVars)
  <1>1. Open(x)' = Open(x)
    BY DEF Open, Safe, Waiting
  <1>2. Told(x)' = Told(x)
    BY DEF Told
  <1>3. Holds(x)' = Holds(x)
    BY DEF Holds, ClientMaps
  <1> QED
    BY <1>1, <1>2, <1>3 DEF Promise!protocolVars

LEMMA StepPromise ==
    ASSUME GrantInv, BothSidesInv, AgreeInv, TurnInv, [Next]_vars, NEW x \in Buffers
    PROVE  [Promise(x)!Next]_(Promise(x)!protocolVars)
  <1>0. /\ Running /\ WireTypeOK /\ TalkInv /\ MappedInv /\ SerialInv /\ IdInv
        /\ answer \in [Requests -> {"None", "Waiting"} \cup Statuses]
    BY DEF AgreeInv, GrantInv, BothSidesInv, TalkInv, NoWireError, Running, WireTypeOK
  <1>01. Running'
    BY <1>0, StepRuns DEF AgreeInv
  <1>1. ASSUME NEW k \in Kinds, CreateBuffer(k)
        PROVE  [Promise(x)!Next]_(Promise(x)!protocolVars)
    <2>0. PICK b : b = created + 1
      OBVIOUS
    <2>1. /\ b \in Buffers /\ ~live[b] /\ ~IsCreated(b)
          /\ UNCHANGED <<reqBuffer, answer, clientStatus>>
          /\ mMapState'[b] = IF AtCreation(k) THEN "MappedAtCreation" ELSE "Unmapped"
          /\ mWriteHandle'[b] = (MapsWrite(k) \/ AtCreation(k))
          /\ \A y \in Buffers : y # b =>
                /\ mMapState'[y] = mMapState[y] /\ mReadHandle'[y] = mReadHandle[y]
                /\ mWriteHandle'[y] = mWriteHandle[y]
      BY <1>0, <1>1, <2>0, CreateSends
    <2>2. CASE x # b
      <3>1. Holds(x)' <=> Holds(x)
        BY <2>1, <2>2 DEF Holds, ClientMaps
      <3> QED
        BY <2>1, <3>1, ClientStays
    <2>3. CASE x = b
      <3>1. ~Holds(x) /\ (Holds(x)' <=> AtCreation(k))
        BY <1>0, <2>1, <2>3 DEF Holds, ClientMaps, MappedInv
      <3>2. \A r \in Requests : reqBuffer[r] = x => answer[r] = "None"
        BY <1>0, <2>1, <2>3 DEF SerialInv
      <3>3. Open(x) = {} /\ Open(x)' = {}
        BY <2>1, <3>2 DEF Open, Safe, Waiting
      <3>4. Told(x)' = Told(x) /\ \A r \in Requests : Told(x)[r] = "None"
        BY <2>1, <3>2 DEF Told
      <3>5. CASE AtCreation(k)
        <4>1. Holds(x)' = TRUE
          BY <3>1, <3>5 DEF Holds, ClientMaps
        <4>2. Promise(x)!CreateMapped
          BY <3>1, <3>3, <3>4, <4>1 DEF Promise!CreateMapped
        <4> QED
          BY <4>2 DEF Promise!Next
      <3>6. CASE ~AtCreation(k)
        BY <2>1, <3>1, <3>6, ClientStays
      <3> QED
        BY <3>5, <3>6
    <2> QED
      BY <2>2, <2>3
  <1>2. ASSUME NEW b \in Buffers, Unmap(b) \/ Destroy(b) \/ Release(b)
        PROVE  [Promise(x)!Next]_(Promise(x)!protocolVars)
    <2>1. /\ UNCHANGED reqBuffer
          /\ ~Holds(b)' /\ (x # b => (Holds(x)' <=> Holds(x)))
          /\ \A r \in Requests :
                /\ reqBuffer[r] = b => ~Safe(r)'
                /\ reqBuffer[r] # b => /\ answer'[r] = answer[r]
                                       /\ clientStatus'[r] = clientStatus[r]
          /\ \/ answer' = answer
             \/ answer' = [r \in Requests |-> IF r \in WaitingOn(b) THEN "Destroyed" ELSE answer[r]]
      BY <1>0, <1>2, EndTurns
    <2>2. CASE x # b
      BY <2>1, <2>2, ClientStays
    <2>3. CASE x = b
      <3>1. Open(x)' = {}
        BY <2>1, <2>3 DEF Open
      <3>2. Holds(x)' = FALSE
        BY <2>1, <2>3 DEF Holds, ClientMaps
      <3>3. CASE answer' = answer
        <4>1. Told(x)' = Told(x)
          BY <2>1, <3>3 DEF Told
        <4>2. Promise(x)!Return
          BY <3>1, <3>2, <4>1 DEF Promise!Return
        <4> QED
          BY <4>2 DEF Promise!Next
      <3>4. CASE answer' = [r \in Requests |-> IF r \in WaitingOn(b) THEN "Destroyed" ELSE answer[r]]
        <4>1. Told(x)' = [r \in Requests |-> IF Told(x)[r] = "Waiting" THEN "Destroyed" ELSE Told(x)[r]]
          BY <2>1, <2>3, <3>4 DEF Told, WaitingOn, Waiting
        <4>2. Promise(x)!RefuseAll("Destroyed")
          BY <3>1, <3>2, <4>1 DEF Promise!RefuseAll
        <4> QED
          BY <4>2 DEF Promise!Next
      <3> QED
        BY <2>1, <3>3, <3>4
    <2> QED
      BY <2>2, <2>3
  <1>3. ASSUME NEW r \in Requests, NEW b \in Buffers, MapAsync(r, b)
        PROVE  [Promise(x)!Next]_(Promise(x)!protocolVars)
    <2>1. /\ answer[r] = "None" /\ reqBuffer'[r] = b
          /\ UNCHANGED <<mMapState, mReadHandle, mWriteHandle, clientStatus>>
          /\ \A q \in Requests : q # r => reqBuffer'[q] = reqBuffer[q] /\ answer'[q] = answer[q]
          /\ ~mDisconnected => answer'[r] = "Waiting"
          /\ mDisconnected => answer'[r] = "DeviceLost"
      BY <1>0, <1>3, MapAsyncSends
    <2>2. Holds(x)' = Holds(x)
      BY <2>1 DEF Holds, ClientMaps
    <2>3. CASE x # b
      BY <2>1, <2>2, <2>3, ClientStays
    <2>4. CASE x = b
      <3>1. clientStatus[r] = "Success"
        BY <2>1 DEF TurnInv, Waiting
      <3>2. Told(x)[r] = "None" /\ Told(x)' = [Told(x) EXCEPT ![r] = answer'[r]]
        BY <2>1, <2>4 DEF Told
      <3>3. CASE ~mDisconnected
        <4>1. Open(x)' = Open(x) \cup {r}
          BY <2>1, <2>4, <3>1, <3>3 DEF Open, Safe, Waiting
        <4>2. Promise(x)!Request(r)
          BY <2>1, <2>2, <3>2, <3>3, <4>1 DEF Promise!Request
        <4> QED
          BY <4>2 DEF Promise!Next
      <3>4. CASE mDisconnected
        <4>1. Open(x)' = Open(x)
          BY <2>1, <3>4 DEF Open, Safe, Waiting
        <4>2. Promise(x)!RequestLost(r)
          BY <2>1, <2>2, <3>2, <3>4, <4>1 DEF Promise!RequestLost
        <4> QED
          BY <4>2 DEF Promise!Next
      <3> QED
        BY <3>3, <3>4
    <2> QED
      BY <2>3, <2>4
  <1>4. CASE Disconnect
    <2>1. /\ UNCHANGED <<mMapState, mReadHandle, mWriteHandle, reqBuffer>>
          /\ answer' = [r \in Requests |-> IF Waiting(r) THEN "DeviceLost" ELSE answer[r]]
      BY <1>4 DEF Disconnect, clientVars
    <2>2. Holds(x)' = Holds(x)
      BY <2>1 DEF Holds, ClientMaps
    <2>3. Open(x)' = {}
      BY <2>1 DEF Open, Safe, Waiting
    <2>4. Told(x)' = [r \in Requests |-> IF Told(x)[r] = "Waiting" THEN "DeviceLost" ELSE Told(x)[r]]
      BY <2>1 DEF Told, Waiting
    <2>5. Promise(x)!RefuseAll("DeviceLost")
      BY <2>2, <2>3, <2>4 DEF Promise!RefuseAll
    <2> QED
      BY <2>5 DEF Promise!Next
  <1>5. CASE OnMapAsyncCallback
    <2>1. UNCHANGED <<mReadHandle, mWriteHandle, reqBuffer, nativeReply>>
      BY <1>0, <1>5, CallbackEffect DEF nativeVars
    <2>2. CASE UNCHANGED <<answer, clientStatus, mMapState>>
      <3>1. Holds(x)' <=> Holds(x)
        BY <2>1, <2>2 DEF Holds, ClientMaps
      <3> QED
        BY <2>1, <2>2, <3>1, ClientStays
    <2>3. ASSUME NEW r \in Requests, NEW b \in Buffers, NEW reply \in Statuses,
                 AnswerRequest(r, b, reply), reqBuffer[r] = b, answer[r] = "Waiting",
                 reply = "Success" => nativeReply[r] = "Success"
          PROVE  [Promise(x)!Next]_(Promise(x)!protocolVars)
      <3>1. /\ clientStatus'[r] = "Success" /\ answer'[r] \in Statuses
            /\ \A q \in Requests : q # r =>
                  answer'[q] = answer[q] /\ clientStatus'[q] = clientStatus[q]
            /\ x # b => (Holds(x)' <=> Holds(x))
            /\ \/ /\ reply = "Success" /\ clientStatus[r] = "Success"
                  /\ answer'[r] = "Success" /\ Holds(b)'
               \/ answer'[r] # "Success" /\ (Holds(b)' <=> Holds(b))
        BY <1>0, <2>1, <2>3, AnswerTurn
      <3>2. CASE x # b
        BY <2>1, <2>3, <3>1, <3>2, ClientStays
      <3>3. CASE x = b
        <4>1. Told(x)[r] = "Waiting" /\ Told(x)' = [Told(x) EXCEPT ![r] = answer'[r]]
          BY <2>1, <2>3, <3>1, <3>3 DEF Told
        <4>2. Open(x)' = Open(x) \ {r}
          BY <2>1, <3>1 DEF Open, Safe, Waiting, Statuses
        <4>3. CASE /\ reply = "Success" /\ clientStatus[r] = "Success"
                   /\ answer'[r] = "Success" /\ Holds(b)'
          <5>1. WillGrant(r, x) /\ r \in Open(x)
            BY <2>3, <3>3, <4>3 DEF WillGrant, Open, Safe, Waiting
          <5>2. ~Holds(x)
            BY <5>1 DEF TurnInv
          <5>3. Holds(x)' = TRUE
            BY <3>3, <4>3 DEF Holds, ClientMaps
          <5>4. Promise(x)!Grant(r)
            BY <4>1, <4>2, <4>3, <5>1, <5>2, <5>3 DEF Promise!Grant
          <5> QED
            BY <5>4 DEF Promise!Next
        <4>4. CASE answer'[r] # "Success" /\ (Holds(b)' <=> Holds(b))
          <5>1. Holds(x)' = Holds(x)
            BY <3>3, <4>4 DEF Holds, ClientMaps
          <5>2. PICK status \in {"Unmapped", "Destroyed", "DeviceLost", "Error"} : status = answer'[r]
            BY <3>1, <4>4 DEF Statuses
          <5>3. Promise(x)!Refuse(r)
            BY <4>1, <4>2, <5>1, <5>2 DEF Promise!Refuse
          <5> QED
            BY <5>3 DEF Promise!Next
        <4> QED
          BY <3>1, <4>3, <4>4
      <3> QED
        BY <3>2, <3>3
    <2> QED
      BY <1>0, <1>5, <2>2, <2>3, CallbackEffect
  <1>6. ASSUME UNCHANGED <<mMapState, mReadHandle, mWriteHandle, requestVars>>
        PROVE  [Promise(x)!Next]_(Promise(x)!protocolVars)
    <2>1. Holds(x)' <=> Holds(x)
      BY <1>6 DEF Holds, ClientMaps
    <2> QED
      BY <1>6, <2>1, ClientStays DEF requestVars
  <1>7. CASE ServerHandles
    <2>1. UNCHANGED <<mMapState, mReadHandle, mWriteHandle, requestVars>>
      BY <1>0, <1>01, <1>7, ServerShape DEF clientVars
    <2> QED
      BY <1>6, <2>1
  <1>8. ASSUME NEW b \in Buffers, Grant(b) \/ AnswerLost(b)
        PROVE  [Promise(x)!Next]_(Promise(x)!protocolVars)
    <2>1. UNCHANGED <<mMapState, mReadHandle, mWriteHandle, requestVars>>
      BY <1>0, <1>8, DeviceEffect DEF clientVars
    <2> QED
      BY <1>6, <2>1
  <1>9. CASE LoseDevice \/ UNCHANGED vars
    <2>1. UNCHANGED <<mMapState, mReadHandle, mWriteHandle, requestVars>>
      BY <1>9 DEF LoseDevice, vars, clientVars
    <2> QED
      BY <1>6, <2>1
  <1> QED
    BY <1>1, <1>2, <1>3, <1>4, <1>5, <1>7, <1>8, <1>9 DEF Next

(* For each buffer, client, server and wire together implement             *)
(* ClientMapProtocol: Buffer::OnMapAsyncCallback maps a buffer only while  *)
(* the application does not hold it, and never for a request made before   *)
(* an Unmap or Destroy, whatever was in flight.                            *)
THEOREM ClientKeepsItsPromise == Spec => ClientProtocol
  <1>1. Spec => [](GrantInv /\ BothSidesInv /\ AgreeInv /\ TurnInv)
    BY GrantInit, GrantPreserved, SidesInit, SidesPreserved, AgreeInit, AgreePreserved, TurnInit,
       TurnPreserved, PTL DEF Spec
  <1>2. ASSUME Init, NEW b \in Buffers
        PROVE  Promise(b)!Init
    <2>1. Holds(b) = FALSE
      BY <1>2 DEF Init, Holds, ClientMaps
    <2>2. Open(b) = {} /\ Told(b) = [r \in Requests |-> "None"]
      BY <1>2 DEF Init, Open, Told, Safe, Waiting
    <2> QED
      BY <2>1, <2>2 DEF Promise!Init
  <1>3. Init => \A b \in Buffers : Promise(b)!Init
    BY <1>2
  <1>4. GrantInv /\ BothSidesInv /\ AgreeInv /\ TurnInv /\ [Next]_vars =>
            [\A b \in Buffers : [Promise(b)!Next]_(Promise(b)!protocolVars)]_vars
    BY StepPromise
  <1> QED
    BY <1>1, <1>3, <1>4, PTL DEF Spec, ClientProtocol
=============================================================================
