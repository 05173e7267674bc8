--------------------------- MODULE WireBufferProofs ---------------------------
(***************************************************************************)
(* Proofs about WireBuffer.                                                *)
(***************************************************************************)
EXTENDS MCWireBuffer, SequenceTheorems, TLAPS

-----------------------------------------------------------------------------
(* What is on its way.                                                     *)

(* The fields of a command.                                                *)
LEMMA CommandTypes ==
    \A c \in Commands :
        /\ c.cmd \in Names /\ c.buffer \in Buffers /\ c.id \in Ids
        /\ c.cmd = "Create" => c.generation \in 0..MaxGeneration
        /\ c.cmd = "MapAsync" => c.request \in Requests
  BY DEF Commands, Names

(* The commands the client sends.                                          *)
LEMMA CommandsMade ==
    ASSUME NEW i \in Ids, NEW b \in Buffers
    PROVE  /\ \A g \in 0..MaxGeneration :
                 [cmd |-> "Create", id |-> i, generation |-> g, buffer |-> b] \in Commands
           /\ \A n \in Nat, r \in Requests :
                 [cmd |-> "MapAsync", id |-> i, buffer |-> b, serial |-> n, request |-> r]
                    \in Commands
           /\ \A name \in Names \ {"Create", "MapAsync"} :
                 [cmd |-> name, id |-> i, buffer |-> b] \in Commands
  BY DEF Commands

(* A sequence that grows.                                                  *)
LEMMA Grown ==
    ASSUME NEW S, NEW s \in Seq(S), NEW c \in Seq(S)
    PROVE  /\ s \o c \in Seq(S) /\ DOMAIN (s \o c) = 1..(Len(s) + Len(c))
           /\ \A j \in DOMAIN s : j \in DOMAIN (s \o c) /\ (s \o c)[j] = s[j]
           /\ \A j \in DOMAIN (s \o c) :
                 \/ j \in DOMAIN s
                 \/ j > Len(s) /\ j - Len(s) \in DOMAIN c /\ (s \o c)[j] = c[j - Len(s)]
           /\ \A i \in DOMAIN c : Len(s) + i \in DOMAIN (s \o c) /\ (s \o c)[Len(s) + i] = c[i]
  <1>1. s \o c \in Seq(S) /\ Len(s \o c) = Len(s) + Len(c) /\ Len(s) \in Nat /\ Len(c) \in Nat
    BY ConcatProperties, LenProperties
  <1>2. DOMAIN s = 1..Len(s) /\ DOMAIN c = 1..Len(c) /\ DOMAIN (s \o c) = 1..(Len(s) + Len(c))
    BY <1>1, LenProperties
  <1>3. \A j \in 1..(Len(s) + Len(c)) : (s \o c)[j] = IF j <= Len(s) THEN s[j] ELSE c[j - Len(s)]
    BY <1>1, ConcatProperties
  <1> QED
    BY <1>1, <1>2, <1>3

(* A sequence that loses its head.                                         *)
LEMMA Shrunk ==
    ASSUME NEW S, NEW s \in Seq(S), s # <<>>
    PROVE  /\ Tail(s) \in Seq(S) /\ 1 \in DOMAIN s /\ Head(s) = s[1]
           /\ \A j \in DOMAIN Tail(s) : j \in Nat /\ j >= 1 /\ j + 1 \in DOMAIN s
                                        /\ Tail(s)[j] = s[j + 1]
           /\ \A j \in DOMAIN s : j \in Nat /\ j >= 1
                 /\ (j # 1 => j - 1 \in DOMAIN Tail(s) /\ Tail(s)[j - 1] = s[j])
  <1>1. Len(s) \in Nat /\ DOMAIN s = 1..Len(s) /\ Len(s) >= 1
    BY EmptySeq, LenProperties
  <1>2. Head(s) = s[1] /\ Tail(s) \in Seq(S) /\ Len(Tail(s)) = Len(s) - 1
    BY <1>1, HeadTailProperties
  <1>3. \A j \in 1..Len(Tail(s)) : Tail(s)[j] = s[j + 1]
    BY <1>1, HeadTailProperties
  <1>4. DOMAIN Tail(s) = 1..(Len(s) - 1)
    BY <1>1, <1>2, LenProperties
  <1> QED
    BY <1>1, <1>2, <1>3, <1>4

-----------------------------------------------------------------------------
(* Types                                                                   *)

LEMMA WireTypeInit == Init => WireTypeOK
  <1> SUFFICES ASSUME Init PROVE WireTypeOK
    OBVIOUS
  <1>1. NoEntry \in Entry
    BY WireBounds DEF Entry, NoEntry
  <1>2. /\ 0 \in 0..MaxBuffers /\ 0 \in 0..MaxGeneration /\ 0 \in 0..MaxRequests
        /\ 0 \in 0..MaxCommands /\ 1 \in 1..(MaxBuffers + 1)
    BY WireBounds
  <1>3. mFreeIds \in Seq(Ids)
    BY DEF Init
  <1>4. created \in 0..MaxBuffers /\ commands \in 0..MaxCommands
    BY <1>2 DEF Init
  <1>5. mCurrentId \in 1..(MaxBuffers + 1) /\ knownSize \in 1..(MaxBuffers + 1)
    BY <1>2 DEF Init
  <1>6. /\ id \in [Buffers -> 0..MaxBuffers] /\ generation \in [Buffers -> 0..MaxGeneration]
        /\ mSerial \in [Buffers -> 0..MaxRequests] /\ owner \in [Buffers -> 0..MaxRequests]
    BY <1>2 DEF Init
  <1>7. /\ reqBuffer \in [Requests -> 0..MaxBuffers] /\ reqSerial \in [Requests -> 0..MaxRequests]
        /\ objectAt \in [Ids -> 0..MaxBuffers] /\ generationAt \in [Ids -> 0..MaxGeneration]
    BY <1>2 DEF Init
  <1>8. known \in [Ids -> Entry]
    BY <1>1 DEF Init
  <1> QED
    BY <1>3, <1>4, <1>5, <1>6, <1>7, <1>8 DEF Init, WireTypeOK, AllKinds, Statuses

(* The id and the generation a new buffer gets.                            *)
NewId == IF mFreeIds = <<>> THEN mCurrentId ELSE mFreeIds[Len(mFreeIds)]

LEMMA NewIdTypes ==
    ASSUME WireTypeOK, IdInv, created < MaxBuffers
    PROVE  /\ created + 1 \in Buffers
           /\ NewId \in Ids /\ NewGeneration(NewId) \in 0..MaxGeneration
           /\ mFreeIds # <<>> => Len(mFreeIds) \in DOMAIN mFreeIds
  <1>1. created \in Nat /\ mCurrentId \in Nat /\ mCurrentId >= 1 /\ mCurrentId <= created + 1
    BY WireBounds DEF WireTypeOK, IdInv
  <1>2. created + 1 \in Buffers
    BY <1>1, WireBounds DEF Buffers
  <1>3. CASE mFreeIds = <<>>
    <2>1. NewId = mCurrentId /\ mCurrentId \in Ids
      BY <1>1, <1>3, WireBounds DEF NewId, Ids
    <2>2. NewGeneration(NewId) = 0
      BY <1>1, <2>1 DEF NewGeneration
    <2> QED
      BY <1>2, <1>3, <2>1, <2>2, WireBounds
  <1>4. CASE mFreeIds # <<>>
    <2>1. mFreeIds \in Seq(Ids)
      BY DEF WireTypeOK
    <2>2. Len(mFreeIds) \in DOMAIN mFreeIds /\ mFreeIds[Len(mFreeIds)] \in Ids
      BY <1>4, <2>1, EmptySeq, LenProperties
    <2>3. NewId = mFreeIds[Len(mFreeIds)]
      BY <1>4 DEF NewId
    <2>4. NewId < mCurrentId /\ generationAt[NewId] < MaxGeneration
      BY <2>2, <2>3 DEF IdInv
    <2>5. generationAt[NewId] \in 0..MaxGeneration
      BY <2>2, <2>3 DEF WireTypeOK
    <2> QED
      BY <1>2, <2>2, <2>3, <2>4, <2>5, WireBounds DEF NewGeneration
  <1> QED
    BY <1>3, <1>4

(* The ids of the buffers that were created.                               *)
LEMMA LiveIds ==
    ASSUME WireTypeOK, IdInv, NEW b \in Buffers
    PROVE  /\ IsCreated(b) => id[b] \in Ids
           /\ live[b] => IsCreated(b) /\ id[b] \in Ids
  <1>1. live[b] => IsCreated(b)
    BY DEF IdInv
  <1>2. IsCreated(b) => id[b] \in 1..(mCurrentId - 1)
    BY DEF IdInv
  <1> QED
    BY <1>1, <1>2, WireBounds DEF WireTypeOK, Ids

LEMMA CreateTypes ==
    ASSUME WireTypeOK, IdInv, NEW k \in Kinds, CreateBuffer(k)
    PROVE  WireTypeOK'
  <1>1. created < MaxBuffers /\ k \in AllKinds
    BY WireBounds DEF CreateBuffer
  <1>2. /\ created + 1 \in Buffers /\ NewId \in Ids /\ NewGeneration(NewId) \in 0..MaxGeneration
        /\ mFreeIds # <<>> => Len(mFreeIds) \in DOMAIN mFreeIds
    BY <1>1, NewIdTypes
  <1>3. /\ created' = created + 1
        /\ kind' = [kind EXCEPT ![created + 1] = k]
        /\ id' = [id EXCEPT ![created + 1] = NewId]
        /\ generation' = [generation EXCEPT ![created + 1] = NewGeneration(NewId)]
        /\ live' = [live EXCEPT ![created + 1] = TRUE]
        /\ objectAt' = [objectAt EXCEPT ![NewId] = created + 1]
        /\ generationAt' = [generationAt EXCEPT ![NewId] = NewGeneration(NewId)]
        /\ mReadHandle' = [mReadHandle EXCEPT ![created + 1] = MapsRead(k)]
        /\ mWriteHandle' = [mWriteHandle EXCEPT ![created + 1] = MapsWrite(k) \/ AtCreation(k)]
        /\ mMapState' = [mMapState EXCEPT ![created + 1] =
                   IF AtCreation(k) THEN "MappedAtCreation" ELSE "Unmapped"]
        /\ unflushed' = [unflushed EXCEPT ![created + 1] = AtCreation(k)]
    BY DEF CreateBuffer, NewId
  <1>4. mFreeIds' \in Seq(Ids) /\ mCurrentId' \in 1..(MaxBuffers + 1)
    <2>1. CASE mFreeIds = <<>>
      <3>1. mFreeIds' = mFreeIds /\ mCurrentId' = mCurrentId + 1
        BY <2>1 DEF CreateBuffer
      <3>2. mCurrentId <= created + 1 /\ created \in Nat
        BY WireBounds DEF WireTypeOK, IdInv
      <3> QED
        BY <1>1, <3>1, <3>2, WireBounds DEF WireTypeOK
    <2>2. CASE mFreeIds # <<>>
      <3>1. mFreeIds' = SubSeq(mFreeIds, 1, Len(mFreeIds) - 1) /\ mCurrentId' = mCurrentId
        BY <2>2 DEF CreateBuffer
      <3>2. mFreeIds \in Seq(Ids)
        BY DEF WireTypeOK
      <3>3. Len(mFreeIds) \in Nat /\ \A j \in 1..(Len(mFreeIds) - 1) : mFreeIds[j] \in Ids
        BY <3>2, LenProperties
      <3>4. SubSeq(mFreeIds, 1, Len(mFreeIds) - 1) \in Seq(Ids)
        BY <3>2, <3>3, SubSeqProperties
      <3> QED
        BY <3>1, <3>4 DEF WireTypeOK
    <2> QED
      BY <2>1, <2>2
  <1>5. UNCHANGED <<mSerial, requestVars, mDisconnected, toClient, serverVars, nativeVars,
                    wireError, commands>>
    BY DEF CreateBuffer
  <1>6. created' \in 0..MaxBuffers
    BY <1>2, <1>3, WireBounds DEF Buffers
  <1>7. kind' \in [Buffers -> AllKinds] /\ id' \in [Buffers -> 0..MaxBuffers]
    BY <1>1, <1>2, <1>3 DEF WireTypeOK, Ids
  <1>8. /\ generation' \in [Buffers -> 0..MaxGeneration]
        /\ objectAt' \in [Ids -> 0..MaxBuffers] /\ generationAt' \in [Ids -> 0..MaxGeneration]
    BY <1>2, <1>3 DEF WireTypeOK, Buffers
  <1>9. /\ live' \in [Buffers -> BOOLEAN] /\ unflushed' \in [Buffers -> BOOLEAN]
        /\ mReadHandle' \in [Buffers -> BOOLEAN] /\ mWriteHandle' \in [Buffers -> BOOLEAN]
    BY <1>2, <1>3 DEF WireTypeOK, AtCreation, MapsRead, MapsWrite
  <1>10. mMapState' \in [Buffers -> {"Unmapped", "MappedForRead", "MappedForWrite",
                                     "MappedAtCreation"}]
    BY <1>2, <1>3 DEF WireTypeOK
  <1> QED
    BY <1>4, <1>5, <1>6, <1>7, <1>8, <1>9, <1>10
    DEF WireTypeOK, requestVars, serverVars, nativeVars

LEMMA MapAsyncTypes ==
    ASSUME WireTypeOK, SerialInv, NEW r \in Requests, NEW b \in Buffers, MapAsync(r, b)
    PROVE  WireTypeOK'
  <1>1. NextSerial(b) \in 0..MaxRequests
    BY WireBounds DEF NextSerial, MapAsync, SerialInv, WireTypeOK, Requests
  <1>2. /\ reqBuffer \in [Requests -> 0..MaxBuffers] /\ b \in 0..MaxBuffers
        /\ answer \in [Requests -> {"None", "Waiting"} \cup Statuses]
        /\ mSerial \in [Buffers -> 0..MaxRequests] /\ reqSerial \in [Requests -> 0..MaxRequests]
    BY WireBounds, SMTT(30) DEF WireTypeOK, Buffers
  <1>3. /\ reqBuffer' = [reqBuffer EXCEPT ![r] = b]
        /\ \E a \in {"DeviceLost", "Waiting"} : answer' = [answer EXCEPT ![r] = a]
        /\ mSerial' = mSerial \/ mSerial' = [mSerial EXCEPT ![b] = NextSerial(b)]
        /\ reqSerial' = reqSerial \/ reqSerial' = [reqSerial EXCEPT ![r] = NextSerial(b)]
    BY DEF MapAsync
  <1>4. reqBuffer' \in [Requests -> 0..MaxBuffers]
    BY <1>2, <1>3
  <1>5. answer' \in [Requests -> {"None", "Waiting"} \cup Statuses]
    BY <1>2, <1>3 DEF Statuses
  <1>6. mSerial' \in [Buffers -> 0..MaxRequests] /\ reqSerial' \in [Requests -> 0..MaxRequests]
    BY <1>1, <1>2, <1>3
  <1> QED
    BY <1>4, <1>5, <1>6 DEF MapAsync, WireTypeOK, idVars, serverVars, nativeVars

LEMMA ClientTypes ==
    ASSUME WireTypeOK, IdInv, NEW b \in Buffers, Unmap(b) \/ Destroy(b) \/ Release(b)
    PROVE  WireTypeOK'
  <1>1. CASE Unmap(b)
    <2>1. /\ commands' \in 0..MaxCommands /\ mWriteHandle' \in [Buffers -> BOOLEAN]
          /\ mMapState' \in [Buffers -> {"Unmapped", "MappedForRead", "MappedForWrite",
                                         "MappedAtCreation"}]
          /\ clientStatus' \in [Requests -> {"Success", "Unmapped", "Destroyed"}]
      BY <1>1, WireBounds DEF Unmap, CountCommand, Tag, WireTypeOK
    <2> QED
      BY <1>1, <2>1 DEF Unmap, WireTypeOK, idVars, serverVars, nativeVars
  <1>2. CASE Destroy(b)
    <2>1. /\ commands' \in 0..MaxCommands /\ mWriteHandle' \in [Buffers -> BOOLEAN]
          /\ mReadHandle' \in [Buffers -> BOOLEAN]
          /\ clientStatus' \in [Requests -> {"Success", "Unmapped", "Destroyed"}]
      BY <1>2, WireBounds DEF Destroy, CountCommand, Tag, WireTypeOK
    <2> QED
      BY <1>2, <2>1 DEF Destroy, WireTypeOK, idVars, serverVars, nativeVars
  <1>3. CASE Release(b)
    <2>1. /\ mWriteHandle' \in [Buffers -> BOOLEAN] /\ mReadHandle' \in [Buffers -> BOOLEAN]
          /\ live' \in [Buffers -> BOOLEAN]
      BY <1>3 DEF Release, WireTypeOK
    <2>2. /\ clientStatus' \in [Requests -> {"Success", "Unmapped", "Destroyed"}]
          /\ answer' \in [Requests -> {"None", "Waiting"} \cup Statuses]
      BY <1>3 DEF Release, WireTypeOK, Statuses
    <2>3. objectAt' \in [Ids -> 0..MaxBuffers]
      <3>1. objectAt' = [objectAt EXCEPT ![id[b]] = 0]
        BY <1>3 DEF Release
      <3>2. objectAt \in [Ids -> 0..MaxBuffers] /\ 0 \in 0..MaxBuffers
        BY WireBounds DEF WireTypeOK
      <3> QED
        BY <3>1, <3>2
    <2>4. id[b] \in Ids
      BY <1>3, LiveIds DEF Release
    <2>5. mFreeIds' \in Seq(Ids)
      BY <1>3, <2>4, AppendProperties DEF Release, WireTypeOK
    <2> QED
      BY <1>3, <2>1, <2>2, <2>3, <2>5 DEF Release, WireTypeOK, idVars, serverVars, nativeVars
  <1> QED
    BY <1>1, <1>2, <1>3

LEMMA OtherTypes ==
    ASSUME WireTypeOK, Disconnect \/ LoseDevice \/ UNCHANGED vars
    PROVE  WireTypeOK'
  <1>1. CASE Disconnect
    <2>1. answer' \in [Requests -> {"None", "Waiting"} \cup Statuses]
      BY <1>1 DEF Disconnect, WireTypeOK, Statuses
    <2>2. clientStatus' \in [Requests -> {"Success", "Unmapped", "Destroyed"}] /\ mDisconnected'
      BY <1>1 DEF Disconnect
    <2> QED
      BY <1>1, <2>1, <2>2 DEF Disconnect, WireTypeOK, clientVars, idVars, serverVars, nativeVars
  <1>2. CASE LoseDevice
    BY <1>2 DEF LoseDevice, WireTypeOK, clientVars, requestVars, idVars, serverVars
  <1>3. CASE UNCHANGED vars
    BY <1>3 DEF vars, WireTypeOK, clientVars, requestVars, idVars, serverVars, nativeVars
  <1> QED
    BY <1>1, <1>2, <1>3

LEMMA AnswerTypes ==
    ASSUME WireTypeOK, ChannelTypeOK, OnMapAsyncCallback
    PROVE  WireTypeOK'
  <1> DEFINE m == Head(toClient)
             b == Target(m)
             requests == {r \in WaitingOn(b) : reqSerial[r] = m.serial}
  <1>1. CASE b = 0 \/ requests = {}
    <2>1. UNCHANGED <<clientVars, requestVars, idVars, mDisconnected, serverVars, nativeVars,
                      unflushed, commands>>
      BY <1>1 DEF OnMapAsyncCallback, ClientFails
    <2>2. wireError' \in {"None", "Server", "Client"}
      BY <1>1 DEF OnMapAsyncCallback, ClientFails, WireTypeOK
    <2> QED
      BY <2>1, <2>2 DEF WireTypeOK, clientVars, requestVars, idVars, serverVars, nativeVars
  <1>2. CASE ~(b = 0 \/ requests = {})
    <2>1. m \in ReturnCommands
      <3>1. toClient \in Seq(ReturnCommands) /\ toClient # <<>>
        BY DEF ChannelTypeOK, OnMapAsyncCallback
      <3> QED
        BY <3>1, HeadTailProperties
    <2>2. m.status \in Statuses
      BY <2>1 DEF ReturnCommands
    <2>3. PICK r \in requests : AnswerRequest(r, b, m.status)
      BY <1>2 DEF OnMapAsyncCallback
    <2>4. r \in Requests
      BY DEF WaitingOn
    <2>5. FinalStatus(r, m.status) \in Statuses
      BY <2>2, <2>4 DEF FinalStatus, WireTypeOK, Statuses
    <2>6. \E a \in Statuses : answer' = [answer EXCEPT ![r] = a]
      BY <2>3, <2>5 DEF AnswerRequest, Statuses
    <2>7. /\ answer' \in [Requests -> {"None", "Waiting"} \cup Statuses]
          /\ clientStatus' \in [Requests -> {"Success", "Unmapped", "Destroyed"}]
      BY <2>3, <2>6 DEF AnswerRequest, WireTypeOK
    <2>8. wireError' \in {"None", "Server", "Client"}
      BY <2>3 DEF AnswerRequest, WireTypeOK
    <2>9. mMapState' \in [Buffers -> {"Unmapped", "MappedForRead", "MappedForWrite",
                                      "MappedAtCreation"}]
      BY <2>3 DEF AnswerRequest, WireTypeOK
    <2>10. unflushed' \in [Buffers -> BOOLEAN]
      BY <2>3 DEF AnswerRequest, WireTypeOK
    <2> QED
      BY <2>3, <2>7, <2>8, <2>9, <2>10 DEF AnswerRequest, WireTypeOK, idVars, serverVars, nativeVars
  <1> QED
    BY <1>1, <1>2

(* The server's handlers, and what they have in common.                    *)
LEMMA HeadCommand ==
    ASSUME ChannelTypeOK, NEW name, Receive(name)
    PROVE  /\ Head(toServer) \in Commands /\ Head(toServer) = toServer[1] /\ 1 \in DOMAIN toServer
           /\ toServer # <<>> /\ toServer' = Tail(toServer) /\ toServer' \in Seq(Commands)
           /\ Head(toServer).cmd = name
  <1>1. toServer \in Seq(Commands) /\ toServer # <<>>
    BY DEF ChannelTypeOK, Receive
  <1>2. toServer' = Tail(toServer) /\ Head(toServer).cmd = name
    BY DEF Receive
  <1> QED
    BY <1>1, <1>2, Shrunk, HeadTailProperties

LEMMA FailTypes ==
    ASSUME WireTypeOK, ServerFails
    PROVE  WireTypeOK'
  BY DEF ServerFails, WireTypeOK, clientVars, requestVars, idVars, serverVars, nativeVars

LEMMA StepTypes ==
    ASSUME WireTypeOK, NEW newKnown \in [Ids -> Entry], NEW replies, ServerStep(newKnown, replies),
           phase' \in [Buffers -> {"none", "error", "unmapped", "pending", "mapped", "lost", "gone"}],
           owner' \in [Buffers -> 0..MaxRequests],
           nativeReply' \in [Requests -> {"None", "Waiting"} \cup Statuses],
           wireError' \in {"None", "Server", "Client"},
           unflushed' \in [Buffers -> BOOLEAN]
    PROVE  WireTypeOK'
  BY DEF ServerStep, WireTypeOK, clientVars, requestVars, idVars

LEMMA NativeTypes ==
    ASSUME WireTypeOK, NEW b, NEW status \in Statuses,
           NEW newPhase \in {"unmapped", "mapped", "lost", "gone"},
           NativeAnswers(b, status, newPhase)
    PROVE  /\ phase' \in [Buffers -> {"none", "error", "unmapped", "pending", "mapped", "lost",
                                      "gone"}]
           /\ owner' \in [Buffers -> 0..MaxRequests]
           /\ nativeReply' \in [Requests -> {"None", "Waiting"} \cup Statuses]
  <1>1. /\ phase \in [Buffers -> {"none", "error", "unmapped", "pending", "mapped", "lost", "gone"}]
        /\ nativeReply \in [Requests -> {"None", "Waiting"} \cup Statuses]
        /\ owner \in [Buffers -> 0..MaxRequests]
    BY DEF WireTypeOK
  <1>2. /\ phase' = [phase EXCEPT ![b] = newPhase] /\ owner' = owner
        /\ nativeReply' = nativeReply \/ nativeReply' = [nativeReply EXCEPT ![owner[b]] = status]
    BY DEF NativeAnswers
  <1> QED
    BY <1>1, <1>2

(* The entries the handlers store.                                         *)
LEMMA EntryTypes ==
    ASSUME WireTypeOK, NEW i \in Ids
    PROVE  /\ \A w \in {"Unmapped", "Mapped", "MapError"} :
                 [known EXCEPT ![i].mapWriteState = w] \in [Ids -> Entry]
           /\ \A x \in BOOLEAN :
                 [known EXCEPT ![i].mapWriteState = "Unmapped", ![i].write = @ /\ x]
                    \in [Ids -> Entry]
           /\ [known EXCEPT ![i].mapWriteState = "Unmapped", ![i].read = FALSE, ![i].write = FALSE]
                 \in [Ids -> Entry]
           /\ [known EXCEPT ![i].state = "Free"] \in [Ids -> Entry]
  <1>1. known \in [Ids -> Entry]
    BY DEF WireTypeOK
  <1>2. known[i] \in Entry
    BY <1>1
  <1>3. [known[i] EXCEPT !.state = "Free"] \in Entry
    BY <1>2 DEF Entry
  <1>4. \A w \in {"Unmapped", "Mapped", "MapError"} : [known[i] EXCEPT !.mapWriteState = w] \in Entry
    BY <1>2 DEF Entry
  <1>5. \A x \in BOOLEAN :
            [[known[i] EXCEPT !.mapWriteState = "Unmapped"] EXCEPT !.write = @ /\ x] \in Entry
    BY <1>2 DEF Entry
  <1>6. [[[known[i] EXCEPT !.mapWriteState = "Unmapped"] EXCEPT !.read = FALSE]
            EXCEPT !.write = FALSE] \in Entry
    BY <1>2 DEF Entry
  <1> QED
    BY <1>1, <1>3, <1>4, <1>5, <1>6

LEMMA ServerTypes ==
    ASSUME WireTypeOK, ChannelTypeOK, ServerHandles
    PROVE  WireTypeOK'
  <1> DEFINE m == Head(toServer)
             b == known[m.id].handle
  <1>1. CASE DoDeviceCreateBuffer
    <2>1. m \in Commands /\ m.cmd = "Create"
      BY <1>1, HeadCommand DEF DoDeviceCreateBuffer
    <2>2. m.id \in Ids /\ m.buffer \in Buffers /\ m.generation \in 0..MaxGeneration
      BY <2>1, CommandTypes
    <2>3. CASE m.id > knownSize \/ Allocated(m.id)
      BY <1>1, <2>3, FailTypes DEF DoDeviceCreateBuffer
    <2>4. CASE ~(m.id > knownSize \/ Allocated(m.id))
      <3>1. knownSize' \in 1..(MaxBuffers + 1)
        <4>1. knownSize' = IF m.id = knownSize THEN knownSize + 1 ELSE knownSize
          BY <1>1, <2>4 DEF DoDeviceCreateBuffer
        <4>2. knownSize \in 1..(MaxBuffers + 1)
          BY DEF WireTypeOK
        <4> QED
          BY <2>2, <4>1, <4>2, WireBounds DEF Ids
      <3>2. PICK e : /\ e \in Entry /\ known' = [known EXCEPT ![m.id] = e]
                     /\ \E p \in {"error", "mapped", "unmapped"} :
                           phase' = [phase EXCEPT ![m.buffer] = p]
        <4>1. PICK ok \in BOOLEAN, mapping \in BOOLEAN :
                /\ known' = [known EXCEPT ![m.id] =
                      [state |-> "Allocated", generation |-> m.generation, handle |-> m.buffer,
                       read |-> MapsRead(kind[m.buffer]) /\ (mapping \/ ~AtCreation(kind[m.buffer])),
                       write |-> MapsWrite(kind[m.buffer]) \/ AtCreation(kind[m.buffer]),
                       mapWriteState |-> IF ~AtCreation(kind[m.buffer]) THEN "Unmapped"
                                         ELSE IF mapping THEN "Mapped" ELSE "MapError"]]
                /\ phase' = [phase EXCEPT ![m.buffer] =
                      IF ~ok THEN "error" ELSE IF AtCreation(kind[m.buffer]) THEN "mapped"
                                                                          ELSE "unmapped"]
          BY <1>1, <2>4 DEF DoDeviceCreateBuffer
        <4>2. m.buffer \in 0..MaxBuffers
          BY <2>2, WireBounds DEF Buffers
        <4>3. [state |-> "Allocated", generation |-> m.generation, handle |-> m.buffer,
               read |-> MapsRead(kind[m.buffer]) /\ (mapping \/ ~AtCreation(kind[m.buffer])),
               write |-> MapsWrite(kind[m.buffer]) \/ AtCreation(kind[m.buffer]),
               mapWriteState |-> IF ~AtCreation(kind[m.buffer]) THEN "Unmapped"
                                 ELSE IF mapping THEN "Mapped" ELSE "MapError"] \in Entry
          BY <2>2, <4>2 DEF Entry, MapsRead, MapsWrite, AtCreation
        <4> QED
          BY <4>1, <4>3
      <3>3. known' \in [Ids -> Entry]
        BY <2>2, <3>2 DEF WireTypeOK
      <3>4. phase' \in [Buffers -> {"none", "error", "unmapped", "pending", "mapped", "lost",
                                    "gone"}]
        BY <2>2, <3>2 DEF WireTypeOK
      <3> QED
        BY <1>1, <2>4, <3>1, <3>3, <3>4
        DEF DoDeviceCreateBuffer, WireTypeOK, clientVars, requestVars, idVars
    <2> QED
      BY <2>3, <2>4
  <1>2. CASE DoBufferMapAsync
    <2>1. m \in Commands /\ m.cmd = "MapAsync"
      BY <1>2, HeadCommand DEF DoBufferMapAsync
    <2>2. m.request \in Requests
      BY <2>1, CommandTypes
    <2>3. CASE ~Allocated(m.id)
      BY <1>2, <2>3, FailTypes DEF DoBufferMapAsync
    <2>4. CASE Allocated(m.id)
      <3>1. PICK replies : ServerStep(known, replies)
        BY <1>2, <2>4 DEF DoBufferMapAsync
      <3>2. /\ UNCHANGED <<wireError, unflushed>>
            /\ \/ UNCHANGED <<phase, owner, nativeReply>>
               \/ /\ phase' = [phase EXCEPT ![b] = "pending"]
                  /\ owner' = [owner EXCEPT ![b] = m.request]
                  /\ nativeReply' = [nativeReply EXCEPT ![m.request] = "Waiting"]
        BY <1>2, <2>4 DEF DoBufferMapAsync
      <3>3. m.request \in 0..MaxRequests
        BY <2>2, WireBounds DEF Requests
      <3>4. /\ phase' \in [Buffers -> {"none", "error", "unmapped", "pending", "mapped", "lost",
                                       "gone"}]
            /\ owner' \in [Buffers -> 0..MaxRequests]
            /\ nativeReply' \in [Requests -> {"None", "Waiting"} \cup Statuses]
        BY <3>2, <3>3 DEF WireTypeOK
      <3>5. known \in [Ids -> Entry] /\ wireError' \in {"None", "Server", "Client"}
            /\ unflushed' \in [Buffers -> BOOLEAN]
        BY <3>2 DEF WireTypeOK
      <3> QED
        BY <3>1, <3>4, <3>5, StepTypes
    <2> QED
      BY <2>3, <2>4
  <1>3. CASE DoBufferUpdateMappedData
    <2>1. CASE ServerFails
      BY <2>1, FailTypes
    <2>2. CASE ~ServerFails
      <3>1. /\ ServerStep(known, <<>>) /\ UNCHANGED <<phase, owner, nativeReply, wireError>>
            /\ unflushed' = [unflushed EXCEPT ![b] = FALSE]
        BY <1>3, <2>2 DEF DoBufferUpdateMappedData
      <3>2. /\ phase' \in [Buffers -> {"none", "error", "unmapped", "pending", "mapped", "lost",
                                       "gone"}]
            /\ owner' \in [Buffers -> 0..MaxRequests] /\ known \in [Ids -> Entry]
            /\ nativeReply' \in [Requests -> {"None", "Waiting"} \cup Statuses]
            /\ wireError' \in {"None", "Server", "Client"} /\ unflushed' \in [Buffers -> BOOLEAN]
        BY <3>1 DEF WireTypeOK
      <3> QED
        BY <3>1, <3>2, StepTypes
    <2> QED
      BY <2>1, <2>2
  <1>4. CASE DoBufferUnmap
    <2>0. m.id \in Ids
      BY <1>4, HeadCommand, CommandTypes DEF DoBufferUnmap
    <2>1. CASE ~Allocated(m.id)
      BY <1>4, <2>1, FailTypes DEF DoBufferUnmap
    <2>2. CASE Allocated(m.id)
      <3> DEFINE unmapped == [known EXCEPT ![m.id].mapWriteState = "Unmapped",
                                           ![m.id].write = @ /\ ~ForCreation(kind[b])]
      <3>1. /\ UNCHANGED <<wireError, unflushed>> /\ \E replies : ServerStep(unmapped, replies)
            /\ NativeAnswers(b, "Unmapped", "unmapped") \/ UNCHANGED <<phase, owner, nativeReply>>
        BY <1>4, <2>2 DEF DoBufferUnmap
      <3>2. unmapped \in [Ids -> Entry]
        BY <2>0, EntryTypes DEF AtCreation, MapsWrite, ForCreation
      <3>3. /\ phase' \in [Buffers -> {"none", "error", "unmapped", "pending", "mapped", "lost",
                                       "gone"}]
            /\ owner' \in [Buffers -> 0..MaxRequests]
            /\ nativeReply' \in [Requests -> {"None", "Waiting"} \cup Statuses]
        BY <3>1, NativeTypes DEF WireTypeOK, Statuses
      <3>4. wireError' \in {"None", "Server", "Client"} /\ unflushed' \in [Buffers -> BOOLEAN]
        BY <3>1 DEF WireTypeOK
      <3> HIDE DEF unmapped
      <3> QED
        BY <3>1, <3>2, <3>3, <3>4, StepTypes
    <2> QED
      BY <2>1, <2>2
  <1>5. CASE DoBufferDestroy
    <2>0. m.id \in Ids
      BY <1>5, HeadCommand, CommandTypes DEF DoBufferDestroy
    <2>1. CASE ~Allocated(m.id)
      BY <1>5, <2>1, FailTypes DEF DoBufferDestroy
    <2>2. CASE Allocated(m.id)
      <3> DEFINE cleared == [known EXCEPT ![m.id].mapWriteState = "Unmapped",
                                          ![m.id].read = FALSE, ![m.id].write = FALSE]
      <3>1. /\ UNCHANGED <<wireError, unflushed>> /\ \E replies : ServerStep(cleared, replies)
            /\ \/ NativeAnswers(b, CallbackStatus("Destroyed"), "gone")
               \/ UNCHANGED <<phase, owner, nativeReply>>
        BY <1>5, <2>2 DEF DoBufferDestroy
      <3>2. cleared \in [Ids -> Entry]
        BY <2>0, EntryTypes
      <3>3. /\ phase' \in [Buffers -> {"none", "error", "unmapped", "pending", "mapped", "lost",
                                       "gone"}]
            /\ owner' \in [Buffers -> 0..MaxRequests]
            /\ nativeReply' \in [Requests -> {"None", "Waiting"} \cup Statuses]
        BY <3>1, NativeTypes DEF WireTypeOK, Statuses, CallbackStatus
      <3>4. wireError' \in {"None", "Server", "Client"} /\ unflushed' \in [Buffers -> BOOLEAN]
        BY <3>1 DEF WireTypeOK
      <3> HIDE DEF cleared
      <3> QED
        BY <3>1, <3>2, <3>3, <3>4, StepTypes
    <2> QED
      BY <2>1, <2>2
  <1>6. CASE DoDestroyObject
    <2>0. m.id \in Ids
      BY <1>6, HeadCommand, CommandTypes DEF DoDestroyObject
    <2>1. CASE ~Allocated(m.id)
      BY <1>6, <2>1, FailTypes DEF DoDestroyObject
    <2>2. CASE Allocated(m.id)
      <3>1. /\ UNCHANGED <<owner, nativeReply, wireError, unflushed>>
            /\ ServerStep([known EXCEPT ![m.id].state = "Free"], <<>>)
            /\ phase' = [phase EXCEPT ![b] = IF @ \in {"error", "pending"} THEN @ ELSE "gone"]
        BY <1>6, <2>2 DEF DoDestroyObject
      <3>2. [known EXCEPT ![m.id].state = "Free"] \in [Ids -> Entry]
        BY <2>0, EntryTypes
      <3>3. /\ phase' \in [Buffers -> {"none", "error", "unmapped", "pending", "mapped", "lost",
                                       "gone"}]
            /\ owner' \in [Buffers -> 0..MaxRequests]
            /\ nativeReply' \in [Requests -> {"None", "Waiting"} \cup Statuses]
            /\ wireError' \in {"None", "Server", "Client"} /\ unflushed' \in [Buffers -> BOOLEAN]
        BY <3>1 DEF WireTypeOK
      <3> QED
        BY <3>1, <3>2, <3>3, StepTypes
    <2> QED
      BY <2>1, <2>2
  <1> QED
    BY <1>1, <1>2, <1>3, <1>4, <1>5, <1>6 DEF ServerHandles

LEMMA DeviceTypes ==
    ASSUME WireTypeOK, IdInv, NEW b \in Buffers, Grant(b) \/ AnswerLost(b)
    PROVE  WireTypeOK'
  <1>1. CASE Grant(b)
    <2>1. NativeAnswers(b, "Success", "mapped")
      BY <1>1 DEF Grant
    <2>2. id[b] \in Ids
      BY <1>1, LiveIds DEF Grant, IdInv
    <2>3. /\ wireError' \in {"None", "Server", "Client"} /\ UNCHANGED unflushed
          /\ \E replies : \/ ServerStep(known, replies)
                          \/ ServerStep([known EXCEPT ![id[b]].mapWriteState = "Mapped"], replies)
      BY <1>1 DEF Grant, WireTypeOK
    <2>4. known \in [Ids -> Entry] /\ unflushed' \in [Buffers -> BOOLEAN]
      BY <2>3 DEF WireTypeOK
    <2>5. [known EXCEPT ![id[b]].mapWriteState = "Mapped"] \in [Ids -> Entry]
      BY <2>2, EntryTypes
    <2>6. /\ phase' \in [Buffers -> {"none", "error", "unmapped", "pending", "mapped", "lost",
                                     "gone"}]
          /\ owner' \in [Buffers -> 0..MaxRequests]
          /\ nativeReply' \in [Requests -> {"None", "Waiting"} \cup Statuses]
      BY <2>1, NativeTypes DEF Statuses
    <2> QED
      BY <2>3, <2>4, <2>5, <2>6, StepTypes
  <1>2. CASE AnswerLost(b)
    <2>1. NativeAnswers(b, "DeviceLost", "lost") /\ ServerStep(known, Replies(b, "DeviceLost"))
      BY <1>2 DEF AnswerLost
    <2>2. /\ known \in [Ids -> Entry] /\ wireError' \in {"None", "Server", "Client"}
          /\ unflushed' \in [Buffers -> BOOLEAN]
      BY <1>2 DEF AnswerLost, WireTypeOK
    <2>3. /\ phase' \in [Buffers -> {"none", "error", "unmapped", "pending", "mapped", "lost",
                                     "gone"}]
          /\ owner' \in [Buffers -> 0..MaxRequests]
          /\ nativeReply' \in [Requests -> {"None", "Waiting"} \cup Statuses]
      BY <2>1, NativeTypes DEF Statuses
    <2> QED
      BY <2>1, <2>2, <2>3, StepTypes
  <1> QED
    BY <1>1, <1>2

-----------------------------------------------------------------------------
(* The client's object ids.                                                *)

(* An id and a generation name one buffer.                                 *)
LEMMA SameBuffer ==
    ASSUME WireTypeOK, IdInv, NEW a \in Buffers, NEW b \in Buffers, IsCreated(a), IsCreated(b),
           id[a] = id[b], generation[a] = generation[b]
    PROVE  a = b
  <1>1. a \in Int /\ b \in Int /\ generation[a] \in Int /\ generation[b] \in Int
    BY WireBounds DEF Buffers, WireTypeOK
  <1>2. CASE a < b
    BY <1>1, <1>2 DEF IdInv
  <1>3. CASE b < a
    BY <1>1, <1>3 DEF IdInv
  <1> QED
    BY <1>1, <1>2, <1>3

LEMMA IdKept ==
    ASSUME IdInv, UNCHANGED <<created, id, generation, live, idVars>>,
           \A b \in Buffers : ~IsCreated(b) => phase'[b] = phase[b]
    PROVE  IdInv'
  <1>1. \A b : IsCreated(b)' <=> IsCreated(b)
    BY DEF IsCreated
  <1>2. UNCHANGED <<created, id, generation, live, objectAt, generationAt, mFreeIds, mCurrentId>>
    BY DEF idVars
  <1>3. \A b \in Buffers :
          /\ IsCreated(b) => id[b] \in 1..(mCurrentId - 1) /\ generation[b] <= generationAt[id[b]]
          /\ ~IsCreated(b) => ~live[b] /\ phase'[b] = "none"
          /\ live[b] => objectAt[id[b]] = b /\ generation[b] = generationAt[id[b]]
    BY DEF IdInv
  <1> HIDE DEF IsCreated
  <1> QED
    BY <1>1, <1>2, <1>3 DEF IdInv

LEMMA ReleaseIds ==
    ASSUME WireTypeOK, IdInv, NEW b \in Buffers, Release(b)
    PROVE  IdInv'
  <1>1. /\ live[b] /\ live' = [live EXCEPT ![b] = FALSE]
        /\ objectAt' = [objectAt EXCEPT ![id[b]] = 0]
        /\ UNCHANGED <<created, id, generation, generationAt, mCurrentId, phase>>
        /\ mFreeIds' = IF generationAt[id[b]] # MaxGeneration THEN Append(mFreeIds, id[b])
                                                              ELSE mFreeIds
    BY DEF Release, nativeVars
  <1>2. /\ id[b] \in Ids /\ IsCreated(b) /\ objectAt[id[b]] = b
        /\ generationAt[id[b]] \in 0..MaxGeneration
    BY <1>1, LiveIds DEF IdInv, WireTypeOK
  <1>3. live \in [Buffers -> BOOLEAN] /\ objectAt \in [Ids -> 0..MaxBuffers] /\ mFreeIds \in Seq(Ids)
    BY DEF WireTypeOK
  <1>4. \A x \in Buffers : IsCreated(x)' <=> IsCreated(x)
    BY <1>1 DEF IsCreated
  <1>5. mCurrentId' <= created' + 1
    BY <1>1 DEF IdInv
  <1>6. \A x, y \in Buffers : x < y /\ IsCreated(y)' /\ id'[x] = id'[y]
            => generation'[x] < generation'[y]
    BY <1>1, <1>4 DEF IdInv
  <1>7. ASSUME NEW x \in Buffers
        PROVE  /\ IsCreated(x)' => id'[x] \in 1..(mCurrentId' - 1)
                                   /\ generation'[x] <= generationAt'[id'[x]]
               /\ ~IsCreated(x)' => ~live'[x] /\ phase'[x] = "none"
               /\ live'[x] => objectAt'[id'[x]] = x /\ generation'[x] = generationAt'[id'[x]]
    <2>1. live'[x] => live[x] /\ x # b
      BY <1>1, <1>3
    <2>2. live'[x] => objectAt[id[x]] = x /\ id[x] \in Ids
      BY <2>1, LiveIds DEF IdInv
    <2>3. live'[x] => objectAt'[id[x]] = x
      BY <1>1, <1>2, <1>3, <2>1, <2>2
    <2> QED
      BY <1>1, <1>4, <2>1, <2>3 DEF IdInv
  <1>8. \A i \in Ids : objectAt'[i] # 0 => live'[objectAt'[i]] /\ id'[objectAt'[i]] = i
    <2> SUFFICES ASSUME NEW i \in Ids, objectAt'[i] # 0
                 PROVE  live'[objectAt'[i]] /\ id'[objectAt'[i]] = i
      OBVIOUS
    <2>1. i # id[b] /\ objectAt'[i] = objectAt[i]
      BY <1>1, <1>2, <1>3
    <2>2. live[objectAt[i]] /\ id[objectAt[i]] = i
      BY <2>1 DEF IdInv
    <2> QED
      BY <1>1, <1>3, <2>1, <2>2
  <1>9. \A j \in DOMAIN mFreeIds :
            /\ mFreeIds[j] \in Ids /\ mFreeIds[j] # id[b]
            /\ mFreeIds[j] < mCurrentId /\ objectAt'[mFreeIds[j]] = 0
            /\ generationAt[mFreeIds[j]] < MaxGeneration
    <2> SUFFICES ASSUME NEW j \in DOMAIN mFreeIds
                 PROVE  /\ mFreeIds[j] \in Ids /\ mFreeIds[j] # id[b]
                        /\ mFreeIds[j] < mCurrentId /\ objectAt'[mFreeIds[j]] = 0
                        /\ generationAt[mFreeIds[j]] < MaxGeneration
      OBVIOUS
    <2>1. mFreeIds[j] \in Ids
      BY <1>3, LenProperties
    <2>2. /\ mFreeIds[j] < mCurrentId /\ objectAt[mFreeIds[j]] = 0
          /\ generationAt[mFreeIds[j]] < MaxGeneration
      BY DEF IdInv
    <2>3. b # 0
      BY DEF Buffers
    <2> QED
      BY <1>1, <1>2, <1>3, <2>1, <2>2, <2>3
  <1>10. \A j \in DOMAIN mFreeIds' :
            /\ mFreeIds'[j] < mCurrentId' /\ objectAt'[mFreeIds'[j]] = 0
            /\ generationAt'[mFreeIds'[j]] < MaxGeneration
            /\ \A k \in DOMAIN mFreeIds' : j # k => mFreeIds'[j] # mFreeIds'[k]
    <2>1. CASE generationAt[id[b]] = MaxGeneration
      <3>1. mFreeIds' = mFreeIds
        BY <1>1, <2>1
      <3>2. \A j, k \in DOMAIN mFreeIds : j # k => mFreeIds[j] # mFreeIds[k]
        BY DEF IdInv
      <3> QED
        BY <1>1, <1>9, <3>1, <3>2
    <2>2. CASE generationAt[id[b]] # MaxGeneration
      <3> DEFINE n == Len(mFreeIds) + 1
      <3>1. mFreeIds' = Append(mFreeIds, id[b])
        BY <1>1, <2>2
      <3>2. /\ n \in Nat /\ DOMAIN mFreeIds = 1..(n - 1) /\ DOMAIN mFreeIds' = 1..n
            /\ \A j \in 1..(n - 1) : mFreeIds'[j] = mFreeIds[j]
            /\ mFreeIds'[n] = id[b]
        BY <1>2, <1>3, <3>1, AppendProperties, LenProperties
      <3>3. id[b] < mCurrentId /\ objectAt'[id[b]] = 0 /\ generationAt[id[b]] < MaxGeneration
        <4>1. id[b] < mCurrentId
          BY <1>2, WireBounds DEF IdInv, WireTypeOK
        <4> QED
          BY <1>1, <1>2, <1>3, <2>2, <4>1, WireBounds
      <3> HIDE DEF n
      <3>4. \A j \in 1..n : j = n \/ j \in 1..(n - 1)
        BY <3>2
      <3>5. \A j, k \in DOMAIN mFreeIds : j # k => mFreeIds[j] # mFreeIds[k]
        BY DEF IdInv
      <3>6. ASSUME NEW j \in DOMAIN mFreeIds'
            PROVE  /\ mFreeIds'[j] < mCurrentId' /\ objectAt'[mFreeIds'[j]] = 0
                   /\ generationAt'[mFreeIds'[j]] < MaxGeneration
        BY <1>1, <1>9, <3>2, <3>3, <3>4
      <3>7. ASSUME NEW j \in DOMAIN mFreeIds', NEW k \in DOMAIN mFreeIds', j # k
            PROVE  mFreeIds'[j] # mFreeIds'[k]
        BY <1>9, <3>2, <3>4, <3>5, <3>7
      <3> QED
        BY <3>6, <3>7
    <2> QED
      BY <2>1, <2>2
  <1> QED
    BY <1>5, <1>6, <1>7, <1>8, <1>10 DEF IdInv

LEMMA CreateIds ==
    ASSUME WireTypeOK, IdInv, NEW k \in Kinds, CreateBuffer(k)
    PROVE  IdInv'
  <1>0. PICK b : b = created + 1
    OBVIOUS
  <1> DEFINE i == NewId
             gen == NewGeneration(NewId)
  <1>1. created < MaxBuffers
    BY DEF CreateBuffer
  <1>2. /\ b \in Buffers /\ i \in Ids /\ gen \in 0..MaxGeneration
        /\ mFreeIds # <<>> => Len(mFreeIds) \in DOMAIN mFreeIds
    BY <1>0, <1>1, NewIdTypes
  <1>3. /\ created' = b
        /\ id' = [id EXCEPT ![b] = i]
        /\ generation' = [generation EXCEPT ![b] = gen]
        /\ live' = [live EXCEPT ![b] = TRUE]
        /\ objectAt' = [objectAt EXCEPT ![i] = b]
        /\ generationAt' = [generationAt EXCEPT ![i] = gen]
        /\ mCurrentId' = IF mFreeIds = <<>> THEN mCurrentId + 1 ELSE mCurrentId
        /\ phase' = phase
    BY <1>0 DEF CreateBuffer, NewId, nativeVars
  <1>4. /\ id \in [Buffers -> 0..MaxBuffers] /\ generation \in [Buffers -> 0..MaxGeneration]
        /\ live \in [Buffers -> BOOLEAN] /\ objectAt \in [Ids -> 0..MaxBuffers]
        /\ generationAt \in [Ids -> 0..MaxGeneration] /\ mFreeIds \in Seq(Ids)
        /\ created \in Nat /\ mCurrentId \in Nat /\ mCurrentId >= 1 /\ mCurrentId <= created + 1
    BY WireBounds DEF WireTypeOK, IdInv
  <1>5. /\ \A x \in Buffers : x # b => /\ id'[x] = id[x] /\ generation'[x] = generation[x]
                                       /\ live'[x] = live[x] /\ (IsCreated(x)' <=> IsCreated(x))
        /\ id'[b] = i /\ generation'[b] = gen /\ live'[b] /\ IsCreated(b)' /\ ~IsCreated(b)
    <2>1. \A x \in Buffers : x # b => (IsCreated(x)' <=> IsCreated(x))
      BY <1>0, <1>3, <1>4 DEF IsCreated, Buffers
    <2>2. IsCreated(b)' /\ ~IsCreated(b)
      BY <1>0, <1>3, <1>4 DEF IsCreated
    <2> HIDE DEF i, gen
    <2> QED
      BY <1>2, <1>3, <1>4, <2>1, <2>2
  <1>6. /\ \A x \in Ids : x # i => objectAt'[x] = objectAt[x] /\ generationAt'[x] = generationAt[x]
        /\ objectAt'[i] = b /\ generationAt'[i] = gen
    BY <1>2, <1>3, <1>4
  <1>7. \/ mFreeIds = <<>> /\ i = mCurrentId /\ mCurrentId' = mCurrentId + 1 /\ mFreeIds' = <<>>
        \/ /\ mFreeIds # <<>> /\ i = mFreeIds[Len(mFreeIds)] /\ mCurrentId' = mCurrentId
           /\ i < mCurrentId /\ gen = generationAt[i] + 1 /\ objectAt[i] = 0
           /\ mFreeIds' = SubSeq(mFreeIds, 1, Len(mFreeIds) - 1)
    <2>1. CASE mFreeIds = <<>>
      BY <1>3, <2>1 DEF NewId, CreateBuffer
    <2>2. CASE mFreeIds # <<>>
      <3>1. i = mFreeIds[Len(mFreeIds)] /\ mCurrentId' = mCurrentId
            /\ mFreeIds' = SubSeq(mFreeIds, 1, Len(mFreeIds) - 1)
        BY <1>3, <2>2 DEF NewId, CreateBuffer
      <3>2. i < mCurrentId /\ objectAt[i] = 0
        BY <1>2, <2>2, <3>1 DEF IdInv
      <3> QED
        BY <2>2, <3>1, <3>2 DEF NewGeneration
    <2> QED
      BY <2>1, <2>2
  <1>8. \A x \in Buffers : IsCreated(x) => id[x] \in Ids /\ id[x] < mCurrentId
                                           /\ generation[x] <= generationAt[id[x]]
    BY <1>4, LiveIds DEF IdInv
  <1>9. ASSUME NEW x \in Buffers, IsCreated(x), id[x] = i
        PROVE  ~live[x] /\ generation[x] < gen
    <2>1. id[x] < mCurrentId /\ generation[x] <= generationAt[i]
      BY <1>8, <1>9
    <2>2. gen = generationAt[i] + 1 /\ objectAt[i] = 0
      BY <1>2, <1>4, <1>7, <1>9, <2>1, WireBounds DEF Ids
    <2>3. ~live[x]
      <3>1. x # 0
        BY DEF Buffers
      <3> QED
        BY <1>9, <2>2, <3>1 DEF IdInv
    <2> QED
      BY <1>2, <1>4, <2>1, <2>2, <2>3, WireBounds
  <1> HIDE DEF i, gen
  <1>10. mCurrentId' <= created' + 1
    <2>1. created' = created + 1
      BY <1>0, <1>3
    <2> QED
      BY <1>4, <1>7, <2>1
  <1>11. ASSUME NEW x \in Buffers
         PROVE  /\ IsCreated(x)' => id'[x] \in 1..(mCurrentId' - 1)
                                    /\ generation'[x] <= generationAt'[id'[x]]
                /\ ~IsCreated(x)' => ~live'[x] /\ phase'[x] = "none"
                /\ live'[x] => objectAt'[id'[x]] = x /\ generation'[x] = generationAt'[id'[x]]
    <2>1. CASE x = b
      <3>1. i \in 1..(mCurrentId' - 1)
        BY <1>2, <1>4, <1>7 DEF Ids
      <3>2. generation'[b] = generationAt'[id'[b]] /\ objectAt'[id'[b]] = b /\ gen <= gen
        BY <1>2, <1>5, <1>6, WireBounds
      <3>3. id'[b] = i /\ IsCreated(b)' /\ generation'[b] = gen
        BY <1>5
      <3> HIDE DEF IsCreated
      <3> QED
        BY <2>1, <3>1, <3>2, <3>3
    <2>2. CASE x # b
      <3>1. IsCreated(x) => id[x] \in 1..(mCurrentId' - 1)
        BY <1>4, <1>7, <1>8 DEF Ids
      <3>2. IsCreated(x) => generation[x] <= generationAt'[id[x]]
        <4>1. CASE IsCreated(x) /\ id[x] = i
          BY <1>2, <1>4, <1>6, <1>9, <4>1, WireBounds
        <4>2. CASE IsCreated(x) /\ id[x] # i
          BY <1>6, <1>8, <4>2
        <4> QED
          BY <4>1, <4>2
      <3>3. ~IsCreated(x) => ~live[x] /\ phase[x] = "none"
        BY DEF IdInv
      <3>4. live[x] => IsCreated(x) /\ id[x] # i /\ id[x] \in Ids
        BY <1>8, <1>9, <3>3
      <3>5. live[x] => objectAt'[id[x]] = x /\ generation[x] = generationAt'[id[x]]
        BY <1>6, <3>4 DEF IdInv
      <3> QED
        BY <1>3, <1>5, <2>2, <3>1, <3>2, <3>3, <3>5
    <2> QED
      BY <2>1, <2>2
  <1>12. \A x \in Ids : objectAt'[x] # 0 => live'[objectAt'[x]] /\ id'[objectAt'[x]] = x
    <2> SUFFICES ASSUME NEW x \in Ids, objectAt'[x] # 0
                 PROVE  live'[objectAt'[x]] /\ id'[objectAt'[x]] = x
      OBVIOUS
    <2>1. CASE x = i
      BY <1>5, <1>6, <2>1
    <2>2. CASE x # i
      <3>1. objectAt'[x] = objectAt[x] /\ objectAt[x] # 0
        BY <1>6, <2>2
      <3>2. live[objectAt[x]] /\ id[objectAt[x]] = x /\ objectAt[x] \in Buffers
        BY <1>4, <3>1, WireBounds DEF IdInv, Buffers
      <3>3. objectAt[x] # b
        BY <1>5, <3>2 DEF IdInv
      <3> QED
        BY <1>5, <3>1, <3>2, <3>3
    <2> QED
      BY <2>1, <2>2
  <1>13. \A j \in DOMAIN mFreeIds' :
            /\ mFreeIds'[j] < mCurrentId' /\ objectAt'[mFreeIds'[j]] = 0
            /\ generationAt'[mFreeIds'[j]] < MaxGeneration
            /\ \A l \in DOMAIN mFreeIds' : j # l => mFreeIds'[j] # mFreeIds'[l]
    <2>1. CASE mFreeIds = <<>>
      <3>1. mFreeIds' = <<>>
        BY <1>7, <2>1
      <3> QED
        BY <3>1
    <2>2. CASE mFreeIds # <<>>
      <3> DEFINE n == Len(mFreeIds)
      <3>1. n \in Nat /\ n \in DOMAIN mFreeIds /\ DOMAIN mFreeIds = 1..n
        BY <1>2, <1>4, <2>2, LenProperties
      <3>2. mFreeIds' = SubSeq(mFreeIds, 1, n - 1) /\ i = mFreeIds[n] /\ mCurrentId' = mCurrentId
        BY <1>7, <2>2
      <3>3. /\ DOMAIN mFreeIds' = 1..(n - 1)
            /\ \A j \in 1..(n - 1) : mFreeIds'[j] = mFreeIds[j]
        <4>1. \A j \in 1..(n - 1) : mFreeIds[j] \in Ids
          BY <1>4, <3>1, LenProperties
        <4> QED
          BY <1>4, <3>1, <3>2, <4>1, SubSeqProperties
      <3> HIDE DEF n
      <3>4. \A j \in 1..(n - 1) : j \in DOMAIN mFreeIds /\ j # n
        BY <3>1
      <3>5. \A j, l \in DOMAIN mFreeIds : j # l => mFreeIds[j] # mFreeIds[l]
        BY DEF IdInv
      <3>6. \A j \in DOMAIN mFreeIds : /\ mFreeIds[j] \in Ids /\ mFreeIds[j] < mCurrentId
                                       /\ objectAt[mFreeIds[j]] = 0
                                       /\ generationAt[mFreeIds[j]] < MaxGeneration
        BY <1>4, <3>1, LenProperties DEF IdInv
      <3>7. \A j \in 1..(n - 1) : mFreeIds[j] # i
        BY <3>1, <3>2, <3>4, <3>5
      <3>8. ASSUME NEW j \in 1..(n - 1)
            PROVE  /\ mFreeIds'[j] < mCurrentId' /\ objectAt'[mFreeIds'[j]] = 0
                   /\ generationAt'[mFreeIds'[j]] < MaxGeneration
        <4>1. mFreeIds'[j] = mFreeIds[j] /\ j \in DOMAIN mFreeIds /\ mFreeIds[j] # i
          BY <3>3, <3>4, <3>7
        <4>2. objectAt'[mFreeIds[j]] = objectAt[mFreeIds[j]]
              /\ generationAt'[mFreeIds[j]] = generationAt[mFreeIds[j]]
          BY <1>6, <3>6, <4>1
        <4> QED
          BY <3>2, <3>6, <4>1, <4>2
      <3>9. \A j, l \in 1..(n - 1) : j # l => mFreeIds'[j] # mFreeIds'[l]
        BY <3>3, <3>4, <3>5
      <3> QED
        BY <3>3, <3>8, <3>9
    <2> QED
      BY <2>1, <2>2
  <1>14. \A x, y \in Buffers : x < y /\ IsCreated(y)' /\ id'[x] = id'[y]
            => generation'[x] < generation'[y]
    <2> SUFFICES ASSUME NEW x \in Buffers, NEW y \in Buffers, x < y, IsCreated(y)', id'[x] = id'[y]
                 PROVE  generation'[x] < generation'[y]
      OBVIOUS
    <2>1. x # b /\ IsCreated(x)
      BY <1>0, <1>3, <1>4 DEF IsCreated, Buffers
    <2>2. CASE y = b
      BY <1>5, <1>9, <2>1, <2>2
    <2>3. CASE y # b
      BY <1>5, <2>1, <2>3 DEF IdInv
    <2> QED
      BY <2>2, <2>3
  <1> QED
    BY <1>10, <1>11, <1>12, <1>13, <1>14 DEF IdInv

-----------------------------------------------------------------------------
(* The commands on their way to the server.                                *)

(* What is ahead of a command when others are sent after it.               *)
LEMMA SentBefore ==
    ASSUME toServer \in Seq(Commands), NEW cmds \in Seq(Commands), toServer' = toServer \o cmds
    PROVE  /\ \A j \in DOMAIN toServer : \A x, n : Before(j, x, n)' <=> Before(j, x, n)
           /\ \A j \in DOMAIN toServer' : \A x, n :
                 j \notin DOMAIN toServer /\ OnWay(x, n) => Before(j, x, n)'
           /\ \A x, n : OnWay(x, n)' <=>
                 \/ OnWay(x, n)
                 \/ \E i \in DOMAIN cmds : cmds[i].buffer = x /\ cmds[i].cmd \in n
           /\ \A r : MapOnWay(r)' <=>
                 \/ MapOnWay(r)
                 \/ \E i \in DOMAIN cmds : cmds[i].cmd = "MapAsync" /\ cmds[i].request = r
  <1>1. /\ toServer' \in Seq(Commands) /\ DOMAIN toServer' = 1..(Len(toServer) + Len(cmds))
        /\ \A j \in DOMAIN toServer : j \in DOMAIN toServer' /\ toServer'[j] = toServer[j]
        /\ \A j \in DOMAIN toServer' :
              \/ j \in DOMAIN toServer
              \/ j > Len(toServer) /\ j - Len(toServer) \in DOMAIN cmds
                 /\ toServer'[j] = cmds[j - Len(toServer)]
        /\ \A i \in DOMAIN cmds : Len(toServer) + i \in DOMAIN toServer'
                                  /\ toServer'[Len(toServer) + i] = cmds[i]
    BY Grown
  <1>2. Len(toServer) \in Nat /\ Len(cmds) \in Nat /\ DOMAIN toServer = 1..Len(toServer)
    BY LenProperties
  <1>3. ASSUME NEW j \in DOMAIN toServer, NEW x, NEW n
        PROVE  Before(j, x, n)' <=> Before(j, x, n)
    <2>1. \A k \in 1..(j - 1) : toServer'[k] = toServer[k]
      BY <1>1, <1>2
    <2> QED
      BY <2>1 DEF Before
  <1>4. ASSUME NEW j \in DOMAIN toServer', NEW x, NEW n, j \notin DOMAIN toServer, OnWay(x, n)
        PROVE  Before(j, x, n)'
    <2>1. PICK k \in DOMAIN toServer : toServer[k].buffer = x /\ toServer[k].cmd \in n
      BY <1>4 DEF OnWay
    <2>2. k \in 1..(j - 1) /\ toServer'[k] = toServer[k]
      BY <1>1, <1>2, <1>4
    <2> QED
      BY <2>1, <2>2 DEF Before
  <1>5. ASSUME NEW x, NEW n
        PROVE  OnWay(x, n)' <=>
                 \/ OnWay(x, n)
                 \/ \E i \in DOMAIN cmds : cmds[i].buffer = x /\ cmds[i].cmd \in n
    <2>1. ASSUME OnWay(x, n)'
          PROVE  \/ OnWay(x, n)
                 \/ \E i \in DOMAIN cmds : cmds[i].buffer = x /\ cmds[i].cmd \in n
      <3>1. PICK k \in DOMAIN toServer' : toServer'[k].buffer = x /\ toServer'[k].cmd \in n
        BY <2>1 DEF OnWay
      <3> QED
        BY <1>1, <3>1 DEF OnWay
    <2>2. OnWay(x, n) => OnWay(x, n)'
      BY <1>1 DEF OnWay
    <2>3. ASSUME NEW i \in DOMAIN cmds, cmds[i].buffer = x, cmds[i].cmd \in n
          PROVE  OnWay(x, n)'
      BY <1>1, <2>3 DEF OnWay
    <2> QED
      BY <2>1, <2>2, <2>3
  <1>6. ASSUME NEW r
        PROVE  MapOnWay(r)' <=>
                 \/ MapOnWay(r)
                 \/ \E i \in DOMAIN cmds : cmds[i].cmd = "MapAsync" /\ cmds[i].request = r
    <2>1. ASSUME MapOnWay(r)'
          PROVE  \/ MapOnWay(r)
                 \/ \E i \in DOMAIN cmds : cmds[i].cmd = "MapAsync" /\ cmds[i].request = r
      <3>1. PICK k \in DOMAIN toServer' : toServer'[k].cmd = "MapAsync" /\ toServer'[k].request = r
        BY <2>1 DEF MapOnWay
      <3> QED
        BY <1>1, <3>1 DEF MapOnWay
    <2>2. MapOnWay(r) => MapOnWay(r)'
      BY <1>1 DEF MapOnWay
    <2>3. ASSUME NEW i \in DOMAIN cmds, cmds[i].cmd = "MapAsync", cmds[i].request = r
          PROVE  MapOnWay(r)'
      BY <1>1, <2>3, ZenonT(30) DEF MapOnWay
    <2> QED
      BY <2>1, <2>2, <2>3
  <1> QED
    BY <1>3, <1>4, <1>5, <1>6

(* What is ahead of a command when the first is taken away.                *)
LEMMA TakenBefore ==
    ASSUME toServer \in Seq(Commands), toServer # <<>>, toServer' = Tail(toServer)
    PROVE  /\ \A j \in DOMAIN toServer' : \A x, n : Before(j + 1, x, n) <=>
                 Before(j, x, n)' \/ (toServer[1].buffer = x /\ toServer[1].cmd \in n)
           /\ \A x, n : OnWay(x, n) <=>
                 OnWay(x, n)' \/ (toServer[1].buffer = x /\ toServer[1].cmd \in n)
           /\ \A r : MapOnWay(r) <=>
                 MapOnWay(r)' \/ (toServer[1].cmd = "MapAsync" /\ toServer[1].request = r)
  <1>1. /\ 1 \in DOMAIN toServer
        /\ \A j \in DOMAIN toServer' : j \in Nat /\ j >= 1 /\ j + 1 \in DOMAIN toServer
                                       /\ toServer'[j] = toServer[j + 1]
        /\ \A j \in DOMAIN toServer : j \in Nat /\ j >= 1
              /\ (j # 1 => j - 1 \in DOMAIN toServer' /\ toServer'[j - 1] = toServer[j])
    BY Shrunk
  <1>2. ASSUME NEW j \in DOMAIN toServer', NEW x, NEW n
        PROVE  Before(j + 1, x, n) <=>
                 Before(j, x, n)' \/ (toServer[1].buffer = x /\ toServer[1].cmd \in n)
    <2>0. toServer' \in Seq(Commands) /\ DOMAIN toServer' = 1..Len(toServer')
          /\ Len(toServer') \in Nat
      BY Shrunk, LenProperties
    <2>1. \A k \in 1..(j - 1) : k \in DOMAIN toServer' /\ k + 1 \in 1..j
                                /\ toServer'[k] = toServer[k + 1]
      BY <1>1, <2>0
    <2>2. \A k \in 1..j : k # 1 => k - 1 \in 1..(j - 1) /\ toServer'[k - 1] = toServer[k]
      <3> SUFFICES ASSUME NEW k \in 1..j, k # 1
                   PROVE  k - 1 \in 1..(j - 1) /\ toServer'[k - 1] = toServer[k]
        OBVIOUS
      <3>1. k - 1 \in 1..(j - 1) /\ j \in Nat /\ (k - 1) + 1 = k
        BY <2>0
      <3> QED
        BY <2>1, <3>1
    <2>3. (j + 1) - 1 = j /\ 1 \in 1..j
      BY <1>1
    <2>4. Before(j + 1, x, n) <=> \E k \in 1..j : toServer[k].buffer = x /\ toServer[k].cmd \in n
      BY <2>3 DEF Before
    <2>5. Before(j, x, n)' <=>
            \E k \in 1..(j - 1) : toServer'[k].buffer = x /\ toServer'[k].cmd \in n
      BY DEF Before
    <2> QED
      BY <2>1, <2>2, <2>3, <2>4, <2>5
  <1>3. ASSUME NEW x, NEW n
        PROVE  OnWay(x, n) <=>
                 OnWay(x, n)' \/ (toServer[1].buffer = x /\ toServer[1].cmd \in n)
    BY <1>1 DEF OnWay
  <1>4. ASSUME NEW r
        PROVE  MapOnWay(r) <=>
                 MapOnWay(r)' \/ (toServer[1].cmd = "MapAsync" /\ toServer[1].request = r)
    <2>1. ASSUME MapOnWay(r), ~(toServer[1].cmd = "MapAsync" /\ toServer[1].request = r)
          PROVE  MapOnWay(r)'
      <3>1. PICK k \in DOMAIN toServer : toServer[k].cmd = "MapAsync" /\ toServer[k].request = r
        BY <2>1 DEF MapOnWay
      <3> QED
        BY <1>1, <2>1, <3>1, ZenonT(30) DEF MapOnWay
    <2>2. ASSUME MapOnWay(r)'
          PROVE  MapOnWay(r)
      <3>1. PICK k \in DOMAIN toServer' : toServer'[k].cmd = "MapAsync" /\ toServer'[k].request = r
        BY <2>2 DEF MapOnWay
      <3> QED
        BY <1>1, <3>1 DEF MapOnWay
    <2>3. toServer[1].cmd = "MapAsync" /\ toServer[1].request = r => MapOnWay(r)
      BY <1>1 DEF MapOnWay
    <2> QED
      BY <2>1, <2>2, <2>3
  <1> QED
    BY <1>2, <1>3, <1>4

(* Nothing is ahead of the first command.                                  *)
LEMMA FirstBefore == \A x, n : ~Before(1, x, n)
  BY DEF Before

(* The commands one by one.                                                *)
LEMMA EachInOrder ==
    ASSUME \A j \in DOMAIN toServer' : \A m : m = toServer'[j] => InOrder(j, m)'
    PROVE  CommandInv'
  BY DEF CommandInv, InOrder, IsCreated, InServer, Before

LEMMA OneInOrder ==
    ASSUME ChannelTypeOK, CommandInv, NEW j \in DOMAIN toServer, NEW m, m = toServer[j]
    PROVE  m \in Commands /\ m.buffer \in Buffers /\ InOrder(j, m)
  BY CommandTypes, LenProperties DEF ChannelTypeOK, CommandInv

(* Nothing is sent or taken.                                               *)
LEMMA CommandsKept ==
    ASSUME ChannelTypeOK, CommandInv, LiveInv, UNCHANGED <<created, id, generation, toServer>>,
           mDisconnected => mDisconnected',
           \A x \in Buffers : /\ InServer(x) => InServer(x)'
                              /\ live'[x] => live[x]
                              /\ phase[x] = "none" => phase'[x] = "none"
    PROVE  CommandInv' /\ LiveInv'
  <1>1. /\ \A x : IsCreated(x)' <=> IsCreated(x)
        /\ \A j, x, n : Before(j, x, n)' <=> Before(j, x, n)
        /\ \A x, n : OnWay(x, n)' <=> OnWay(x, n)
    BY DEF IsCreated, Before, OnWay
  <1>2. ASSUME NEW j \in DOMAIN toServer', NEW m, m = toServer'[j]
        PROVE  InOrder(j, m)'
    <2>1. m.buffer \in Buffers /\ InOrder(j, m)
      BY <1>2, OneInOrder
    <2>2. m.cmd # "Create" => InServer(m.buffer)' \/ Before(j, m.buffer, {"Create"})'
      BY <1>1, <2>1 DEF InOrder
    <2> QED
      BY <1>1, <2>1, <2>2 DEF InOrder
  <1>3. ~mDisconnected' => \A x \in Buffers : live'[x] => InServer(x)' \/ OnWay(x, {"Create"})'
    BY <1>1 DEF LiveInv
  <1>4. CommandInv'
    BY <1>2, EachInOrder
  <1> QED
    BY <1>3, <1>4 DEF LiveInv

(* Commands are sent for a live buffer; its release is sent alone.         *)
LEMMA CommandsSent ==
    ASSUME ChannelTypeOK, CommandInv, LiveInv, NEW b \in Buffers, IsCreated(b), live[b],
           ~mDisconnected, NEW cmds \in Seq(Commands), toServer' = toServer \o cmds,
           UNCHANGED <<created, id, generation, phase, known, mDisconnected>>,
           \A x \in Buffers : live'[x] => live[x],
           \A i \in DOMAIN cmds :
               /\ cmds[i].buffer = b /\ cmds[i].id = id[b] /\ cmds[i].cmd # "Create"
               /\ cmds[i].cmd = "DestroyObject" => ~live'[b] /\ Len(cmds) = 1
    PROVE  CommandInv' /\ LiveInv'
  <1>1. /\ \A x : IsCreated(x)' <=> IsCreated(x)
        /\ \A x : InServer(x)' <=> InServer(x)
    BY DEF IsCreated, InServer
  <1>2. /\ \A j \in DOMAIN toServer : \A x, n : Before(j, x, n)' <=> Before(j, x, n)
        /\ \A j \in DOMAIN toServer' : \A x, n :
              j \notin DOMAIN toServer /\ OnWay(x, n) => Before(j, x, n)'
        /\ \A x, n : OnWay(x, n) => OnWay(x, n)'
    BY SentBefore DEF ChannelTypeOK
  <1>3. /\ DOMAIN toServer' = 1..(Len(toServer) + Len(cmds))
        /\ \A j \in DOMAIN toServer : j \in DOMAIN toServer' /\ toServer'[j] = toServer[j]
        /\ \A j \in DOMAIN toServer' :
              \/ j \in DOMAIN toServer
              \/ j > Len(toServer) /\ j - Len(toServer) \in DOMAIN cmds
                 /\ toServer'[j] = cmds[j - Len(toServer)]
    BY Grown DEF ChannelTypeOK
  <1>4. /\ Len(toServer) \in Nat /\ Len(cmds) \in Nat /\ DOMAIN toServer = 1..Len(toServer)
        /\ DOMAIN cmds = 1..Len(cmds)
    BY LenProperties DEF ChannelTypeOK
  <1>5. ASSUME NEW j \in DOMAIN toServer', NEW m, m = toServer'[j]
        PROVE  InOrder(j, m)'
    <2>1. CASE j \in DOMAIN toServer
      <3>1. m = toServer[j]
        BY <1>3, <1>5, <2>1
      <3>2. m.buffer \in Buffers /\ InOrder(j, m)
        BY <2>1, <3>1, OneInOrder
      <3>3. \A k \in 1..(j - 1) : toServer'[k] = toServer[k]
        BY <1>3, <1>4, <2>1
      <3>4. m.cmd # "Create" => InServer(m.buffer)' \/ Before(j, m.buffer, {"Create"})'
        BY <1>1, <1>2, <2>1, <3>2 DEF InOrder
      <3> QED
        BY <1>1, <3>2, <3>3, <3>4 DEF InOrder
    <2>2. CASE j \notin DOMAIN toServer
      <3>1. j > Len(toServer) /\ j - Len(toServer) \in DOMAIN cmds /\ m = cmds[j - Len(toServer)]
        BY <1>3, <1>5, <2>2
      <3>2. /\ m.buffer = b /\ m.id = id[b] /\ m.cmd # "Create"
            /\ m.cmd = "DestroyObject" => ~live'[b]
        BY <3>1
      <3>3. InServer(b)' \/ Before(j, b, {"Create"})'
        BY <1>1, <1>2, <2>2 DEF LiveInv
      <3>4. ASSUME NEW k \in 1..(j - 1), toServer'[k].buffer = b
            PROVE  toServer'[k].cmd # "DestroyObject"
        <4>0. k \in DOMAIN toServer'
          BY <1>3, <1>4
        <4>1. CASE k \in DOMAIN toServer
          <5>1. toServer'[k] = toServer[k] /\ InOrder(k, toServer[k])
            BY <1>3, <4>1 DEF CommandInv
          <5> QED
            BY <3>4, <5>1 DEF InOrder
        <4>2. CASE k \notin DOMAIN toServer
          <5>1. k - Len(toServer) \in DOMAIN cmds /\ toServer'[k] = cmds[k - Len(toServer)]
            BY <1>3, <4>0, <4>2
          <5>2. Len(cmds) # 1
            BY <1>4, <3>1, <5>1
          <5> QED
            BY <5>1, <5>2
        <4> QED
          BY <4>1, <4>2
      <3> QED
        BY <1>1, <3>2, <3>3, <3>4 DEF InOrder
    <2> QED
      BY <2>1, <2>2
  <1>6. LiveInv'
    <2>1. \A x \in Buffers : live'[x] => InServer(x)' \/ OnWay(x, {"Create"})'
      BY <1>1, <1>2 DEF LiveInv
    <2> QED
      BY <2>1 DEF LiveInv
  <1> QED
    BY <1>5, <1>6, EachInOrder

(* The server has handled the first command.                               *)
LEMMA CommandsTaken ==
    ASSUME ChannelTypeOK, CommandInv, LiveInv, toServer # <<>>, toServer' = Tail(toServer),
           UNCHANGED <<created, id, generation, live, mDisconnected>>,
           NEW h, h = toServer[1],
           \A x \in Buffers :
               /\ InServer(x) /\ ~(h.cmd = "DestroyObject" /\ h.buffer = x) => InServer(x)'
               /\ x # h.buffer \/ h.cmd # "Create" => (phase[x] = "none" => phase'[x] = "none"),
           h.cmd = "Create" => InServer(h.buffer)'
    PROVE  CommandInv' /\ LiveInv'
  <1>1. \A x : IsCreated(x)' <=> IsCreated(x)
    BY DEF IsCreated
  <1>2. /\ \A j \in DOMAIN toServer' : \A x, n : Before(j + 1, x, n) <=>
              Before(j, x, n)' \/ (h.buffer = x /\ h.cmd \in n)
        /\ \A x, n : OnWay(x, n) <=> OnWay(x, n)' \/ (h.buffer = x /\ h.cmd \in n)
    BY TakenBefore DEF ChannelTypeOK
  <1>3. /\ 1 \in DOMAIN toServer /\ toServer' \in Seq(Commands)
        /\ \A j \in DOMAIN toServer' : j \in Nat /\ j >= 1 /\ j + 1 \in DOMAIN toServer
                                       /\ toServer'[j] = toServer[j + 1]
    BY Shrunk DEF ChannelTypeOK
  <1>4. Len(toServer') \in Nat /\ DOMAIN toServer' = 1..Len(toServer')
    BY <1>3, LenProperties
  <1>5. ASSUME NEW j \in DOMAIN toServer', NEW m, m = toServer'[j]
        PROVE  InOrder(j, m)'
    <2>1. m = toServer[j + 1] /\ j + 1 \in DOMAIN toServer /\ j \in Nat
      BY <1>3, <1>5
    <2>2. m.buffer \in Buffers /\ InOrder(j + 1, m)
      BY <2>1, OneInOrder
    <2>3. 1 \in 1..((j + 1) - 1)
      BY <1>3
    <2>4. h.buffer = m.buffer => h.cmd # "DestroyObject" /\ m.cmd # "Create"
      BY <2>2, <2>3 DEF InOrder
    <2>5. m.cmd = "Create" => m.generation = generation'[m.buffer] /\ phase'[m.buffer] = "none"
      BY <2>2, <2>4 DEF InOrder
    <2>6. m.cmd # "Create" => InServer(m.buffer)' \/ Before(j, m.buffer, {"Create"})'
      BY <1>2, <2>2, <2>4 DEF InOrder
    <2>7. ASSUME NEW k \in 1..(j - 1), toServer'[k].buffer = m.buffer
          PROVE  toServer'[k].cmd # "DestroyObject" /\ m.cmd # "Create"
      <3>1. k \in DOMAIN toServer' /\ k + 1 \in 1..((j + 1) - 1)
        BY <1>4, <2>1
      <3>2. toServer'[k] = toServer[k + 1]
        BY <1>3, <3>1
      <3> QED
        BY <2>2, <2>7, <3>1, <3>2 DEF InOrder
    <2>8. IsCreated(m.buffer)' /\ m.id = id'[m.buffer] /\ (m.cmd = "DestroyObject" => ~live'[m.buffer])
      BY <1>1, <2>2 DEF InOrder
    <2> QED
      BY <2>5, <2>6, <2>7, <2>8 DEF InOrder
  <1>6. ASSUME ~mDisconnected', NEW x \in Buffers, live'[x]
        PROVE  InServer(x)' \/ OnWay(x, {"Create"})'
    <2>1. ~(h.cmd = "DestroyObject" /\ h.buffer = x)
      <3>1. InOrder(1, h)
        BY <1>3 DEF CommandInv
      <3> QED
        BY <1>6, <3>1 DEF InOrder
    <2>2. InServer(x) \/ OnWay(x, {"Create"})
      BY <1>6 DEF LiveInv
    <2> QED
      BY <1>2, <2>1, <2>2
  <1>7. LiveInv'
    BY <1>6 DEF LiveInv
  <1> QED
    BY <1>5, <1>7, EachInOrder

(* A buffer is created.                                                    *)
LEMMA CreateCommands ==
    ASSUME WireTypeOK, ChannelTypeOK, IdInv, CommandInv, LiveInv, KnownInv,
           NEW k \in Kinds, CreateBuffer(k)
    PROVE  CommandInv' /\ LiveInv' /\ toServer' \in Seq(Commands)
  <1>0. PICK b : b = created + 1
    OBVIOUS
  <1>1. /\ b \in Buffers /\ NewId \in Ids /\ NewGeneration(NewId) \in 0..MaxGeneration
    BY <1>0, NewIdTypes DEF CreateBuffer
  <1> DEFINE c == [cmd |-> "Create", id |-> NewId, generation |-> NewGeneration(NewId), buffer |-> b]
  <1>2. /\ created' = b
        /\ id' = [id EXCEPT ![b] = NewId]
        /\ generation' = [generation EXCEPT ![b] = NewGeneration(NewId)]
        /\ live' = [live EXCEPT ![b] = TRUE]
        /\ toServer' = IF mDisconnected THEN toServer ELSE toServer \o <<c>>
        /\ UNCHANGED <<phase, known, mDisconnected>>
    BY <1>0 DEF CreateBuffer, NewId, nativeVars, serverVars, Send
  <1>3. /\ id \in [Buffers -> 0..MaxBuffers] /\ generation \in [Buffers -> 0..MaxGeneration]
        /\ live \in [Buffers -> BOOLEAN] /\ created \in Nat /\ known \in [Ids -> Entry]
    BY WireBounds DEF WireTypeOK
  <1>4. ~IsCreated(b) /\ IsCreated(b)' /\ \A x \in Buffers : IsCreated(x) => IsCreated(x)' /\ x # b
    BY <1>0, <1>1, <1>2, <1>3 DEF IsCreated
  <1>5. /\ \A x \in Buffers : x # b => /\ id'[x] = id[x] /\ generation'[x] = generation[x]
                                       /\ live'[x] = live[x] /\ (InServer(x)' <=> InServer(x))
        /\ id'[b] = NewId /\ generation'[b] = NewGeneration(NewId) /\ live'[b]
    <2>1. \A x \in Buffers : x # b => (IsCreated(x)' <=> IsCreated(x))
      BY <1>0, <1>2, <1>3 DEF IsCreated, Buffers
    <2> QED
      BY <1>1, <1>2, <1>3, <2>1 DEF InServer
  <1>6. c \in Commands /\ c.cmd = "Create" /\ c.buffer = b /\ c.id = NewId
        /\ c.generation = NewGeneration(NewId)
    BY <1>1, CommandsMade
  <1>7. phase[b] = "none"
    BY <1>1, <1>4 DEF IdInv
  <1> HIDE DEF c
  <1>8. ASSUME NEW j \in DOMAIN toServer, NEW m, m = toServer[j],
               \A l \in 1..(j - 1) : toServer'[l] = toServer[l],
               \A x, n : Before(j, x, n)' <=> Before(j, x, n)
        PROVE  InOrder(j, m)' /\ m.buffer # b
    <2>1. m.buffer \in Buffers /\ InOrder(j, m)
      BY <1>8, OneInOrder
    <2>2. IsCreated(m.buffer) /\ m.buffer # b /\ IsCreated(m.buffer)'
      BY <1>4, <2>1 DEF InOrder
    <2>3. m.cmd # "Create" => InServer(m.buffer)' \/ Before(j, m.buffer, {"Create"})'
      BY <1>5, <1>8, <2>1, <2>2 DEF InOrder
    <2> QED
      BY <1>2, <1>5, <1>8, <2>1, <2>2, <2>3 DEF InOrder
  <1>9. CASE mDisconnected
    <2>1. toServer' = toServer /\ mDisconnected'
      BY <1>2, <1>9
    <2>2. \A j, x, n : Before(j, x, n)' <=> Before(j, x, n)
      BY <2>1 DEF Before
    <2>3. ASSUME NEW j \in DOMAIN toServer', NEW m, m = toServer'[j]
          PROVE  InOrder(j, m)'
      BY <1>8, <2>1, <2>2, <2>3
    <2>4. CommandInv'
      BY <2>3, EachInOrder
    <2> QED
      BY <2>1, <2>4 DEF LiveInv, ChannelTypeOK
  <1>10. CASE ~mDisconnected
    <2>1. toServer' = toServer \o <<c>> /\ <<c>> \in Seq(Commands)
      BY <1>2, <1>6, <1>10
    <2>2. /\ \A j \in DOMAIN toServer : \A x, n : Before(j, x, n)' <=> Before(j, x, n)
          /\ \A x, n : OnWay(x, n)' <=>
                \/ OnWay(x, n)
                \/ \E i \in DOMAIN <<c>> : <<c>>[i].buffer = x /\ <<c>>[i].cmd \in n
      BY <2>1, SentBefore DEF ChannelTypeOK
    <2>3. /\ toServer' \in Seq(Commands) /\ DOMAIN toServer' = 1..(Len(toServer) + Len(<<c>>))
          /\ \A j \in DOMAIN toServer : j \in DOMAIN toServer' /\ toServer'[j] = toServer[j]
          /\ \A j \in DOMAIN toServer' :
                \/ j \in DOMAIN toServer
                \/ j > Len(toServer) /\ j - Len(toServer) \in DOMAIN <<c>>
                   /\ toServer'[j] = <<c>>[j - Len(toServer)]
      BY <2>1, Grown DEF ChannelTypeOK
    <2>4. Len(toServer) \in Nat /\ DOMAIN toServer = 1..Len(toServer) /\ DOMAIN <<c>> = {1}
          /\ <<c>>[1] = c
      BY LenProperties DEF ChannelTypeOK
    <2>5. ASSUME NEW j \in DOMAIN toServer', NEW m, m = toServer'[j]
          PROVE  InOrder(j, m)'
      <3>1. CASE j \in DOMAIN toServer
        <4>1. \A l \in 1..(j - 1) : toServer'[l] = toServer[l]
          BY <2>3, <2>4, <3>1
        <4>2. m = toServer[j]
          BY <2>3, <2>5, <3>1
        <4> QED
          BY <1>8, <2>2, <3>1, <4>1, <4>2
      <3>2. CASE j \notin DOMAIN toServer
        <4>1. j = Len(toServer) + 1 /\ m = c
          BY <2>3, <2>4, <2>5, <3>2
        <4>2. ASSUME NEW l \in 1..(j - 1)
              PROVE  toServer'[l].buffer # b
          <5>1. l \in DOMAIN toServer /\ toServer'[l] = toServer[l]
            BY <2>3, <2>4, <4>1
          <5>2. toServer[l].buffer \in Buffers /\ IsCreated(toServer[l].buffer)
            BY <5>1, OneInOrder DEF InOrder
          <5> QED
            BY <1>4, <5>1, <5>2
        <4> QED
          BY <1>2, <1>4, <1>5, <1>6, <1>7, <4>1, <4>2 DEF InOrder
      <3> QED
        BY <3>1, <3>2
    <2>6. ASSUME NEW x \in Buffers, live'[x]
          PROVE  InServer(x)' \/ OnWay(x, {"Create"})'
      <3>1. CASE x = b
        BY <1>6, <2>2, <2>4, <3>1
      <3>2. CASE x # b
        BY <1>5, <1>10, <2>2, <2>6, <3>2 DEF LiveInv
      <3> QED
        BY <3>1, <3>2
    <2>7. CommandInv'
      BY <2>5, EachInOrder
    <2> QED
      BY <2>3, <2>6, <2>7 DEF LiveInv
  <1> QED
    BY <1>9, <1>10

-----------------------------------------------------------------------------
(* The server's objects and the requests.                                  *)

(* The first command on its way, and the object it is for.                 *)
LEMMA FirstCommand ==
    ASSUME WireTypeOK, ChannelTypeOK, IdInv, CommandInv, NEW name, Receive(name),
           NEW h, h = Head(toServer)
    PROVE  /\ h = toServer[1] /\ 1 \in DOMAIN toServer /\ h \in Commands /\ h.cmd = name
           /\ toServer # <<>> /\ toServer' = Tail(toServer) /\ toServer' \in Seq(Commands)
           /\ h.buffer \in Buffers /\ h.id \in Ids /\ h.id = id[h.buffer] /\ IsCreated(h.buffer)
           /\ InOrder(1, h)
           /\ name # "Create" => InServer(h.buffer) /\ known[h.id].handle = h.buffer
  <1>1. /\ h = toServer[1] /\ 1 \in DOMAIN toServer /\ h \in Commands /\ h.cmd = name
        /\ toServer # <<>> /\ toServer' = Tail(toServer) /\ toServer' \in Seq(Commands)
    BY HeadCommand
  <1>2. h.buffer \in Buffers /\ InOrder(1, h)
    BY <1>1, OneInOrder
  <1>3. h.id \in Ids /\ h.id = id[h.buffer] /\ IsCreated(h.buffer)
    BY <1>1, <1>2, CommandTypes DEF InOrder
  <1>4. name # "Create" => InServer(h.buffer)
    BY <1>1, <1>2, FirstBefore DEF InOrder
  <1>5. InServer(h.buffer) => known[h.id].handle = h.buffer
    BY <1>3 DEF InServer
  <1> QED
    BY <1>1, <1>2, <1>3, <1>4, <1>5

LEMMA KnownKept ==
    ASSUME WireTypeOK, KnownInv, UNCHANGED <<created, id, generation, knownSize>>,
           \A i \in Ids : known'[i].state = "Allocated" =>
               /\ known[i].state = "Allocated" /\ known'[i].handle = known[i].handle
               /\ known'[i].generation = known[i].generation,
           \A x \in Buffers : phase[x] # "none" => phase'[x] # "none"
    PROVE  KnownInv'
  <1> SUFFICES ASSUME NEW i \in Ids, known'[i].state = "Allocated"
               PROVE  /\ i < knownSize' /\ known'[i].handle \in 1..created'
                      /\ id'[known'[i].handle] = i
                      /\ known'[i].generation = generation'[known'[i].handle]
                      /\ phase'[known'[i].handle] # "none"
    BY DEF KnownInv, IsCreated
  <1>1. /\ i < knownSize /\ known[i].handle \in 1..created /\ id[known[i].handle] = i
        /\ known[i].generation = generation[known[i].handle] /\ phase[known[i].handle] # "none"
    BY DEF KnownInv, IsCreated
  <1>2. known[i].handle \in Buffers
    BY <1>1, WireBounds DEF WireTypeOK, Buffers
  <1> QED
    BY <1>1, <1>2

(* The requests as the client knows them.                                  *)
LEMMA SerialKept ==
    ASSUME SerialInv, UNCHANGED <<created, mSerial, reqBuffer, reqSerial>>,
           mDisconnected' => mDisconnected \/ \A r \in Requests : ~Waiting(r)',
           \A r \in Requests :
               /\ answer[r] = "None" <=> answer'[r] = "None"
               /\ Waiting(r)' => Waiting(r) /\ live'[reqBuffer[r]]
               /\ answer[r] = "None" => nativeReply'[r] = nativeReply[r]
    PROVE  SerialInv'
  <1>1. \A x : IsCreated(x)' <=> IsCreated(x)
    BY DEF IsCreated
  <1>2. ASSUME NEW r \in Requests
        PROVE  /\ answer'[r] = "None" => nativeReply'[r] = "None" /\ reqSerial'[r] = 0
                                         /\ \A b \in Buffers : mSerial'[b] < r
               /\ answer'[r] # "None" => reqBuffer'[r] \in 1..created'
                                         /\ reqSerial'[r] <= mSerial'[reqBuffer'[r]]
               /\ Waiting(r)' => live'[reqBuffer'[r]] /\ ~mDisconnected'
    BY DEF SerialInv, IsCreated
  <1>3. \A r, q \in Requests :
            r # q /\ reqBuffer'[r] = reqBuffer'[q] /\ reqSerial'[r] = reqSerial'[q]
               => reqSerial'[r] = 0
    BY DEF SerialInv
  <1> QED
    BY <1>2, <1>3 DEF SerialInv, IsCreated

(* The requests on their way, when the server takes a command or none.     *)
LEMMA MapsTaken ==
    ASSUME ChannelTypeOK, MapCommandInv, toServer # <<>>, toServer' = Tail(toServer),
           UNCHANGED <<reqBuffer, reqSerial>>,
           \A r \in Requests :
               nativeReply[r] = "None" /\ ~(toServer[1].cmd = "MapAsync" /\ toServer[1].request = r)
                  => nativeReply'[r] = "None"
    PROVE  MapCommandInv'
  <1>1. /\ 1 \in DOMAIN toServer /\ toServer' \in Seq(Commands)
        /\ \A j \in DOMAIN toServer' : j \in Nat /\ j >= 1 /\ j + 1 \in DOMAIN toServer
                                       /\ toServer'[j] = toServer[j + 1]
    BY Shrunk DEF ChannelTypeOK
  <1>2. Len(toServer') \in Nat /\ DOMAIN toServer' = 1..Len(toServer')
    BY <1>1, LenProperties
  <1> SUFFICES ASSUME NEW j \in DOMAIN toServer', toServer'[j].cmd = "MapAsync",
                      NEW r, r = toServer'[j].request
               PROVE  /\ toServer'[j].buffer = reqBuffer'[r] /\ reqSerial'[r] > 0
                      /\ nativeReply'[r] = "None"
                      /\ \A k \in 1..(j - 1) : toServer'[k].cmd = "MapAsync"
                            => toServer'[k].request # r
    BY DEF MapCommandInv
  <1>3. toServer'[j] = toServer[j + 1] /\ j + 1 \in DOMAIN toServer /\ j \in Nat
    BY <1>1
  <1>4. /\ toServer[j + 1].buffer = reqBuffer[r] /\ reqSerial[r] > 0 /\ nativeReply[r] = "None"
        /\ \A k \in 1..((j + 1) - 1) : toServer[k].cmd = "MapAsync" => toServer[k].request # r
    BY <1>3 DEF MapCommandInv
  <1>5. r \in Requests
    BY <1>3, CommandTypes, LenProperties DEF ChannelTypeOK
  <1>6. ~(toServer[1].cmd = "MapAsync" /\ toServer[1].request = r)
    <2>1. 1 \in 1..((j + 1) - 1)
      BY <1>1
    <2> QED
      BY <1>4, <2>1
  <1>7. \A k \in 1..(j - 1) : toServer'[k].cmd = "MapAsync" => toServer'[k].request # r
    <2>1. \A k \in 1..(j - 1) : k \in DOMAIN toServer' /\ k + 1 \in 1..((j + 1) - 1)
      BY <1>2, <1>3
    <2> QED
      BY <1>1, <1>4, <2>1
  <1> QED
    BY <1>3, <1>4, <1>5, <1>6, <1>7

LEMMA MapsKept ==
    ASSUME ChannelTypeOK, MapCommandInv, UNCHANGED <<reqBuffer, reqSerial, toServer>>,
           \A r \in Requests : nativeReply[r] = "None" => nativeReply'[r] = "None"
    PROVE  MapCommandInv'
  <1>1. \A j \in DOMAIN toServer : toServer[j].cmd = "MapAsync" => toServer[j].request \in Requests
    BY CommandTypes, LenProperties DEF ChannelTypeOK
  <1> QED
    BY <1>1 DEF MapCommandInv

LEMMA MapsSent ==
    ASSUME ChannelTypeOK, MapCommandInv, UNCHANGED <<reqBuffer, reqSerial, nativeReply>>,
           NEW cmds \in Seq(Commands), toServer' = toServer \o cmds,
           \A i \in DOMAIN cmds : cmds[i].cmd # "MapAsync"
    PROVE  MapCommandInv'
  <1>1. /\ DOMAIN toServer' = 1..(Len(toServer) + Len(cmds))
        /\ \A j \in DOMAIN toServer : j \in DOMAIN toServer' /\ toServer'[j] = toServer[j]
        /\ \A j \in DOMAIN toServer' :
              \/ j \in DOMAIN toServer
              \/ j - Len(toServer) \in DOMAIN cmds /\ toServer'[j] = cmds[j - Len(toServer)]
    BY Grown DEF ChannelTypeOK
  <1>2. Len(toServer) \in Nat /\ DOMAIN toServer = 1..Len(toServer)
    BY LenProperties DEF ChannelTypeOK
  <1> SUFFICES ASSUME NEW j \in DOMAIN toServer', toServer'[j].cmd = "MapAsync",
                      NEW r, r = toServer'[j].request
               PROVE  /\ toServer'[j].buffer = reqBuffer'[r] /\ reqSerial'[r] > 0
                      /\ nativeReply'[r] = "None"
                      /\ \A k \in 1..(j - 1) : toServer'[k].cmd = "MapAsync"
                            => toServer'[k].request # r
    BY DEF MapCommandInv
  <1>3. j \in DOMAIN toServer /\ toServer'[j] = toServer[j]
    BY <1>1
  <1>4. \A k \in 1..(j - 1) : toServer'[k] = toServer[k]
    BY <1>1, <1>2, <1>3
  <1> QED
    BY <1>3, <1>4 DEF MapCommandInv

(* The answers on their way to the client.                                 *)
LEMMA ReturnsKept ==
    ASSUME WireTypeOK, ChannelTypeOK, SerialInv, ReturnInv,
           toClient' = toClient \/ (toClient # <<>> /\ toClient' = Tail(toClient)),
           \A x \in Buffers : IsCreated(x) => id'[x] = id[x] /\ generation'[x] = generation[x],
           \A r \in Requests :
               /\ reqSerial[r] > 0 => reqBuffer'[r] = reqBuffer[r] /\ reqSerial'[r] = reqSerial[r]
               /\ nativeReply[r] = "Success" => nativeReply'[r] = "Success"
    PROVE  ReturnInv' /\ toClient' \in Seq(ReturnCommands)
  <1>1. toClient' \in Seq(ReturnCommands)
    BY Shrunk DEF ChannelTypeOK
  <1>2. \A j \in DOMAIN toClient' : \E k \in DOMAIN toClient : toClient'[j] = toClient[k]
    <2>1. CASE toClient # <<>> /\ toClient' = Tail(toClient)
      <3>1. \A j \in DOMAIN toClient' : j + 1 \in DOMAIN toClient /\ toClient'[j] = toClient[j + 1]
        BY <2>1, Shrunk DEF ChannelTypeOK
      <3> QED
        BY <3>1
    <2> QED
      BY <2>1
  <1> SUFFICES ASSUME NEW j \in DOMAIN toClient', NEW m, m = toClient'[j], NEW r, r = m.request
               PROVE  /\ reqSerial'[r] > 0 /\ m.serial = reqSerial'[r]
                      /\ m.id = id'[reqBuffer'[r]] /\ m.generation = generation'[reqBuffer'[r]]
                      /\ m.status = "Success" => nativeReply'[r] = "Success"
    BY <1>1 DEF ReturnInv
  <1>3. PICK k \in DOMAIN toClient : m = toClient[k]
    BY <1>2
  <1>4. /\ reqSerial[r] > 0 /\ m.serial = reqSerial[r]
        /\ m.id = id[reqBuffer[r]] /\ m.generation = generation[reqBuffer[r]]
        /\ m.status = "Success" => nativeReply[r] = "Success"
    BY <1>3 DEF ReturnInv
  <1>5. r \in Requests
    <2>1. m \in ReturnCommands
      BY <1>3, LenProperties DEF ChannelTypeOK
    <2> QED
      BY <2>1 DEF ReturnCommands
  <1>6. reqBuffer[r] \in Buffers /\ IsCreated(reqBuffer[r])
    <2>1. answer[r] # "None"
      BY <1>4, <1>5 DEF SerialInv
    <2>2. IsCreated(reqBuffer[r])
      BY <1>5, <2>1 DEF SerialInv
    <2> QED
      BY <2>2, WireBounds DEF IsCreated, WireTypeOK, Buffers
  <1> QED
    BY <1>4, <1>5, <1>6

LEMMA ReturnsSent ==
    ASSUME ChannelTypeOK, ReturnInv, NEW c \in ReturnCommands, toClient' = toClient \o <<c>>,
           UNCHANGED <<id, generation, reqBuffer, reqSerial>>,
           \A r \in Requests : nativeReply[r] = "Success" => nativeReply'[r] = "Success",
           reqSerial[c.request] > 0, c.serial = reqSerial[c.request],
           c.id = id[reqBuffer[c.request]], c.generation = generation[reqBuffer[c.request]],
           c.status = "Success" => nativeReply'[c.request] = "Success"
    PROVE  ReturnInv' /\ toClient' \in Seq(ReturnCommands)
  <1>1. toClient \in Seq(ReturnCommands) /\ <<c>> \in Seq(ReturnCommands)
        /\ DOMAIN <<c>> = {1} /\ <<c>>[1] = c
    BY DEF ChannelTypeOK
  <1>2. /\ toClient' \in Seq(ReturnCommands)
        /\ \A j \in DOMAIN toClient : toClient'[j] = toClient[j]
        /\ \A j \in DOMAIN toClient' :
              \/ j \in DOMAIN toClient
              \/ j - Len(toClient) \in DOMAIN <<c>> /\ toClient'[j] = <<c>>[j - Len(toClient)]
    BY <1>1, Grown
  <1> SUFFICES ASSUME NEW j \in DOMAIN toClient', NEW m, m = toClient'[j], NEW r, r = m.request
               PROVE  /\ reqSerial'[r] > 0 /\ m.serial = reqSerial'[r]
                      /\ m.id = id'[reqBuffer'[r]] /\ m.generation = generation'[reqBuffer'[r]]
                      /\ m.status = "Success" => nativeReply'[r] = "Success"
    BY <1>2 DEF ReturnInv
  <1>3. CASE j \in DOMAIN toClient
    <2>1. m = toClient[j] /\ m \in ReturnCommands
      BY <1>1, <1>2, <1>3, LenProperties
    <2>2. r \in Requests
      BY <2>1 DEF ReturnCommands
    <2>3. /\ reqSerial[r] > 0 /\ m.serial = reqSerial[r]
          /\ m.id = id[reqBuffer[r]] /\ m.generation = generation[reqBuffer[r]]
          /\ m.status = "Success" => nativeReply[r] = "Success"
      BY <1>3, <2>1 DEF ReturnInv
    <2> QED
      BY <2>2, <2>3
  <1>4. CASE j \notin DOMAIN toClient
    <2>1. m = c
      BY <1>1, <1>2, <1>4
    <2> QED
      BY <2>1
  <1> QED
    BY <1>3, <1>4

LEMMA PendingKept ==
    ASSUME PendingInv,
           \A x \in Buffers : phase'[x] = "pending" =>
               /\ phase[x] = "pending" /\ owner'[x] = owner[x]
               /\ nativeReply'[owner[x]] = nativeReply[owner[x]],
           \A r \in Requests :
               reqSerial[r] > 0 => reqBuffer'[r] = reqBuffer[r] /\ reqSerial'[r] = reqSerial[r]
    PROVE  PendingInv'
  BY DEF PendingInv

(* A native buffer leaves pending, and the answer is sent.                 *)
LEMMA NativeAnswered ==
    ASSUME WireTypeOK, ChannelTypeOK, IdInv, SerialInv, PendingInv, ReturnInv,
           NEW b \in Buffers, NEW status \in Statuses, NEW newPhase, newPhase # "pending",
           NativeAnswers(b, status, newPhase),
           NEW replies, replies = <<>> \/ replies = Replies(b, status),
           toClient' = IF mDisconnected THEN toClient ELSE toClient \o replies,
           UNCHANGED <<created, id, generation, reqBuffer, reqSerial>>
    PROVE  /\ PendingInv' /\ ReturnInv' /\ toClient' \in Seq(ReturnCommands)
           /\ \A r \in Requests : /\ nativeReply'[r] = "None" <=> nativeReply[r] = "None"
                                  /\ nativeReply[r] = "Success" => nativeReply'[r] = "Success"
           /\ phase'[b] = newPhase /\ \A x \in Buffers : x # b => phase'[x] = phase[x]
  <1>1. /\ phase \in [Buffers -> {"none", "error", "unmapped", "pending", "mapped", "lost", "gone"}]
        /\ nativeReply \in [Requests -> {"None", "Waiting"} \cup Statuses]
        /\ toClient \in Seq(ReturnCommands)
    BY DEF WireTypeOK, ChannelTypeOK
  <1>2. phase'[b] = newPhase /\ owner' = owner /\ \A x \in Buffers : x # b => phase'[x] = phase[x]
    BY <1>1 DEF NativeAnswers
  <1>3. CASE phase[b] # "pending"
    <2>1. nativeReply' = nativeReply /\ Replies(b, status) = <<>>
      BY <1>3 DEF NativeAnswers, Replies
    <2>2. toClient' = toClient
      BY <1>1, <2>1, ConcatEmptySeq
    <2>3. \A x \in Buffers : phase'[x] = "pending" => phase[x] = "pending"
      BY <1>2
    <2>4. PendingInv'
      BY <1>2, <2>1, <2>3, PendingKept
    <2>5. ReturnInv' /\ toClient' \in Seq(ReturnCommands)
      BY <2>1, <2>2, ReturnsKept
    <2> QED
      BY <1>2, <2>1, <2>4, <2>5
  <1>4. CASE phase[b] = "pending"
    <2>1. PICK o \in Requests : /\ o = owner[b] /\ reqBuffer[o] = b /\ reqSerial[o] > 0
                                /\ nativeReply[o] = "Waiting"
      BY <1>4 DEF PendingInv
    <2>2. nativeReply' = [nativeReply EXCEPT ![o] = status]
      BY <1>4, <2>1 DEF NativeAnswers
    <2>3. nativeReply'[o] = status /\ \A r \in Requests : r # o => nativeReply'[r] = nativeReply[r]
      BY <1>1, <2>2
    <2>4. \A r \in Requests : /\ nativeReply'[r] = "None" <=> nativeReply[r] = "None"
                              /\ nativeReply[r] = "Success" => nativeReply'[r] = "Success"
      BY <2>1, <2>3 DEF Statuses
    <2>5. PendingInv'
      <3>1. ASSUME NEW x \in Buffers, phase'[x] = "pending"
            PROVE  /\ phase[x] = "pending" /\ owner'[x] = owner[x]
                   /\ nativeReply'[owner[x]] = nativeReply[owner[x]]
        <4>1. x # b /\ phase[x] = "pending"
          BY <1>2, <3>1
        <4>2. owner[x] \in Requests /\ reqBuffer[owner[x]] = x
          BY <4>1 DEF PendingInv
        <4>3. owner[x] # o
          BY <2>1, <4>1, <4>2
        <4> QED
          BY <1>2, <2>3, <4>1, <4>2, <4>3
      <3> QED
        BY <3>1, PendingKept
    <2>6. ReturnInv' /\ toClient' \in Seq(ReturnCommands)
      <3>1. CASE toClient' = toClient
        BY <2>4, <3>1, ReturnsKept
      <3>2. CASE toClient' # toClient
        <4>1. replies # <<>> /\ toClient' = toClient \o replies
          BY <1>1, <3>2, ConcatEmptySeq
        <4>2. replies = Return(o, b, status)
          BY <1>4, <2>1, <4>1 DEF Replies
        <4> DEFINE c == [id |-> id[b], generation |-> generation[b], serial |-> reqSerial[o],
                         status |-> status, request |-> o]
        <4>3. replies = <<c>>
          BY <4>1, <4>2 DEF Return
        <4>4. IsCreated(b)
          BY <1>4 DEF IdInv
        <4>5. id[b] \in Ids /\ generation[b] \in 0..MaxGeneration /\ reqSerial[o] \in Nat
          BY <2>1, <4>4, LiveIds, WireBounds, SMTT(20) DEF WireTypeOK
        <4>6. c \in ReturnCommands
          BY <4>5 DEF ReturnCommands
        <4>7. /\ reqSerial[c.request] > 0 /\ c.serial = reqSerial[c.request]
              /\ c.id = id[reqBuffer[c.request]]
              /\ c.generation = generation[reqBuffer[c.request]]
              /\ c.status = "Success" => nativeReply'[c.request] = "Success"
          BY <2>1, <2>3
        <4>8. toClient' = toClient \o <<c>>
          BY <4>1, <4>3
        <4> HIDE DEF c
        <4> QED
          BY <2>4, <4>6, <4>7, <4>8, ReturnsSent
      <3> QED
        BY <3>1, <3>2
    <2> QED
      BY <1>2, <2>4, <2>5, <2>6
  <1> QED
    BY <1>3, <1>4

-----------------------------------------------------------------------------
(* The server's handlers.                                                  *)

(* A handler of a command for an object the server has.                    *)
LEMMA TakenTalk ==
    ASSUME WireTypeOK, TalkInv, NEW name, name # "Create", Receive(name),
           NEW h, h = Head(toServer),
           UNCHANGED <<created, id, generation, live, idVars, mDisconnected, mSerial, reqBuffer,
                       reqSerial, answer, knownSize>>,
           \A i \in Ids :
               /\ known'[i].handle = known[i].handle /\ known'[i].generation = known[i].generation
               /\ \/ known'[i].state = known[i].state
                  \/ name = "DestroyObject" /\ i = h.id /\ known'[i].state = "Free",
           \A x \in Buffers : phase[x] = "none" <=> phase'[x] = "none",
           \A r \in Requests : nativeReply[r] = "None" =>
               nativeReply'[r] = "None" \/ (name = "MapAsync" /\ h.request = r),
           PendingInv', ReturnInv', toClient' \in Seq(ReturnCommands)
    PROVE  TalkInv'
  <1>0. ChannelTypeOK /\ IdInv /\ CommandInv /\ LiveInv /\ KnownInv /\ SerialInv /\ MapCommandInv
    BY DEF TalkInv
  <1>1. /\ h = toServer[1] /\ 1 \in DOMAIN toServer /\ h \in Commands /\ h.cmd = name
        /\ toServer # <<>> /\ toServer' = Tail(toServer) /\ toServer' \in Seq(Commands)
        /\ h.buffer \in Buffers /\ h.id \in Ids /\ h.id = id[h.buffer] /\ IsCreated(h.buffer)
        /\ InServer(h.buffer) /\ known[h.id].handle = h.buffer
    BY <1>0, FirstCommand
  <1>2. IdInv'
    <2>1. \A x \in Buffers : ~IsCreated(x) => phase'[x] = phase[x]
      BY <1>0 DEF IdInv
    <2> QED
      BY <1>0, <2>1, IdKept
  <1>3. CommandInv' /\ LiveInv'
    <2>1. ASSUME NEW x \in Buffers, InServer(x), ~(h.cmd = "DestroyObject" /\ h.buffer = x)
          PROVE  InServer(x)'
      <3>1. id[x] \in Ids /\ IsCreated(x)'
        BY <1>0, <2>1, LiveIds DEF InServer, IsCreated
      <3>2. known'[id[x]].state = known[id[x]].state
        <4>1. name = "DestroyObject" => id[x] # h.id
          BY <1>1, <2>1 DEF InServer
        <4> QED
          BY <3>1, <4>1
      <3> QED
        BY <2>1, <3>1, <3>2 DEF InServer
    <2> QED
      BY <1>0, <1>1, <2>1, CommandsTaken
  <1>4. KnownInv'
    BY <1>0, KnownKept
  <1>5. name = "MapAsync" => answer[h.request] # "None" /\ h.request \in Requests
    BY <1>0, <1>1, CommandTypes DEF MapCommandInv, SerialInv
  <1>6. SerialInv'
    <2>1. \A r \in Requests : answer[r] = "None" => nativeReply'[r] = nativeReply[r]
      BY <1>0, <1>5 DEF SerialInv
    <2>2. \A r \in Requests : Waiting(r)' => Waiting(r) /\ live'[reqBuffer[r]]
      BY <1>0 DEF Waiting, SerialInv
    <2> QED
      BY <1>0, <2>1, <2>2, SerialKept
  <1>7. MapCommandInv'
    BY <1>0, <1>1, MapsTaken
  <1>8. ChannelTypeOK'
    BY <1>1 DEF ChannelTypeOK
  <1> QED
    BY <1>2, <1>3, <1>4, <1>6, <1>7, <1>8 DEF TalkInv

(* What the handlers do with the object the command is for.                *)
LEMMA UnmapEffect ==
    ASSUME WireTypeOK, TalkInv, DoBufferUnmap, Running', NEW h, h = Head(toServer)
    PROVE  /\ UNCHANGED <<clientVars, requestVars, idVars, mDisconnected, knownSize, deviceLost,
                          commands, unflushed>>
           /\ \A i \in Ids :
                 /\ known'[i].handle = known[i].handle /\ known'[i].generation = known[i].generation
                 /\ known'[i].state = known[i].state
                 /\ i # h.id => known'[i] = known[i]
           /\ known'[h.id].mapWriteState = "Unmapped" /\ known'[h.id].read = known[h.id].read
           /\ known'[h.id].write <=> known[h.id].write /\ ~ForCreation(kind[h.buffer])
           /\ \/ /\ phase[h.buffer] \in {"pending", "mapped"} /\ ~deviceLost
                 /\ NativeAnswers(h.buffer, "Unmapped", "unmapped")
                 /\ toClient' = IF mDisconnected THEN toClient
                                ELSE toClient \o Replies(h.buffer, "Unmapped")
              \/ /\ ~(phase[h.buffer] \in {"pending", "mapped"} /\ ~deviceLost)
                 /\ UNCHANGED <<phase, owner, nativeReply, toClient>>
  <1>0. ChannelTypeOK /\ IdInv /\ CommandInv
    BY DEF TalkInv
  <1>1. h.id \in Ids /\ known[h.id].handle = h.buffer
    BY <1>0, FirstCommand DEF DoBufferUnmap
  <1> DEFINE b == h.buffer
             unmapped == [known EXCEPT ![h.id].mapWriteState = "Unmapped",
                                       ![h.id].write = @ /\ ~ForCreation(kind[b])]
  <1>2. Allocated(h.id)
    BY DEF DoBufferUnmap, ServerFails, Running
  <1>3. /\ IF phase[b] \in {"pending", "mapped"} /\ ~deviceLost
             THEN /\ NativeAnswers(b, "Unmapped", "unmapped")
                  /\ ServerStep(unmapped, Replies(b, "Unmapped"))
             ELSE ServerStep(unmapped, <<>>) /\ UNCHANGED <<phase, owner, nativeReply>>
        /\ UNCHANGED <<wireError, unflushed>>
    BY <1>1, <1>2 DEF DoBufferUnmap
  <1>4. known' = unmapped /\ UNCHANGED <<clientVars, requestVars, idVars, mDisconnected, knownSize,
                                         deviceLost, commands>>
    BY <1>3 DEF ServerStep
  <1>5. known \in [Ids -> Entry] /\ toClient \in Seq(ReturnCommands)
    BY <1>0 DEF WireTypeOK, ChannelTypeOK
  <1>6. /\ \A i \in Ids : i # h.id => known'[i] = known[i]
        /\ known'[h.id] = [[known[h.id] EXCEPT !.mapWriteState = "Unmapped"]
                              EXCEPT !.write = @ /\ ~ForCreation(kind[b])]
    BY <1>1, <1>4, <1>5
  <1>7. /\ known'[h.id].handle = known[h.id].handle
        /\ known'[h.id].generation = known[h.id].generation
        /\ known'[h.id].state = known[h.id].state /\ known'[h.id].read = known[h.id].read
        /\ known'[h.id].mapWriteState = "Unmapped"
    BY <1>1, <1>5, <1>6 DEF Entry
  <1>10. known'[h.id].write <=> known[h.id].write /\ ~ForCreation(kind[b])
    <2>1. PICK e \in Entry : e = known[h.id]
      BY <1>1, <1>5
    <2>2. [[e EXCEPT !.mapWriteState = "Unmapped"] EXCEPT !.write = @ /\ ~ForCreation(kind[b])].write
            = (e.write /\ ~ForCreation(kind[b]))
      BY DEF Entry
    <2> QED
      BY <1>6, <2>1, <2>2
  <1> HIDE DEF unmapped
  <1>8. CASE phase[b] \in {"pending", "mapped"} /\ ~deviceLost
    BY <1>3, <1>4, <1>6, <1>7, <1>8, <1>10 DEF ServerStep
  <1>9. CASE ~(phase[b] \in {"pending", "mapped"} /\ ~deviceLost)
    <2>1. toClient' = toClient
      BY <1>3, <1>5, <1>9, ConcatEmptySeq DEF ServerStep
    <2> QED
      BY <1>3, <1>4, <1>6, <1>7, <1>9, <1>10, <2>1
  <1> QED
    BY <1>8, <1>9

LEMMA DestroyStatus ==
    CallbackStatus("Destroyed") \in Statuses /\ CallbackStatus("Destroyed") # "Success"
  BY DEF CallbackStatus, Statuses

LEMMA DestroyEffect ==
    ASSUME WireTypeOK, TalkInv, DoBufferDestroy, Running', NEW h, h = Head(toServer)
    PROVE  /\ UNCHANGED <<clientVars, requestVars, idVars, mDisconnected, knownSize, deviceLost,
                          commands, unflushed>>
           /\ \A i \in Ids :
                 /\ known'[i].handle = known[i].handle /\ known'[i].generation = known[i].generation
                 /\ known'[i].state = known[i].state
                 /\ i # h.id => known'[i] = known[i]
           /\ \/ /\ phase[h.buffer] # "error"
                 /\ NativeAnswers(h.buffer, CallbackStatus("Destroyed"), "gone")
                 /\ toClient' = IF mDisconnected THEN toClient
                                ELSE toClient \o Replies(h.buffer, CallbackStatus("Destroyed"))
              \/ phase[h.buffer] = "error" /\ UNCHANGED <<phase, owner, nativeReply, toClient>>
  <1>0. ChannelTypeOK /\ IdInv /\ CommandInv
    BY DEF TalkInv
  <1>1. h.id \in Ids /\ known[h.id].handle = h.buffer
    BY <1>0, FirstCommand DEF DoBufferDestroy
  <1> DEFINE b == h.buffer
             cleared == [known EXCEPT ![h.id].mapWriteState = "Unmapped", ![h.id].read = FALSE,
                                      ![h.id].write = FALSE]
  <1>2. Allocated(h.id)
    BY DEF DoBufferDestroy, ServerFails, Running
  <1>3. /\ IF phase[b] = "error"
             THEN ServerStep(cleared, <<>>) /\ UNCHANGED <<phase, owner, nativeReply>>
             ELSE /\ NativeAnswers(b, CallbackStatus("Destroyed"), "gone")
                  /\ ServerStep(cleared, Replies(b, CallbackStatus("Destroyed")))
        /\ UNCHANGED <<wireError, unflushed>>
    BY <1>1, <1>2 DEF DoBufferDestroy
  <1>4. known' = cleared /\ UNCHANGED <<clientVars, requestVars, idVars, mDisconnected, knownSize,
                                        deviceLost, commands>>
    BY <1>3 DEF ServerStep
  <1>5. known \in [Ids -> Entry] /\ toClient \in Seq(ReturnCommands)
    BY <1>0 DEF WireTypeOK, ChannelTypeOK
  <1>6. /\ \A i \in Ids : i # h.id => known'[i] = known[i]
        /\ known'[h.id] = [[[known[h.id] EXCEPT !.mapWriteState = "Unmapped"] EXCEPT !.read = FALSE]
                              EXCEPT !.write = FALSE]
    BY <1>1, <1>4, <1>5
  <1>7. /\ known'[h.id].handle = known[h.id].handle
        /\ known'[h.id].generation = known[h.id].generation
        /\ known'[h.id].state = known[h.id].state
    BY <1>1, <1>5, <1>6 DEF Entry
  <1> HIDE DEF cleared
  <1>8. CASE phase[b] # "error"
    BY <1>3, <1>4, <1>6, <1>7, <1>8 DEF ServerStep
  <1>9. CASE phase[b] = "error"
    <2>1. toClient' = toClient
      BY <1>3, <1>5, <1>9, ConcatEmptySeq DEF ServerStep
    <2> QED
      BY <1>3, <1>4, <1>6, <1>7, <1>9, <2>1
  <1> QED
    BY <1>8, <1>9

LEMMA DestroyObjectEffect ==
    ASSUME WireTypeOK, TalkInv, DoDestroyObject, Running', NEW h, h = Head(toServer)
    PROVE  /\ UNCHANGED <<clientVars, requestVars, idVars, mDisconnected, knownSize, deviceLost,
                          commands, unflushed, owner, nativeReply, toClient>>
           /\ \A i \in Ids :
                 /\ known'[i].handle = known[i].handle /\ known'[i].generation = known[i].generation
                 /\ i # h.id => known'[i] = known[i]
           /\ known'[h.id].state = "Free"
           /\ phase'[h.buffer] = IF phase[h.buffer] \in {"error", "pending"} THEN phase[h.buffer]
                                                                           ELSE "gone"
           /\ \A x \in Buffers : x # h.buffer => phase'[x] = phase[x]
  <1>0. ChannelTypeOK /\ IdInv /\ CommandInv
    BY DEF TalkInv
  <1>1. h.id \in Ids /\ known[h.id].handle = h.buffer /\ h.buffer \in Buffers
    BY <1>0, FirstCommand DEF DoDestroyObject
  <1>2. Allocated(h.id)
    BY DEF DoDestroyObject, ServerFails, Running
  <1>3. /\ ServerStep([known EXCEPT ![h.id].state = "Free"], <<>>)
        /\ phase' = [phase EXCEPT ![h.buffer] = IF @ \in {"error", "pending"} THEN @ ELSE "gone"]
        /\ UNCHANGED <<owner, nativeReply, wireError, unflushed>>
    BY <1>1, <1>2 DEF DoDestroyObject
  <1>4. /\ known \in [Ids -> Entry] /\ toClient \in Seq(ReturnCommands)
        /\ phase \in [Buffers -> {"none", "error", "unmapped", "pending", "mapped", "lost", "gone"}]
    BY <1>0 DEF WireTypeOK, ChannelTypeOK
  <1>5. /\ known' = [known EXCEPT ![h.id].state = "Free"] /\ toClient' = toClient
        /\ UNCHANGED <<clientVars, requestVars, idVars, mDisconnected, knownSize, deviceLost,
                       commands>>
    BY <1>3, <1>4, ConcatEmptySeq DEF ServerStep
  <1>6. /\ \A i \in Ids : i # h.id => known'[i] = known[i]
        /\ known'[h.id] = [known[h.id] EXCEPT !.state = "Free"]
    BY <1>1, <1>4, <1>5
  <1>7. /\ known'[h.id].handle = known[h.id].handle
        /\ known'[h.id].generation = known[h.id].generation /\ known'[h.id].state = "Free"
    BY <1>1, <1>4, <1>6 DEF Entry
  <1>8. /\ phase'[h.buffer] = IF phase[h.buffer] \in {"error", "pending"} THEN phase[h.buffer]
                                                                        ELSE "gone"
        /\ \A x \in Buffers : x # h.buffer => phase'[x] = phase[x]
    BY <1>1, <1>3, <1>4
  <1> QED
    BY <1>3, <1>5, <1>6, <1>7, <1>8

LEMMA UpdateEffect ==
    ASSUME WireTypeOK, TalkInv, DoBufferUpdateMappedData, Running', NEW h, h = Head(toServer)
    PROVE  /\ UNCHANGED <<clientVars, requestVars, idVars, mDisconnected, known, knownSize,
                          deviceLost, commands, phase, owner, nativeReply, toClient>>
           /\ unflushed' = [unflushed EXCEPT ![h.buffer] = FALSE]
  <1>0. ChannelTypeOK /\ IdInv /\ CommandInv
    BY DEF TalkInv
  <1>1. known[h.id].handle = h.buffer
    BY <1>0, FirstCommand DEF DoBufferUpdateMappedData
  <1>2. /\ ServerStep(known, <<>>) /\ UNCHANGED <<phase, owner, nativeReply, wireError>>
        /\ unflushed' = [unflushed EXCEPT ![h.buffer] = FALSE]
    BY <1>1 DEF DoBufferUpdateMappedData, ServerFails, Running
  <1>3. toClient' = toClient
    BY <1>0, <1>2, ConcatEmptySeq DEF ServerStep, ChannelTypeOK
  <1> QED
    BY <1>2, <1>3 DEF ServerStep

LEMMA MapAsyncEffect ==
    ASSUME WireTypeOK, TalkInv, DoBufferMapAsync, Running', NEW h, h = Head(toServer)
    PROVE  /\ UNCHANGED <<clientVars, requestVars, idVars, mDisconnected, known, knownSize,
                          deviceLost, commands, unflushed>>
           /\ \/ /\ phase[h.buffer] = "unmapped" /\ ~deviceLost /\ kind[h.buffer] # "AtCreation"
                 /\ phase' = [phase EXCEPT ![h.buffer] = "pending"]
                 /\ owner' = [owner EXCEPT ![h.buffer] = h.request]
                 /\ nativeReply' = [nativeReply EXCEPT ![h.request] = "Waiting"]
                 /\ toClient' = toClient
              \/ /\ UNCHANGED <<phase, owner, nativeReply>>
                 /\ \E status \in {"DeviceLost", "Error"} :
                       toClient' = IF mDisconnected THEN toClient
                                   ELSE toClient \o Return(h.request, h.buffer, status)
  <1>0. ChannelTypeOK /\ IdInv /\ CommandInv
    BY DEF TalkInv
  <1>1. h.id \in Ids /\ known[h.id].handle = h.buffer
    BY <1>0, FirstCommand DEF DoBufferMapAsync
  <1> DEFINE b == h.buffer
  <1>2. Allocated(h.id)
    BY DEF DoBufferMapAsync, ServerFails, Running
  <1>3. \/ /\ phase[b] = "unmapped" /\ ~deviceLost /\ kind[b] # "AtCreation"
           /\ phase' = [phase EXCEPT ![b] = "pending"]
           /\ owner' = [owner EXCEPT ![b] = h.request]
           /\ nativeReply' = [nativeReply EXCEPT ![h.request] = "Waiting"]
           /\ ServerStep(known, <<>>) /\ UNCHANGED <<wireError, unflushed>>
        \/ /\ ServerStep(known, Return(h.request, b, IF deviceLost THEN "DeviceLost" ELSE "Error"))
           /\ UNCHANGED <<phase, owner, nativeReply, wireError, unflushed>>
    BY <1>1, <1>2 DEF DoBufferMapAsync
  <1>4. toClient \in Seq(ReturnCommands)
    BY <1>0 DEF ChannelTypeOK
  <1>5. CASE ServerStep(known, <<>>) /\ phase' = [phase EXCEPT ![b] = "pending"]
             /\ phase[b] = "unmapped" /\ ~deviceLost /\ kind[b] # "AtCreation"
             /\ owner' = [owner EXCEPT ![b] = h.request]
             /\ nativeReply' = [nativeReply EXCEPT ![h.request] = "Waiting"]
             /\ UNCHANGED <<wireError, unflushed>>
    <2>1. toClient' = toClient
      BY <1>4, <1>5, ConcatEmptySeq DEF ServerStep
    <2> QED
      BY <1>5, <2>1 DEF ServerStep
  <1>6. CASE /\ ServerStep(known, Return(h.request, b, IF deviceLost THEN "DeviceLost" ELSE "Error"))
             /\ UNCHANGED <<phase, owner, nativeReply, wireError, unflushed>>
    BY <1>6 DEF ServerStep
  <1> QED
    BY <1>3, <1>5, <1>6

LEMMA CreateEffect ==
    ASSUME WireTypeOK, TalkInv, DoDeviceCreateBuffer, Running', NEW h, h = Head(toServer)
    PROVE  /\ UNCHANGED <<clientVars, requestVars, idVars, mDisconnected, toClient, owner,
                          nativeReply, deviceLost, unflushed, commands>>
           /\ h.id <= knownSize /\ ~Allocated(h.id)
           /\ knownSize' = IF h.id = knownSize THEN knownSize + 1 ELSE knownSize
           /\ \A i \in Ids : i # h.id => known'[i] = known[i]
           /\ \A x \in Buffers : x # h.buffer => phase'[x] = phase[x]
           /\ known'[h.id].state = "Allocated" /\ known'[h.id].handle = h.buffer
           /\ known'[h.id].generation = h.generation
           /\ known'[h.id].write <=> MapsWrite(kind[h.buffer]) \/ AtCreation(kind[h.buffer])
           /\ \/ /\ phase'[h.buffer] = "error"
                 /\ AtCreation(kind[h.buffer])
                       => known'[h.id].mapWriteState \in {"Mapped", "MapError"}
              \/ /\ AtCreation(kind[h.buffer]) /\ phase'[h.buffer] = "mapped"
                 /\ known'[h.id].mapWriteState = "Mapped"
                 /\ known'[h.id].read <=> MapsRead(kind[h.buffer])
              \/ /\ ~AtCreation(kind[h.buffer]) /\ phase'[h.buffer] = "unmapped"
                 /\ known'[h.id].read <=> MapsRead(kind[h.buffer])
  <1>0. ChannelTypeOK /\ IdInv /\ CommandInv
    BY DEF TalkInv
  <1>1. h.id \in Ids /\ h.buffer \in Buffers
    BY <1>0, FirstCommand DEF DoDeviceCreateBuffer
  <1>2. ~(h.id > knownSize \/ Allocated(h.id))
    BY DEF DoDeviceCreateBuffer, ServerFails, Running
  <1>3. PICK b : b = h.buffer
    OBVIOUS
  <1>4. PICK ok \in BOOLEAN, mapping \in BOOLEAN :
          /\ ok => mapping
          /\ knownSize' = IF h.id = knownSize THEN knownSize + 1 ELSE knownSize
          /\ known' = [known EXCEPT ![h.id] =
                [state |-> "Allocated", generation |-> h.generation, handle |-> b,
                 read |-> MapsRead(kind[b]) /\ (mapping \/ ~AtCreation(kind[b])),
                 write |-> MapsWrite(kind[b]) \/ AtCreation(kind[b]),
                 mapWriteState |-> IF ~AtCreation(kind[b]) THEN "Unmapped"
                                   ELSE IF mapping THEN "Mapped" ELSE "MapError"]]
          /\ phase' = [phase EXCEPT ![b] =
                IF ~ok THEN "error" ELSE IF AtCreation(kind[b]) THEN "mapped" ELSE "unmapped"]
          /\ UNCHANGED <<clientVars, requestVars, idVars, mDisconnected, toClient, owner,
                         nativeReply, deviceLost, wireError, unflushed, commands>>
    BY <1>2, <1>3 DEF DoDeviceCreateBuffer
  <1>5. /\ known \in [Ids -> Entry]
        /\ phase \in [Buffers -> {"none", "error", "unmapped", "pending", "mapped", "lost", "gone"}]
    BY DEF WireTypeOK
  <1>6. /\ \A i \in Ids : i # h.id => known'[i] = known[i]
        /\ known'[h.id] = [state |-> "Allocated", generation |-> h.generation, handle |-> b,
                 read |-> MapsRead(kind[b]) /\ (mapping \/ ~AtCreation(kind[b])),
                 write |-> MapsWrite(kind[b]) \/ AtCreation(kind[b]),
                 mapWriteState |-> IF ~AtCreation(kind[b]) THEN "Unmapped"
                                   ELSE IF mapping THEN "Mapped" ELSE "MapError"]
    BY <1>1, <1>4, <1>5
  <1>7. /\ \A x \in Buffers : x # b => phase'[x] = phase[x]
        /\ phase'[b] = IF ~ok THEN "error" ELSE IF AtCreation(kind[b]) THEN "mapped" ELSE "unmapped"
    BY <1>1, <1>3, <1>4, <1>5
  <1>8. h.id <= knownSize
    BY <1>1, <1>2, WireBounds DEF WireTypeOK, Ids
  <1>9. /\ known'[h.id].state = "Allocated" /\ known'[h.id].handle = b
        /\ known'[h.id].generation = h.generation
        /\ known'[h.id].write = (MapsWrite(kind[b]) \/ AtCreation(kind[b]))
        /\ known'[h.id].read = (MapsRead(kind[b]) /\ (mapping \/ ~AtCreation(kind[b])))
        /\ known'[h.id].mapWriteState = IF ~AtCreation(kind[b]) THEN "Unmapped"
                                        ELSE IF mapping THEN "Mapped" ELSE "MapError"
    BY <1>6
  <1> QED
    BY <1>2, <1>3, <1>4, <1>6, <1>7, <1>8, <1>9

LEMMA ServerTalk ==
    ASSUME WireTypeOK, TalkInv, ServerHandles, Running'
    PROVE  TalkInv'
  <1>0. ChannelTypeOK /\ IdInv /\ CommandInv /\ LiveInv /\ KnownInv /\ SerialInv /\ MapCommandInv
        /\ PendingInv /\ ReturnInv
    BY DEF TalkInv
  <1>01. PICK h : h = Head(toServer)
    OBVIOUS
  <1>1. CASE DoBufferUnmap
    <2>1. /\ Receive("Unmap") /\ h.buffer \in Buffers /\ h.id \in Ids /\ InServer(h.buffer)
          /\ h.id = id[h.buffer]
      BY <1>0, <1>01, <1>1, FirstCommand DEF DoBufferUnmap
    <2>2. phase[h.buffer] # "none"
      BY <1>0, <2>1 DEF InServer, KnownInv
    <2>3. /\ UNCHANGED <<created, id, generation, live, idVars, mDisconnected, mSerial, reqBuffer,
                         reqSerial, answer, knownSize>>
          /\ \A i \in Ids : /\ known'[i].handle = known[i].handle
                            /\ known'[i].generation = known[i].generation
                            /\ known'[i].state = known[i].state
          /\ \/ /\ NativeAnswers(h.buffer, "Unmapped", "unmapped")
                /\ toClient' = IF mDisconnected THEN toClient
                               ELSE toClient \o Replies(h.buffer, "Unmapped")
             \/ UNCHANGED <<phase, owner, nativeReply, toClient>>
      BY <1>01, <1>1, UnmapEffect DEF clientVars, requestVars
    <2>4. CASE UNCHANGED <<phase, owner, nativeReply, toClient>>
      <3>1. PendingInv' /\ ReturnInv' /\ toClient' \in Seq(ReturnCommands)
        BY <1>0, <2>3, <2>4, PendingKept, ReturnsKept
      <3> QED
        BY <1>01, <2>1, <2>3, <2>4, <3>1, TakenTalk
    <2>5. CASE /\ NativeAnswers(h.buffer, "Unmapped", "unmapped")
               /\ toClient' = IF mDisconnected THEN toClient
                              ELSE toClient \o Replies(h.buffer, "Unmapped")
      <3>1. /\ PendingInv' /\ ReturnInv' /\ toClient' \in Seq(ReturnCommands)
            /\ \A r \in Requests : nativeReply'[r] = "None" <=> nativeReply[r] = "None"
            /\ phase'[h.buffer] = "unmapped"
            /\ \A x \in Buffers : x # h.buffer => phase'[x] = phase[x]
        BY <1>0, <2>1, <2>3, <2>5, NativeAnswered, ZenonT(30) DEF Statuses
      <3>2. \A x \in Buffers : phase[x] = "none" <=> phase'[x] = "none"
        BY <2>2, <3>1
      <3> QED
        BY <1>01, <2>1, <2>3, <3>1, <3>2, TakenTalk
    <2> QED
      BY <2>3, <2>4, <2>5
  <1>2. CASE DoBufferDestroy
    <2>1. /\ Receive("Destroy") /\ h.buffer \in Buffers /\ h.id \in Ids /\ InServer(h.buffer)
          /\ h.id = id[h.buffer]
      BY <1>0, <1>01, <1>2, FirstCommand DEF DoBufferDestroy
    <2>2. phase[h.buffer] # "none"
      BY <1>0, <2>1 DEF InServer, KnownInv
    <2>3. /\ UNCHANGED <<created, id, generation, live, idVars, mDisconnected, mSerial, reqBuffer,
                         reqSerial, answer, knownSize>>
          /\ \A i \in Ids : /\ known'[i].handle = known[i].handle
                            /\ known'[i].generation = known[i].generation
                            /\ known'[i].state = known[i].state
          /\ \/ /\ NativeAnswers(h.buffer, CallbackStatus("Destroyed"), "gone")
                /\ toClient' = IF mDisconnected THEN toClient
                               ELSE toClient \o Replies(h.buffer, CallbackStatus("Destroyed"))
             \/ UNCHANGED <<phase, owner, nativeReply, toClient>>
      BY <1>01, <1>2, DestroyEffect DEF clientVars, requestVars
    <2>4. CASE UNCHANGED <<phase, owner, nativeReply, toClient>>
      <3>1. PendingInv' /\ ReturnInv' /\ toClient' \in Seq(ReturnCommands)
        BY <1>0, <2>3, <2>4, PendingKept, ReturnsKept
      <3> QED
        BY <1>01, <2>1, <2>3, <2>4, <3>1, TakenTalk
    <2>5. CASE /\ NativeAnswers(h.buffer, CallbackStatus("Destroyed"), "gone")
               /\ toClient' = IF mDisconnected THEN toClient
                              ELSE toClient \o Replies(h.buffer, CallbackStatus("Destroyed"))
      <3>0. PICK status \in Statuses : status = CallbackStatus("Destroyed")
        BY DestroyStatus
      <3>01. /\ NativeAnswers(h.buffer, status, "gone")
             /\ toClient' = IF mDisconnected THEN toClient ELSE toClient \o Replies(h.buffer, status)
        BY <2>5, <3>0
      <3>02. UNCHANGED <<created, id, generation, reqBuffer, reqSerial>> /\ "gone" # "pending"
        BY <2>3
      <3>1. /\ PendingInv' /\ ReturnInv' /\ toClient' \in Seq(ReturnCommands)
            /\ \A r \in Requests : nativeReply'[r] = "None" <=> nativeReply[r] = "None"
            /\ phase'[h.buffer] = "gone"
            /\ \A x \in Buffers : x # h.buffer => phase'[x] = phase[x]
        <4>1. PICK b \in Buffers : b = h.buffer
          BY <2>1
        <4>2. PICK replies : replies = Replies(h.buffer, status)
          OBVIOUS
        <4>3. NativeAnswers(b, status, "gone")
          BY <3>01, <4>1
        <4>4. replies = Replies(b, status)
          BY <4>1, <4>2
        <4>5. toClient' = IF mDisconnected THEN toClient ELSE toClient \o replies
          BY <3>01, <4>2
        <4>6. /\ PendingInv' /\ ReturnInv' /\ toClient' \in Seq(ReturnCommands)
              /\ \A r \in Requests : /\ nativeReply'[r] = "None" <=> nativeReply[r] = "None"
                                     /\ nativeReply[r] = "Success" => nativeReply'[r] = "Success"
              /\ phase'[b] = "gone" /\ \A x \in Buffers : x # b => phase'[x] = phase[x]
          BY <1>0, <3>02, <4>3, <4>4, <4>5, NativeAnswered
        <4> QED
          BY <4>1, <4>6
      <3>2. \A x \in Buffers : phase[x] = "none" <=> phase'[x] = "none"
        BY <2>2, <3>1
      <3> QED
        BY <1>01, <2>1, <2>3, <3>1, <3>2, TakenTalk
    <2> QED
      BY <2>3, <2>4, <2>5
  <1>3. CASE DoDestroyObject
    <2>1. /\ Receive("DestroyObject") /\ h.buffer \in Buffers /\ h.id \in Ids /\ InServer(h.buffer)
          /\ h.id = id[h.buffer]
      BY <1>0, <1>01, <1>3, FirstCommand DEF DoDestroyObject
    <2>2. phase[h.buffer] # "none"
      BY <1>0, <2>1 DEF InServer, KnownInv
    <2>3. /\ UNCHANGED <<created, id, generation, live, idVars, mDisconnected, mSerial, reqBuffer,
                         reqSerial, answer, knownSize, owner, nativeReply, toClient>>
          /\ \A i \in Ids :
                /\ known'[i].handle = known[i].handle /\ known'[i].generation = known[i].generation
                /\ known'[i].state = known[i].state \/ (i = h.id /\ known'[i].state = "Free")
          /\ phase'[h.buffer] = IF phase[h.buffer] \in {"error", "pending"} THEN phase[h.buffer]
                                                                          ELSE "gone"
          /\ \A x \in Buffers : x # h.buffer => phase'[x] = phase[x]
      BY <1>01, <1>3, DestroyObjectEffect DEF clientVars, requestVars
    <2>4. \A x \in Buffers : phase[x] = "none" <=> phase'[x] = "none"
      BY <2>2, <2>3
    <2>5. \A x \in Buffers : phase'[x] = "pending" => phase[x] = "pending"
      BY <2>3
    <2>6. PendingInv' /\ ReturnInv' /\ toClient' \in Seq(ReturnCommands)
      BY <1>0, <2>3, <2>5, PendingKept, ReturnsKept
    <2> QED
      BY <1>01, <2>1, <2>3, <2>4, <2>6, TakenTalk
  <1>4. CASE DoBufferUpdateMappedData
    <2>1. Receive("UpdateMappedData")
      BY <1>4 DEF DoBufferUpdateMappedData
    <2>2. UNCHANGED <<created, id, generation, live, idVars, mDisconnected, mSerial, reqBuffer,
                      reqSerial, answer, known, knownSize, phase, owner, nativeReply, toClient>>
      BY <1>01, <1>4, UpdateEffect DEF clientVars, requestVars
    <2>3. PendingInv' /\ ReturnInv' /\ toClient' \in Seq(ReturnCommands)
      BY <1>0, <2>2, PendingKept, ReturnsKept
    <2> QED
      BY <1>01, <2>1, <2>2, <2>3, TakenTalk
  <1>5. CASE DoBufferMapAsync
    <2>1. /\ Receive("MapAsync") /\ h.buffer \in Buffers /\ h.id \in Ids /\ InServer(h.buffer)
          /\ h.id = id[h.buffer] /\ h \in Commands /\ h.cmd = "MapAsync" /\ h = toServer[1]
          /\ 1 \in DOMAIN toServer
      BY <1>0, <1>01, <1>5, FirstCommand DEF DoBufferMapAsync
    <2>2. /\ h.request \in Requests /\ reqBuffer[h.request] = h.buffer /\ reqSerial[h.request] > 0
          /\ nativeReply[h.request] = "None"
      BY <1>0, <2>1, CommandTypes DEF MapCommandInv
    <2>3. UNCHANGED <<created, id, generation, live, idVars, mDisconnected, mSerial, reqBuffer,
                      reqSerial, answer, known, knownSize>>
      BY <1>01, <1>5, MapAsyncEffect DEF clientVars, requestVars
    <2>4. CASE /\ phase[h.buffer] = "unmapped"
               /\ phase' = [phase EXCEPT ![h.buffer] = "pending"]
               /\ owner' = [owner EXCEPT ![h.buffer] = h.request]
               /\ nativeReply' = [nativeReply EXCEPT ![h.request] = "Waiting"]
               /\ toClient' = toClient
      <3>0. /\ phase \in [Buffers -> {"none", "error", "unmapped", "pending", "mapped", "lost",
                                      "gone"}]
            /\ owner \in [Buffers -> 0..MaxRequests]
            /\ nativeReply \in [Requests -> {"None", "Waiting"} \cup Statuses]
        BY DEF WireTypeOK
      <3>1. /\ phase'[h.buffer] = "pending" /\ owner'[h.buffer] = h.request
            /\ nativeReply'[h.request] = "Waiting"
            /\ \A x \in Buffers : x # h.buffer => phase'[x] = phase[x] /\ owner'[x] = owner[x]
            /\ \A r \in Requests : r # h.request => nativeReply'[r] = nativeReply[r]
        BY <2>1, <2>2, <2>4, <3>0
      <3>2. PendingInv'
        <4> SUFFICES ASSUME NEW x \in Buffers, phase'[x] = "pending"
                     PROVE  /\ owner'[x] \in Requests /\ reqBuffer'[owner'[x]] = x
                            /\ reqSerial'[owner'[x]] > 0 /\ nativeReply'[owner'[x]] = "Waiting"
          BY DEF PendingInv
        <4>1. CASE x = h.buffer
          BY <2>2, <2>3, <3>1, <4>1
        <4>2. CASE x # h.buffer
          <5>1. /\ owner[x] \in Requests /\ reqBuffer[owner[x]] = x /\ reqSerial[owner[x]] > 0
                /\ nativeReply[owner[x]] = "Waiting"
            BY <1>0, <3>1, <4>2 DEF PendingInv
          <5>2. owner[x] # h.request
            BY <2>2, <5>1
          <5> QED
            BY <2>3, <3>1, <4>2, <5>1, <5>2
        <4> QED
          BY <4>1, <4>2
      <3>3. ReturnInv' /\ toClient' \in Seq(ReturnCommands)
        <4>1. \A r \in Requests : nativeReply[r] = "Success" => nativeReply'[r] = "Success"
          BY <2>2, <3>1
        <4> QED
          BY <1>0, <2>3, <2>4, <4>1, ReturnsKept
      <3>4. \A x \in Buffers : phase[x] = "none" <=> phase'[x] = "none"
        BY <2>4, <3>1
      <3>5. \A r \in Requests : nativeReply[r] = "None" =>
                 nativeReply'[r] = "None" \/ h.request = r
        BY <3>1
      <3> QED
        BY <1>01, <2>1, <2>3, <3>2, <3>3, <3>4, <3>5, TakenTalk
    <2>5. ASSUME UNCHANGED <<phase, owner, nativeReply>>, NEW status \in {"DeviceLost", "Error"},
                 toClient' = IF mDisconnected THEN toClient
                             ELSE toClient \o Return(h.request, h.buffer, status)
          PROVE  TalkInv'
      <3>1. PendingInv'
        BY <1>0, <2>3, <2>5, PendingKept
      <3>2. ReturnInv' /\ toClient' \in Seq(ReturnCommands)
        <4>1. CASE toClient' = toClient
          BY <1>0, <2>3, <2>5, <4>1, ReturnsKept
        <4>2. CASE toClient' # toClient
          <5> DEFINE c == [id |-> id[h.buffer], generation |-> generation[h.buffer],
                           serial |-> reqSerial[h.request], status |-> status,
                           request |-> h.request]
          <5>1. toClient \o <<>> = toClient
            BY <1>0, ConcatEmptySeq DEF ChannelTypeOK
          <5>2. toClient' = toClient \o <<c>>
            BY <2>5, <4>2, <5>1 DEF Return
          <5>3. /\ generation[h.buffer] \in 0..MaxGeneration /\ reqSerial[h.request] \in Nat
                /\ id[h.buffer] \in Ids
            BY <2>1, <2>2 DEF WireTypeOK
          <5>4. c \in ReturnCommands /\ status # "Success"
            BY <2>2, <2>5, <5>3 DEF ReturnCommands, Statuses
          <5>5. /\ c.request = h.request /\ c.serial = reqSerial[h.request]
                /\ c.id = id[h.buffer] /\ c.generation = generation[h.buffer]
                /\ c.status = status
            OBVIOUS
          <5> HIDE DEF c
          <5> QED
            BY <1>0, <2>2, <2>3, <2>5, <5>2, <5>4, <5>5, ReturnsSent
        <4> QED
          BY <4>1, <4>2
      <3> QED
        BY <1>01, <2>1, <2>3, <2>5, <3>1, <3>2, TakenTalk
    <2> QED
      BY <1>01, <1>5, <2>4, <2>5, MapAsyncEffect
  <1>6. CASE DoDeviceCreateBuffer
    <2>1. /\ Receive("Create") /\ h.buffer \in Buffers /\ h.id \in Ids /\ h.id = id[h.buffer]
          /\ IsCreated(h.buffer) /\ InOrder(1, h) /\ h = toServer[1] /\ h.cmd = "Create"
          /\ toServer # <<>> /\ toServer' = Tail(toServer) /\ toServer' \in Seq(Commands)
      BY <1>0, <1>01, <1>6, FirstCommand DEF DoDeviceCreateBuffer
    <2>2. /\ UNCHANGED <<clientVars, requestVars, idVars, mDisconnected, toClient, owner,
                         nativeReply>>
          /\ h.id <= knownSize /\ ~Allocated(h.id)
          /\ knownSize' = IF h.id = knownSize THEN knownSize + 1 ELSE knownSize
          /\ \A i \in Ids : i # h.id => known'[i] = known[i]
          /\ \A x \in Buffers : x # h.buffer => phase'[x] = phase[x]
          /\ known'[h.id].state = "Allocated" /\ known'[h.id].handle = h.buffer
          /\ known'[h.id].generation = h.generation
          /\ phase'[h.buffer] \in {"error", "mapped", "unmapped"}
      BY <1>01, <1>6, CreateEffect
    <2>3. UNCHANGED <<created, id, generation, live, mDisconnected, mSerial, reqBuffer, reqSerial,
                      answer>>
      BY <2>2 DEF clientVars, requestVars
    <2>4. h.generation = generation[h.buffer] /\ phase[h.buffer] = "none"
      BY <2>1 DEF InOrder
    <2>5. \A x : IsCreated(x)' <=> IsCreated(x)
      BY <2>3 DEF IsCreated
    <2>6. knownSize \in Nat /\ h.id < knownSize' /\ knownSize <= knownSize' /\ knownSize' \in Nat
      <3>1. knownSize \in 1..(MaxBuffers + 1)
        BY DEF WireTypeOK
      <3>2. h.id \in 1..MaxBuffers
        BY <2>1 DEF Ids
      <3>3. /\ h.id <= knownSize
            /\ knownSize' = IF h.id = knownSize THEN knownSize + 1 ELSE knownSize
        BY <2>2
      <3> QED
        BY <3>1, <3>2, <3>3, WireBounds
    <2>7. IdInv'
      <3>1. \A x \in Buffers : ~IsCreated(x) => phase'[x] = phase[x]
        BY <2>1, <2>2
      <3> QED
        BY <1>0, <2>2, <2>3, <3>1, IdKept
    <2>8. CommandInv' /\ LiveInv'
      <3>1. ASSUME NEW x \in Buffers, InServer(x)
            PROVE  InServer(x)'
        <4>1. id[x] \in Ids /\ id'[x] = id[x]
          BY <1>0, <2>3, <3>1, LiveIds DEF InServer
        <4>2. id[x] # h.id
          BY <1>0, <2>2, <3>1, <4>1 DEF KnownInv, Allocated, InServer
        <4> QED
          BY <2>2, <2>5, <3>1, <4>1, <4>2 DEF InServer
      <3>2. InServer(h.buffer)'
        BY <2>1, <2>2, <2>3, <2>5 DEF InServer
      <3> QED
        BY <1>0, <2>1, <2>2, <2>3, <3>1, <3>2, CommandsTaken
    <2>9. KnownInv'
      <3> SUFFICES ASSUME NEW i \in Ids, known'[i].state = "Allocated"
                   PROVE  /\ i < knownSize' /\ IsCreated(known'[i].handle)
                          /\ id[known'[i].handle] = i
                          /\ known'[i].generation = generation[known'[i].handle]
                          /\ phase'[known'[i].handle] # "none"
        BY <2>3, <2>5 DEF KnownInv, IsCreated
      <3>1. CASE i = h.id
        BY <2>1, <2>2, <2>4, <2>6, <3>1
      <3>2. CASE i # h.id
        <4>1. /\ known'[i] = known[i] /\ i < knownSize /\ IsCreated(known[i].handle)
              /\ id[known[i].handle] = i /\ known[i].generation = generation[known[i].handle]
              /\ phase[known[i].handle] # "none"
          BY <1>0, <2>2, <3>2 DEF KnownInv
        <4>2. known[i].handle \in Buffers /\ known[i].handle # h.buffer
          BY <2>1, <3>2, <4>1, WireBounds, SMTT(20) DEF IsCreated, Buffers, WireTypeOK
        <4>3. i < knownSize'
          BY <2>6, <4>1 DEF Ids
        <4> QED
          BY <2>2, <4>1, <4>2, <4>3
      <3> QED
        BY <3>1, <3>2
    <2>10. SerialInv'
      <3>1. \A r \in Requests : Waiting(r)' => Waiting(r) /\ live'[reqBuffer[r]]
        BY <1>0, <2>3 DEF Waiting, SerialInv
      <3> QED
        BY <1>0, <2>2, <2>3, <3>1, SerialKept
    <2>11. MapCommandInv'
      BY <1>0, <2>1, <2>2, <2>3, MapsTaken
    <2>12. PendingInv' /\ ReturnInv' /\ toClient' \in Seq(ReturnCommands)
      <3>1. \A x \in Buffers : phase'[x] = "pending" => phase[x] = "pending"
        BY <2>2
      <3> QED
        BY <1>0, <2>2, <2>3, <3>1, PendingKept, ReturnsKept
    <2>13. ChannelTypeOK'
      BY <2>1, <2>12 DEF ChannelTypeOK
    <2> QED
      BY <2>7, <2>8, <2>9, <2>10, <2>11, <2>12, <2>13 DEF TalkInv
  <1> QED
    BY <1>1, <1>2, <1>3, <1>4, <1>5, <1>6 DEF ServerHandles

-----------------------------------------------------------------------------
(* The native buffers answer, and the device is lost.                      *)
LEMMA DeviceEffect ==
    ASSUME WireTypeOK, NEW b \in Buffers, Grant(b) \/ AnswerLost(b)
    PROVE  /\ phase[b] = "pending"
           /\ UNCHANGED <<clientVars, requestVars, idVars, mDisconnected, knownSize, deviceLost,
                          commands, toServer, unflushed>>
           /\ \A i \in Ids : /\ known'[i].handle = known[i].handle
                             /\ known'[i].generation = known[i].generation
                             /\ known'[i].state = known[i].state
                             /\ known'[i].read = known[i].read /\ known'[i].write = known[i].write
                             /\ i # id[b] => known'[i] = known[i]
           /\ \/ NativeAnswers(b, "Success", "mapped") \/ NativeAnswers(b, "DeviceLost", "lost")
           /\ \E replies, status : /\ replies = <<>> \/ replies = Replies(b, status)
                                   /\ status \in {"Success", "DeviceLost"}
                                   /\ status = "Success" => NativeAnswers(b, status, "mapped")
                                   /\ status # "Success" => NativeAnswers(b, status, "lost")
                                   /\ toClient' = IF mDisconnected THEN toClient
                                                  ELSE toClient \o replies
  <1>1. CASE AnswerLost(b)
    BY <1>1 DEF AnswerLost, ServerStep
  <1>2. CASE Grant(b)
    <2>1. known \in [Ids -> Entry]
      BY DEF WireTypeOK
    <2>2. PICK newKnown, replies :
            /\ newKnown \in {known, [known EXCEPT ![id[b]].mapWriteState = "Mapped"]}
            /\ replies \in {<<>>, Replies(b, "Success")}
            /\ ServerStep(newKnown, replies)
      <3>1. CASE ~StillKnown(owner[b], b)
        <4>1. ServerStep(known, <<>>)
          BY <1>2, <3>1 DEF Grant
        <4> QED
          BY <4>1
      <3>2. CASE StillKnown(owner[b], b)
        <4>1. ServerStep(IF MapsRead(kind[b]) THEN known
                           ELSE [known EXCEPT ![id[b]].mapWriteState = "Mapped"],
                         Replies(b, "Success"))
          BY <1>2, <3>2 DEF Grant
        <4>2. CASE MapsRead(kind[b])
          BY <4>1, <4>2
        <4>3. CASE ~MapsRead(kind[b])
          BY <4>1, <4>3
        <4> QED
          BY <4>2, <4>3
      <3> QED
        BY <3>1, <3>2
    <2>3. \A i \in Ids : /\ newKnown[i].handle = known[i].handle
                         /\ newKnown[i].generation = known[i].generation
                         /\ newKnown[i].state = known[i].state
                         /\ newKnown[i].read = known[i].read /\ newKnown[i].write = known[i].write
                         /\ i # id[b] => newKnown[i] = known[i]
      BY <2>1, <2>2 DEF Entry
    <2>4. /\ phase[b] = "pending" /\ NativeAnswers(b, "Success", "mapped")
          /\ UNCHANGED <<toServer, unflushed>>
      BY <1>2 DEF Grant
    <2> QED
      BY <2>2, <2>3, <2>4 DEF ServerStep
  <1> QED
    BY <1>1, <1>2

LEMMA DeviceTalk ==
    ASSUME WireTypeOK, TalkInv, NEW b \in Buffers, Grant(b) \/ AnswerLost(b)
    PROVE  TalkInv'
  <1>0. ChannelTypeOK /\ IdInv /\ CommandInv /\ LiveInv /\ KnownInv /\ SerialInv /\ MapCommandInv
        /\ PendingInv /\ ReturnInv
    BY DEF TalkInv
  <1>1. /\ phase[b] = "pending"
        /\ UNCHANGED <<created, id, generation, live, idVars, mDisconnected, mSerial, reqBuffer,
                       reqSerial, answer, knownSize, toServer>>
        /\ \A i \in Ids : /\ known'[i].handle = known[i].handle
                          /\ known'[i].generation = known[i].generation
                          /\ known'[i].state = known[i].state
    BY DeviceEffect DEF clientVars, requestVars
  <1>2. PICK replies, status : /\ replies = <<>> \/ replies = Replies(b, status)
                               /\ status \in {"Success", "DeviceLost"}
                               /\ status = "Success" => NativeAnswers(b, status, "mapped")
                               /\ status # "Success" => NativeAnswers(b, status, "lost")
                               /\ toClient' = IF mDisconnected THEN toClient
                                              ELSE toClient \o replies
    BY DeviceEffect
  <1>3. PICK newPhase \in {"mapped", "lost"} : NativeAnswers(b, status, newPhase)
    BY <1>2
  <1>4. /\ PendingInv' /\ ReturnInv' /\ toClient' \in Seq(ReturnCommands)
        /\ \A r \in Requests : nativeReply'[r] = "None" <=> nativeReply[r] = "None"
        /\ phase'[b] = newPhase /\ \A x \in Buffers : x # b => phase'[x] = phase[x]
    <2>1. status \in Statuses /\ newPhase # "pending"
      BY <1>2, <1>3 DEF Statuses
    <2> QED
      BY <1>0, <1>1, <1>2, <1>3, <2>1, NativeAnswered
  <1>5. \A x \in Buffers : phase[x] = "none" <=> phase'[x] = "none"
    BY <1>1, <1>4
  <1>6. IdInv'
    <2>1. \A x \in Buffers : ~IsCreated(x) => phase'[x] = phase[x]
      BY <1>0, <1>5 DEF IdInv
    <2> QED
      BY <1>0, <1>1, <2>1, IdKept
  <1>7. CommandInv' /\ LiveInv'
    <2>1. \A x \in Buffers : InServer(x) => InServer(x)'
      <3> SUFFICES ASSUME NEW x \in Buffers, InServer(x) PROVE InServer(x)'
        OBVIOUS
      <3>1. id[x] \in Ids /\ IsCreated(x)'
        BY <1>0, <1>1, LiveIds DEF InServer, IsCreated
      <3> QED
        BY <1>1, <3>1 DEF InServer
    <2> QED
      BY <1>0, <1>1, <1>5, <2>1, CommandsKept
  <1>8. KnownInv'
    BY <1>0, <1>1, <1>5, KnownKept
  <1>9. SerialInv'
    <2>1. \A r \in Requests : Waiting(r)' => Waiting(r) /\ live'[reqBuffer[r]]
      BY <1>0, <1>1 DEF Waiting, SerialInv
    <2>2. \A r \in Requests : answer[r] = "None" => nativeReply'[r] = nativeReply[r]
      BY <1>0, <1>4 DEF SerialInv
    <2> QED
      BY <1>0, <1>1, <2>1, <2>2, SerialKept
  <1>10. MapCommandInv'
    BY <1>0, <1>1, <1>4, MapsKept
  <1>11. ChannelTypeOK'
    BY <1>0, <1>1, <1>4 DEF ChannelTypeOK
  <1> QED
    BY <1>4, <1>6, <1>7, <1>8, <1>9, <1>10, <1>11 DEF TalkInv

-----------------------------------------------------------------------------
(* The client's calls.                                                     *)

(* Calls that send commands for a live buffer, or nothing, and make no     *)
(* new request.                                                            *)
LEMMA SentTalk ==
    ASSUME WireTypeOK, TalkInv, NEW b \in Buffers, live[b],
           NEW cmds \in Seq(Commands), Send(cmds), IdInv',
           UNCHANGED <<created, id, generation, phase, known, knownSize, mDisconnected, mSerial,
                       reqBuffer, reqSerial, owner, nativeReply, toClient>>,
           \A x \in Buffers : live'[x] => live[x],
           \A i \in DOMAIN cmds :
               /\ cmds[i].buffer = b /\ cmds[i].id = id[b]
               /\ cmds[i].cmd \notin {"Create", "MapAsync"}
               /\ cmds[i].cmd = "DestroyObject" => ~live'[b] /\ Len(cmds) = 1,
           \A r \in Requests : /\ answer[r] = "None" <=> answer'[r] = "None"
                               /\ Waiting(r)' => Waiting(r) /\ live'[reqBuffer[r]]
    PROVE  TalkInv'
  <1>0. ChannelTypeOK /\ IdInv /\ CommandInv /\ LiveInv /\ KnownInv /\ SerialInv /\ MapCommandInv
        /\ PendingInv /\ ReturnInv
    BY DEF TalkInv
  <1>1. IsCreated(b)
    BY <1>0 DEF IdInv
  <1>2. PendingInv' /\ ReturnInv' /\ toClient' \in Seq(ReturnCommands)
    BY <1>0, PendingKept, ReturnsKept
  <1>3. KnownInv' /\ SerialInv'
    BY <1>0, KnownKept, SerialKept
  <1>4. CASE mDisconnected
    <2>1. toServer' = toServer
      BY <1>4 DEF Send
    <2>2. \A x \in Buffers : InServer(x) => InServer(x)'
      <3>1. id' = id /\ created' = created /\ known' = known
        OBVIOUS
      <3>2. \A x : IsCreated(x)' <=> IsCreated(x)
        BY <3>1 DEF IsCreated
      <3> QED
        BY <3>1, <3>2 DEF InServer
    <2>3. CommandInv' /\ LiveInv'
      BY <1>0, <2>1, <2>2, CommandsKept
    <2>4. MapCommandInv'
      BY <1>0, <2>1, MapsKept
    <2> QED
      BY <1>0, <1>2, <1>3, <2>1, <2>3, <2>4 DEF TalkInv, ChannelTypeOK
  <1>5. CASE ~mDisconnected
    <2>1. toServer' = toServer \o cmds
      BY <1>5 DEF Send
    <2>2. toServer' \in Seq(Commands)
      BY <1>0, <2>1, Grown DEF ChannelTypeOK
    <2>3. CommandInv' /\ LiveInv'
      <3>1. \A i \in DOMAIN cmds :
               /\ cmds[i].buffer = b /\ cmds[i].id = id[b] /\ cmds[i].cmd # "Create"
               /\ cmds[i].cmd = "DestroyObject" => ~live'[b] /\ Len(cmds) = 1
        OBVIOUS
      <3> QED
        BY <1>0, <1>1, <1>5, <2>1, <3>1, CommandsSent
    <2>4. MapCommandInv'
      BY <1>0, <2>1, MapsSent
    <2> QED
      BY <1>2, <1>3, <2>2, <2>3, <2>4 DEF TalkInv, ChannelTypeOK
  <1> QED
    BY <1>4, <1>5

(* What Unmap, Destroy and Release send.                                   *)
LEMMA UnmapSends ==
    ASSUME WireTypeOK, IdInv, NEW b \in Buffers, Unmap(b),
           NEW cmds, cmds = IF WillFlush(b)
                              THEN <<Command("UpdateMappedData", b), Command("Unmap", b)>>
                              ELSE <<Command("Unmap", b)>>
    PROVE  /\ cmds \in Seq(Commands) /\ Send(cmds)
           /\ \A i \in DOMAIN cmds : /\ cmds[i].buffer = b /\ cmds[i].id = id[b]
                                     /\ cmds[i].cmd \in {"UpdateMappedData", "Unmap"}
  <1>1. id[b] \in Ids
    BY LiveIds DEF Unmap
  <1> DEFINE u == Command("UpdateMappedData", b)
             n == Command("Unmap", b)
  <1>2. /\ u \in Commands /\ u.buffer = b /\ u.id = id[b] /\ u.cmd = "UpdateMappedData"
        /\ n \in Commands /\ n.buffer = b /\ n.id = id[b] /\ n.cmd = "Unmap"
    BY <1>1, CommandsMade DEF Command, Names
  <1>3. Send(cmds)
    BY DEF Unmap, WillFlush
  <1>4. cmds = IF WillFlush(b) THEN <<u, n>> ELSE <<n>>
    OBVIOUS
  <1> HIDE DEF u, n
  <1>5. cmds \in Seq(Commands) /\ \A i \in DOMAIN cmds : cmds[i] = u \/ cmds[i] = n
    BY <1>2, <1>4
  <1> QED
    BY <1>2, <1>3, <1>5

LEMMA OneSent ==
    ASSUME WireTypeOK, IdInv, NEW b \in Buffers, live[b],
           NEW name \in Names \ {"Create", "MapAsync"}
    PROVE  /\ <<Command(name, b)>> \in Seq(Commands) /\ Len(<<Command(name, b)>>) = 1
           /\ \A i \in DOMAIN <<Command(name, b)>> :
                 /\ <<Command(name, b)>>[i].buffer = b /\ <<Command(name, b)>>[i].id = id[b]
                 /\ <<Command(name, b)>>[i].cmd = name
  <1>1. id[b] \in Ids
    BY LiveIds
  <1> DEFINE c == Command(name, b)
  <1>2. c \in Commands /\ c.buffer = b /\ c.id = id[b] /\ c.cmd = name
    BY <1>1, CommandsMade DEF Command
  <1> HIDE DEF c
  <1>3. <<c>> \in Seq(Commands) /\ DOMAIN <<c>> = {1} /\ <<c>>[1] = c /\ Len(<<c>>) = 1
    BY <1>2
  <1>4. \A i \in DOMAIN <<c>> : <<c>>[i].buffer = b /\ <<c>>[i].id = id[b] /\ <<c>>[i].cmd = name
    BY <1>2, <1>3
  <1> QED
    BY <1>3, <1>4 DEF c

LEMMA EndTalk ==
    ASSUME WireTypeOK, TalkInv, NEW b \in Buffers, Unmap(b) \/ Destroy(b) \/ Release(b)
    PROVE  TalkInv'
  <1>0. IdInv /\ SerialInv /\ answer \in [Requests -> {"None", "Waiting"} \cup Statuses]
    BY DEF TalkInv, WireTypeOK
  <1>1. CASE Unmap(b)
    <2>1. /\ live[b]
          /\ UNCHANGED <<created, id, generation, live, phase, known, knownSize, mDisconnected,
                         mSerial, reqBuffer, reqSerial, owner, nativeReply, toClient, answer,
                         idVars>>
      BY <1>1 DEF Unmap, serverVars, nativeVars
    <2>10. PICK cmds : cmds = IF WillFlush(b)
                              THEN <<Command("UpdateMappedData", b), Command("Unmap", b)>>
                              ELSE <<Command("Unmap", b)>>
      OBVIOUS
    <2>2. /\ cmds \in Seq(Commands) /\ Send(cmds)
          /\ \A i \in DOMAIN cmds : /\ cmds[i].buffer = b /\ cmds[i].id = id[b]
                                    /\ cmds[i].cmd \in {"UpdateMappedData", "Unmap"}
      BY <1>0, <1>1, <2>10, UnmapSends
    <2>3. \A i \in DOMAIN cmds :
               /\ cmds[i].buffer = b /\ cmds[i].id = id[b]
               /\ cmds[i].cmd \notin {"Create", "MapAsync"}
               /\ cmds[i].cmd = "DestroyObject" => ~live'[b] /\ Len(cmds) = 1
      BY <2>2
    <2>4. \A r \in Requests : /\ answer[r] = "None" <=> answer'[r] = "None"
                              /\ Waiting(r)' => Waiting(r) /\ live'[reqBuffer[r]]
      BY <1>0, <2>1 DEF SerialInv, Waiting
    <2>5. IdInv'
      BY <1>0, <2>1, IdKept
    <2> QED
      BY <2>1, <2>2, <2>3, <2>4, <2>5, SentTalk
  <1>2. CASE Destroy(b)
    <2>1. /\ live[b]
          /\ UNCHANGED <<created, id, generation, live, phase, known, knownSize, mDisconnected,
                         mSerial, reqBuffer, reqSerial, owner, nativeReply, toClient, answer,
                         idVars>>
      BY <1>2 DEF Destroy, serverVars, nativeVars
    <2>10. PICK cmds : cmds = <<Command("Destroy", b)>>
      OBVIOUS
    <2>2. /\ cmds \in Seq(Commands) /\ Send(cmds)
          /\ \A i \in DOMAIN cmds : /\ cmds[i].buffer = b /\ cmds[i].id = id[b]
                                    /\ cmds[i].cmd = "Destroy"
      <3>1. Send(cmds) /\ "Destroy" \in Names \ {"Create", "MapAsync"}
        BY <1>2, <2>10 DEF Destroy, Names
      <3> QED
        BY <1>0, <2>1, <2>10, <3>1, OneSent
    <2>3. \A i \in DOMAIN cmds :
               /\ cmds[i].buffer = b /\ cmds[i].id = id[b]
               /\ cmds[i].cmd \notin {"Create", "MapAsync"}
               /\ cmds[i].cmd = "DestroyObject" => ~live'[b] /\ Len(cmds) = 1
      BY <2>2
    <2>4. \A r \in Requests : /\ answer[r] = "None" <=> answer'[r] = "None"
                              /\ Waiting(r)' => Waiting(r) /\ live'[reqBuffer[r]]
      BY <1>0, <2>1 DEF SerialInv, Waiting
    <2>5. IdInv'
      BY <1>0, <2>1, IdKept
    <2> QED
      BY <2>1, <2>2, <2>3, <2>4, <2>5, SentTalk
  <1>3. CASE Release(b)
    <2>0. live \in [Buffers -> BOOLEAN]
      BY DEF WireTypeOK
    <2>1. /\ live[b] /\ live' = [live EXCEPT ![b] = FALSE]
          /\ UNCHANGED <<created, id, generation, phase, known, knownSize, mDisconnected,
                         mSerial, reqBuffer, reqSerial, owner, nativeReply, toClient>>
          /\ answer' = [r \in Requests |-> IF r \in WaitingOn(b) THEN "Destroyed" ELSE answer[r]]
      BY <1>3 DEF Release, serverVars, nativeVars
    <2>10. PICK cmds : cmds = <<Command("DestroyObject", b)>>
      OBVIOUS
    <2>2. /\ cmds \in Seq(Commands) /\ Send(cmds) /\ Len(cmds) = 1
          /\ \A i \in DOMAIN cmds : /\ cmds[i].buffer = b /\ cmds[i].id = id[b]
                                    /\ cmds[i].cmd = "DestroyObject"
      <3>1. Send(cmds) /\ "DestroyObject" \in Names \ {"Create", "MapAsync"}
        BY <1>3, <2>10 DEF Release, Names
      <3> QED
        BY <1>0, <2>1, <2>10, <3>1, OneSent
    <2>3. ~live'[b] /\ \A x \in Buffers : x # b => live'[x] = live[x]
      BY <2>0, <2>1
    <2>4. \A i \in DOMAIN cmds :
               /\ cmds[i].buffer = b /\ cmds[i].id = id[b]
               /\ cmds[i].cmd \notin {"Create", "MapAsync"}
               /\ cmds[i].cmd = "DestroyObject" => ~live'[b] /\ Len(cmds) = 1
      BY <2>2, <2>3
    <2>5. ASSUME NEW r \in Requests
          PROVE  /\ answer[r] = "None" <=> answer'[r] = "None"
                 /\ Waiting(r)' => Waiting(r) /\ live'[reqBuffer[r]]
      <3>1. answer'[r] = IF r \in WaitingOn(b) THEN "Destroyed" ELSE answer[r]
        BY <2>1
      <3>2. answer[r] = "None" => r \notin WaitingOn(b)
        BY DEF WaitingOn, Waiting
      <3>3. Waiting(r)' => Waiting(r) /\ reqBuffer[r] # b
        BY <3>1 DEF Waiting, WaitingOn
      <3>4. Waiting(r) => live[reqBuffer[r]] /\ reqBuffer[r] \in Buffers
        BY <1>0, WireBounds DEF SerialInv, IsCreated, WireTypeOK, Buffers, Waiting
      <3> QED
        BY <2>3, <3>1, <3>2, <3>3, <3>4
    <2>6. IdInv'
      BY <1>0, <1>3, ReleaseIds
    <2>7. \A x \in Buffers : live'[x] => live[x]
      BY <2>1, <2>3
    <2> QED
      BY <2>1, <2>2, <2>4, <2>5, <2>6, <2>7, SentTalk
  <1> QED
    BY <1>1, <1>2, <1>3

LEMMA MapAsyncEffects ==
    ASSUME WireTypeOK, TalkInv, NEW r \in Requests, NEW b \in Buffers, MapAsync(r, b)
    PROVE  /\ live[b] /\ answer[r] = "None" /\ reqSerial[r] = 0 /\ nativeReply[r] = "None"
           /\ \A x \in Buffers : mSerial[x] < r
           /\ \A q \in Requests : answer[q] = "None" => q >= r
           /\ UNCHANGED <<created, kind, id, generation, live, mMapState, mReadHandle, mWriteHandle,
                          clientStatus, idVars, mDisconnected, toClient, serverVars, nativeVars,
                          wireError, unflushed, commands>>
           /\ reqBuffer'[r] = b
           /\ \A q \in Requests : q # r =>
                 reqBuffer'[q] = reqBuffer[q] /\ answer'[q] = answer[q] /\ reqSerial'[q] = reqSerial[q]
           /\ \/ mDisconnected /\ answer'[r] = "DeviceLost" /\ UNCHANGED <<mSerial, reqSerial, toServer>>
              \/ /\ ~mDisconnected /\ answer'[r] = "Waiting" /\ reqSerial'[r] = mSerial[b] + 1
                 /\ mSerial'[b] = mSerial[b] + 1
                 /\ \A x \in Buffers : x # b => mSerial'[x] = mSerial[x]
                 /\ toServer' = toServer \o <<[cmd |-> "MapAsync", id |-> id[b], buffer |-> b,
                                               serial |-> mSerial[b] + 1, request |-> r]>>
  <1>1. /\ reqBuffer \in [Requests -> 0..MaxBuffers] /\ mSerial \in [Buffers -> 0..MaxRequests]
        /\ reqSerial \in [Requests -> 0..MaxRequests]
        /\ answer \in [Requests -> {"None", "Waiting"} \cup Statuses]
    BY DEF WireTypeOK
  <1>2. live[b] /\ answer[r] = "None" /\ \A q \in 1..(r - 1) : answer[q] # "None"
    BY DEF MapAsync
  <1>3. reqSerial[r] = 0 /\ nativeReply[r] = "None" /\ \A x \in Buffers : mSerial[x] < r
    BY <1>2 DEF TalkInv, SerialInv
  <1>4. \A q \in Requests : answer[q] = "None" => q >= r
    BY <1>2, WireBounds DEF Requests
  <1>5. UNCHANGED <<created, kind, id, generation, live, mMapState, mReadHandle, mWriteHandle,
                    clientStatus, idVars, mDisconnected, toClient, serverVars, nativeVars,
                    wireError, unflushed, commands>>
    BY DEF MapAsync
  <1>6. reqBuffer' = [reqBuffer EXCEPT ![r] = b]
    BY DEF MapAsync
  <1>7. CASE mDisconnected
    <2>1. answer' = [answer EXCEPT ![r] = "DeviceLost"] /\ UNCHANGED <<mSerial, reqSerial, toServer>>
      BY <1>7 DEF MapAsync
    <2> QED
      BY <1>1, <1>2, <1>3, <1>4, <1>5, <1>6, <1>7, <2>1
  <1>8. CASE ~mDisconnected
    <2>1. /\ answer' = [answer EXCEPT ![r] = "Waiting"]
          /\ mSerial' = [mSerial EXCEPT ![b] = mSerial[b] + 1]
          /\ reqSerial' = [reqSerial EXCEPT ![r] = mSerial[b] + 1]
          /\ toServer' = toServer \o <<[cmd |-> "MapAsync", id |-> id[b], buffer |-> b,
                                        serial |-> mSerial[b] + 1, request |-> r]>>
      BY <1>8 DEF MapAsync, NextSerial, Send
    <2>2. /\ answer'[r] = "Waiting" /\ reqSerial'[r] = mSerial[b] + 1
          /\ mSerial'[b] = mSerial[b] + 1 /\ reqBuffer'[r] = b
          /\ \A x \in Buffers : x # b => mSerial'[x] = mSerial[x]
          /\ \A q \in Requests : q # r =>
                reqBuffer'[q] = reqBuffer[q] /\ answer'[q] = answer[q] /\ reqSerial'[q] = reqSerial[q]
      BY <1>1, <1>6, <2>1
    <2> QED
      BY <1>2, <1>3, <1>4, <1>5, <1>8, <2>1, <2>2
  <1> QED
    BY <1>7, <1>8

(* A new request: its serial is a new one.                                 *)
LEMMA MapAsyncSerials ==
    ASSUME WireTypeOK, TalkInv, NEW r \in Requests, NEW b \in Buffers, MapAsync(r, b)
    PROVE  SerialInv'
  <1>0. IdInv /\ SerialInv
    BY DEF TalkInv
  <1>1. /\ live[b] /\ answer[r] = "None" /\ reqSerial[r] = 0 /\ nativeReply[r] = "None"
        /\ \A x \in Buffers : mSerial[x] < r
        /\ \A q \in Requests : answer[q] = "None" => q >= r
        /\ UNCHANGED <<created, live, mDisconnected, nativeReply>>
        /\ reqBuffer'[r] = b
        /\ \A q \in Requests : q # r =>
              reqBuffer'[q] = reqBuffer[q] /\ answer'[q] = answer[q] /\ reqSerial'[q] = reqSerial[q]
        /\ \/ mDisconnected /\ answer'[r] = "DeviceLost" /\ UNCHANGED <<mSerial, reqSerial, toServer>>
           \/ /\ ~mDisconnected /\ answer'[r] = "Waiting" /\ reqSerial'[r] = mSerial[b] + 1
              /\ mSerial'[b] = mSerial[b] + 1
              /\ \A x \in Buffers : x # b => mSerial'[x] = mSerial[x]
    BY MapAsyncEffects DEF nativeVars
  <1>2. IsCreated(b) /\ \A x : IsCreated(x)' <=> IsCreated(x)
    BY <1>0, <1>1 DEF IdInv, IsCreated
  <1>3. /\ \A x \in Buffers : mSerial[x] \in Nat
        /\ \A q \in Requests : q \in Nat /\ reqSerial[q] \in Nat
        /\ \A q \in Requests : answer[q] # "None" => reqBuffer[q] \in Buffers
    <2>1. \A q \in Requests : answer[q] # "None" => reqBuffer[q] \in Buffers
      BY <1>0, WireBounds DEF SerialInv, IsCreated, WireTypeOK, Buffers
    <2> QED
      BY <2>1, WireBounds DEF WireTypeOK, Requests
  <1>4. \A x \in Buffers : mSerial[x] <= mSerial'[x] /\ mSerial'[x] <= r /\ mSerial'[x] \in Nat
    <2> SUFFICES ASSUME NEW x \in Buffers
                 PROVE  mSerial[x] <= mSerial'[x] /\ mSerial'[x] <= r /\ mSerial'[x] \in Nat
      OBVIOUS
    <2>1. mSerial'[x] = mSerial[x] \/ mSerial'[x] = mSerial[x] + 1
      BY <1>1
    <2>2. mSerial[x] < r
      BY <1>1
    <2> QED
      BY <1>3, <2>1, <2>2
  <1>5. ASSUME NEW q \in Requests
        PROVE  /\ answer'[q] = "None" => nativeReply'[q] = "None" /\ reqSerial'[q] = 0
                                         /\ \A x \in Buffers : mSerial'[x] < q
               /\ answer'[q] # "None" => IsCreated(reqBuffer'[q])
                                         /\ reqSerial'[q] <= mSerial'[reqBuffer'[q]]
               /\ answer'[q] = "Waiting" => live'[reqBuffer'[q]] /\ ~mDisconnected'
    <2>1. CASE q = r
      BY <1>1, <1>2, <1>3, <2>1
    <2>2. CASE q # r
      <3>1. /\ answer[q] = "None" => nativeReply[q] = "None" /\ reqSerial[q] = 0
            /\ answer[q] # "None" => IsCreated(reqBuffer[q]) /\ reqSerial[q] <= mSerial[reqBuffer[q]]
            /\ answer[q] = "Waiting" => live[reqBuffer[q]] /\ ~mDisconnected
        BY <1>0 DEF SerialInv, Waiting
      <3>2. answer[q] = "None" => \A x \in Buffers : mSerial'[x] < q
        BY <1>1, <1>3, <1>4, <2>2
      <3>3. answer[q] # "None" => reqSerial[q] <= mSerial'[reqBuffer[q]]
        BY <1>3, <1>4, <3>1
      <3> QED
        BY <1>1, <2>2, <3>1, <3>2, <3>3
    <2> QED
      BY <2>1, <2>2
  <1>6. ASSUME NEW q \in Requests, q # r, reqBuffer'[r] = reqBuffer'[q], reqSerial'[r] = reqSerial'[q]
        PROVE  reqSerial'[r] = 0
    <2>1. answer[q] # "None" => reqSerial[q] <= mSerial[reqBuffer[q]]
      BY <1>0 DEF SerialInv
    <2>2. answer[q] = "None" => reqSerial[q] = 0
      BY <1>0 DEF SerialInv
    <2> QED
      BY <1>1, <1>3, <1>6, <2>1, <2>2
  <1>7. ASSUME NEW p \in Requests, NEW q \in Requests, p # q, reqBuffer'[p] = reqBuffer'[q],
               reqSerial'[p] = reqSerial'[q]
        PROVE  reqSerial'[p] = 0
    <2>1. CASE p = r \/ q = r
      BY <1>6, <1>7, <2>1
    <2>2. CASE p # r /\ q # r
      BY <1>0, <1>1, <1>7, <2>2 DEF SerialInv
    <2> QED
      BY <2>1, <2>2
  <1>8. \A q \in Requests :
           /\ answer'[q] = "None" => nativeReply'[q] = "None" /\ reqSerial'[q] = 0
                                     /\ \A x \in Buffers : mSerial'[x] < q
           /\ answer'[q] # "None" => reqBuffer'[q] \in 1..created'
                                     /\ reqSerial'[q] <= mSerial'[reqBuffer'[q]]
           /\ Waiting(q)' => live'[reqBuffer'[q]] /\ ~mDisconnected'
    BY <1>1, <1>5 DEF IsCreated, Waiting
  <1> QED
    BY <1>7, <1>8 DEF SerialInv, IsCreated

LEMMA MapAsyncTalk ==
    ASSUME WireTypeOK, TalkInv, NEW r \in Requests, NEW b \in Buffers, MapAsync(r, b)
    PROVE  TalkInv'
  <1>0. ChannelTypeOK /\ IdInv /\ CommandInv /\ LiveInv /\ KnownInv /\ SerialInv /\ MapCommandInv
        /\ PendingInv /\ ReturnInv
    BY DEF TalkInv
  <1>1. /\ live[b] /\ reqSerial[r] = 0 /\ nativeReply[r] = "None"
        /\ UNCHANGED <<created, id, generation, live, idVars, mDisconnected, toClient, known,
                       knownSize, phase, owner, nativeReply>>
        /\ reqBuffer'[r] = b
        /\ \A q \in Requests : q # r => reqBuffer'[q] = reqBuffer[q] /\ reqSerial'[q] = reqSerial[q]
        /\ \/ mDisconnected /\ UNCHANGED <<reqSerial, toServer>>
           \/ /\ ~mDisconnected /\ reqSerial'[r] = mSerial[b] + 1
              /\ toServer' = toServer \o <<[cmd |-> "MapAsync", id |-> id[b], buffer |-> b,
                                            serial |-> mSerial[b] + 1, request |-> r]>>
    BY MapAsyncEffects DEF nativeVars, serverVars
  <1>2. \A q \in Requests :
           reqSerial[q] > 0 => reqBuffer'[q] = reqBuffer[q] /\ reqSerial'[q] = reqSerial[q]
    BY <1>1
  <1>3. PendingInv' /\ ReturnInv' /\ toClient' \in Seq(ReturnCommands) /\ KnownInv'
    BY <1>0, <1>1, <1>2, PendingKept, ReturnsKept, KnownKept
  <1>4. IdInv'
    BY <1>0, <1>1, IdKept
  <1>5. SerialInv'
    BY MapAsyncSerials
  <1>6. \A j \in DOMAIN toServer : toServer[j].cmd = "MapAsync" => toServer[j].request \in Requests
    BY <1>0, CommandTypes, LenProperties DEF ChannelTypeOK
  <1>7. CASE mDisconnected
    <2>1. toServer' = toServer /\ reqSerial' = reqSerial
      BY <1>1, <1>7
    <2>2. CommandInv' /\ LiveInv'
      <3>1. \A x \in Buffers : InServer(x) => InServer(x)'
        BY <1>1 DEF InServer, IsCreated
      <3> QED
        BY <1>0, <1>1, <2>1, <3>1, CommandsKept
    <2>3. MapCommandInv'
      BY <1>0, <1>1, <1>2, <1>6, <2>1 DEF MapCommandInv
    <2> QED
      BY <1>0, <1>3, <1>4, <1>5, <2>1, <2>2, <2>3 DEF TalkInv, ChannelTypeOK
  <1>8. CASE ~mDisconnected
    <2>1. PICK c : c = [cmd |-> "MapAsync", id |-> id[b], buffer |-> b,
                        serial |-> mSerial[b] + 1, request |-> r]
      OBVIOUS
    <2>2. /\ toServer' = toServer \o <<c>> /\ reqSerial'[r] = mSerial[b] + 1
          /\ mSerial[b] \in Nat /\ id[b] \in Ids /\ IsCreated(b)
      <3>1. mSerial[b] \in Nat
        BY WireBounds DEF WireTypeOK
      <3>2. id[b] \in Ids /\ IsCreated(b)
        BY <1>0, <1>1, LiveIds
      <3> QED
        BY <1>1, <1>8, <2>1, <3>1, <3>2
    <2>3. /\ c \in Commands /\ c.cmd = "MapAsync" /\ c.buffer = b /\ c.id = id[b] /\ c.request = r
      <3>1. mSerial[b] + 1 \in Nat
        BY <2>2
      <3>2. [cmd |-> "MapAsync", id |-> id[b], buffer |-> b, serial |-> mSerial[b] + 1,
             request |-> r] \in Commands
        BY <2>2, <3>1, CommandsMade
      <3> QED
        BY <2>1, <3>2
    <2>4. <<c>> \in Seq(Commands) /\ DOMAIN <<c>> = {1} /\ <<c>>[1] = c /\ Len(<<c>>) = 1
      BY <2>3
    <2>5. CommandInv' /\ LiveInv'
      <3>1. \A i \in DOMAIN <<c>> :
               /\ <<c>>[i].buffer = b /\ <<c>>[i].id = id[b] /\ <<c>>[i].cmd # "Create"
               /\ <<c>>[i].cmd = "DestroyObject" => ~live'[b] /\ Len(<<c>>) = 1
        BY <2>3, <2>4
      <3>2. PICK cmds : cmds = <<c>>
        OBVIOUS
      <3> QED
        BY <1>0, <1>1, <1>8, <2>2, <2>4, <3>1, <3>2, CommandsSent
    <2>6. /\ toServer' \in Seq(Commands)
          /\ \A j \in DOMAIN toServer : toServer'[j] = toServer[j]
          /\ DOMAIN toServer' = 1..(Len(toServer) + 1) /\ DOMAIN toServer = 1..Len(toServer)
          /\ Len(toServer) \in Nat /\ toServer'[Len(toServer) + 1] = c
      BY <1>0, <2>2, <2>4, Grown, LenProperties DEF ChannelTypeOK
    <2>7. MapCommandInv'
      <3> SUFFICES ASSUME NEW j \in DOMAIN toServer', toServer'[j].cmd = "MapAsync",
                          NEW q, q = toServer'[j].request
                   PROVE  /\ toServer'[j].buffer = reqBuffer'[q] /\ reqSerial'[q] > 0
                          /\ nativeReply'[q] = "None"
                          /\ \A k \in 1..(j - 1) : toServer'[k].cmd = "MapAsync"
                                => toServer'[k].request # q
        BY DEF MapCommandInv
      <3>1. \A k \in DOMAIN toServer : toServer[k].cmd = "MapAsync" => toServer[k].request # r
        BY <1>0, <1>1, <1>6 DEF MapCommandInv
      <3>2. \A k \in 1..(j - 1) : k \in DOMAIN toServer /\ toServer'[k] = toServer[k]
        BY <2>6
      <3>3. CASE j \in DOMAIN toServer
        <4>1. toServer'[j] = toServer[j] /\ q \in Requests
          BY <1>6, <2>6, <3>3
        <4>2. /\ toServer[j].buffer = reqBuffer[q] /\ reqSerial[q] > 0 /\ nativeReply[q] = "None"
              /\ \A k \in 1..(j - 1) : toServer[k].cmd = "MapAsync" => toServer[k].request # q
          BY <1>0, <3>3, <4>1 DEF MapCommandInv
        <4> QED
          BY <1>1, <1>2, <3>2, <4>1, <4>2
      <3>4. CASE j \notin DOMAIN toServer
        <4>1. toServer'[j] = c
          BY <2>6, <3>4
        <4> QED
          BY <1>1, <2>2, <2>3, <3>1, <3>2, <4>1
      <3> QED
        BY <3>3, <3>4
    <2> QED
      BY <1>3, <1>4, <1>5, <2>5, <2>6, <2>7 DEF TalkInv, ChannelTypeOK
  <1> QED
    BY <1>7, <1>8

LEMMA CreateTalk ==
    ASSUME WireTypeOK, TalkInv, NEW k \in Kinds, CreateBuffer(k)
    PROVE  TalkInv'
  <1>0. ChannelTypeOK /\ IdInv /\ CommandInv /\ LiveInv /\ KnownInv /\ SerialInv /\ MapCommandInv
        /\ PendingInv /\ ReturnInv
    BY DEF TalkInv
  <1>1. CommandInv' /\ LiveInv' /\ toServer' \in Seq(Commands) /\ IdInv'
    BY <1>0, CreateCommands, CreateIds
  <1>2. PICK b : b = created + 1
    OBVIOUS
  <1>3. /\ created' = b /\ live' = [live EXCEPT ![b] = TRUE]
        /\ id' = [id EXCEPT ![b] = NewId]
        /\ generation' = [generation EXCEPT ![b] = NewGeneration(NewId)]
        /\ UNCHANGED <<mSerial, reqBuffer, reqSerial, answer, mDisconnected, toClient, known,
                       knownSize, phase, owner, nativeReply>>
    BY <1>2 DEF CreateBuffer, NewId, requestVars, serverVars, nativeVars
  <1>4. /\ id \in [Buffers -> 0..MaxBuffers] /\ generation \in [Buffers -> 0..MaxGeneration]
        /\ live \in [Buffers -> BOOLEAN] /\ created \in Nat
    BY WireBounds DEF WireTypeOK
  <1>5. /\ \A x : IsCreated(x) => IsCreated(x)' /\ x # b
        /\ \A x \in Buffers : x # b =>
              id'[x] = id[x] /\ generation'[x] = generation[x] /\ live'[x] = live[x]
        /\ \A x : IsCreated(x) => x \in Buffers
    <2>1. \A x : IsCreated(x) => IsCreated(x)' /\ x # b
      BY <1>2, <1>3, <1>4 DEF IsCreated
    <2>2. \A x : IsCreated(x) => x \in Buffers
      BY WireBounds DEF IsCreated, Buffers, WireTypeOK
    <2> QED
      BY <1>3, <1>4, <2>1, <2>2
  <1>6. KnownInv'
    <2> SUFFICES ASSUME NEW i \in Ids, known[i].state = "Allocated", NEW x, x = known[i].handle
                 PROVE  /\ i < knownSize /\ IsCreated(x)' /\ id'[x] = i
                        /\ known[i].generation = generation'[x] /\ phase[x] # "none"
      BY <1>3 DEF KnownInv, IsCreated
    <2>1. /\ i < knownSize /\ IsCreated(x) /\ id[x] = i
          /\ known[i].generation = generation[x] /\ phase[x] # "none"
      BY <1>0 DEF KnownInv
    <2> QED
      BY <1>5, <2>1
  <1>7. SerialInv'
    <2>1. ASSUME NEW r \in Requests
          PROVE  /\ answer[r] = "None" => nativeReply[r] = "None" /\ reqSerial[r] = 0
                                          /\ \A x \in Buffers : mSerial[x] < r
                 /\ answer[r] # "None" => IsCreated(reqBuffer[r])'
                                          /\ reqSerial[r] <= mSerial[reqBuffer[r]]
                 /\ Waiting(r) => live'[reqBuffer[r]] /\ ~mDisconnected
      <3>1. answer[r] # "None" => IsCreated(reqBuffer[r])
        BY <1>0 DEF SerialInv
      <3>2. answer[r] # "None" => IsCreated(reqBuffer[r])'
        BY <1>3, <1>5, <3>1 DEF IsCreated
      <3>3. Waiting(r) => live'[reqBuffer[r]]
        BY <1>0, <1>5, <3>1 DEF SerialInv, Waiting
      <3> QED
        BY <1>0, <3>2, <3>3 DEF SerialInv
    <2>2. \A r, q \in Requests :
             r # q /\ reqBuffer[r] = reqBuffer[q] /\ reqSerial[r] = reqSerial[q] => reqSerial[r] = 0
      BY <1>0 DEF SerialInv
    <2> QED
      BY <1>3, <2>1, <2>2 DEF SerialInv, IsCreated, Waiting
  <1>8. MapCommandInv'
    <2>1. CASE mDisconnected
      <3>1. toServer' = toServer
        BY <2>1 DEF CreateBuffer, Send
      <3> QED
        BY <1>0, <1>3, <3>1, MapsKept
    <2>2. CASE ~mDisconnected
      <3>1. PICK c : c = [cmd |-> "Create", id |-> NewId, generation |-> NewGeneration(NewId),
                          buffer |-> b]
        OBVIOUS
      <3>2. toServer' = toServer \o <<c>>
        BY <1>2, <2>2, <3>1 DEF CreateBuffer, Send, NewId
      <3>3. c \in Commands /\ c.cmd = "Create"
        <4>1. /\ b \in Buffers /\ NewId \in Ids /\ NewGeneration(NewId) \in 0..MaxGeneration
          BY <1>0, <1>2, NewIdTypes DEF CreateBuffer
        <4> QED
          BY <3>1, <4>1, CommandsMade
      <3>4. PICK cmds : cmds = <<c>>
        OBVIOUS
      <3>5. cmds \in Seq(Commands) /\ \A i \in DOMAIN cmds : cmds[i].cmd # "MapAsync"
        BY <3>3, <3>4
      <3> QED
        BY <1>0, <1>3, <3>2, <3>4, <3>5, MapsSent
    <2> QED
      BY <2>1, <2>2
  <1>9. PendingInv' /\ ReturnInv' /\ toClient' \in Seq(ReturnCommands)
    <2>1. \A x \in Buffers : IsCreated(x) => id'[x] = id[x] /\ generation'[x] = generation[x]
      BY <1>5
    <2> QED
      BY <1>0, <1>3, <2>1, PendingKept, ReturnsKept
  <1> QED
    BY <1>1, <1>6, <1>7, <1>8, <1>9 DEF TalkInv, ChannelTypeOK

LEMMA DisconnectTalk ==
    ASSUME WireTypeOK, TalkInv, Disconnect
    PROVE  TalkInv'
  <1>0. ChannelTypeOK /\ IdInv /\ CommandInv /\ LiveInv /\ KnownInv /\ SerialInv /\ MapCommandInv
        /\ PendingInv /\ ReturnInv
    BY DEF TalkInv
  <1>1. /\ mDisconnected' /\ toServer' = <<>> /\ toClient' = <<>>
        /\ answer' = [r \in Requests |-> IF Waiting(r) THEN "DeviceLost" ELSE answer[r]]
        /\ UNCHANGED <<created, id, generation, live, idVars, mSerial, reqBuffer, reqSerial, known,
                       knownSize, phase, owner, nativeReply>>
    BY DEF Disconnect, clientVars, serverVars, nativeVars
  <1>2. ChannelTypeOK' /\ CommandInv' /\ LiveInv' /\ MapCommandInv' /\ ReturnInv'
    <2>1. toServer' \in Seq(Commands) /\ toClient' \in Seq(ReturnCommands)
          /\ DOMAIN toServer' = {} /\ DOMAIN toClient' = {}
      BY <1>1
    <2> QED
      BY <1>1, <2>1, EachInOrder DEF ChannelTypeOK, LiveInv, MapCommandInv, ReturnInv
  <1>3. IdInv' /\ KnownInv' /\ PendingInv'
    BY <1>0, <1>1, IdKept, KnownKept, PendingKept
  <1>4. SerialInv'
    <2>1. \A r \in Requests : /\ answer[r] = "None" <=> answer'[r] = "None"
                              /\ ~Waiting(r)'
      BY <1>1 DEF Waiting
    <2> QED
      BY <1>0, <1>1, <2>1, SerialKept
  <1> QED
    BY <1>2, <1>3, <1>4 DEF TalkInv

(* The request that an answer is for is the one the client finds.          *)
LEMMA AnswerFound ==
    ASSUME WireTypeOK, TalkInv, toClient # <<>>, NEW m, m = Head(toClient), NEW b, b = Target(m),
           NEW r \in WaitingOn(b), b # 0, reqSerial[r] = m.serial
    PROVE  /\ r = m.request /\ b \in Buffers /\ live[b] /\ reqBuffer[r] = b /\ r \in Requests
           /\ answer[r] = "Waiting" /\ m \in ReturnCommands
           /\ m.status = "Success" => nativeReply[r] = "Success"
  <1>0. ChannelTypeOK /\ IdInv /\ SerialInv /\ ReturnInv
    BY DEF TalkInv
  <1>1. m = toClient[1] /\ 1 \in DOMAIN toClient /\ m \in ReturnCommands
    BY <1>0, Shrunk, LenProperties DEF ChannelTypeOK
  <1>2. m.request \in Requests /\ m.id \in Ids
    BY <1>1 DEF ReturnCommands
  <1>3. PICK q : q = m.request
    OBVIOUS
  <1>4. /\ reqSerial[q] > 0 /\ m.serial = reqSerial[q]
        /\ m.id = id[reqBuffer[q]] /\ m.generation = generation[reqBuffer[q]]
        /\ m.status = "Success" => nativeReply[q] = "Success"
    BY <1>0, <1>1, <1>3 DEF ReturnInv
  <1>5. b = objectAt[m.id] /\ generationAt[m.id] = m.generation
    BY DEF Target
  <1>6. live[b] /\ id[b] = m.id
    BY <1>0, <1>2, <1>5 DEF IdInv
  <1>7. b \in Buffers
    BY <1>2, <1>5, WireBounds DEF WireTypeOK, Buffers
  <1>8. IsCreated(b) /\ generation[b] = m.generation
    BY <1>0, <1>5, <1>6, <1>7 DEF IdInv
  <1>9. IsCreated(reqBuffer[q]) /\ reqBuffer[q] \in Buffers
    <2>1. answer[q] # "None"
      BY <1>0, <1>2, <1>3, <1>4 DEF SerialInv
    <2>2. IsCreated(reqBuffer[q])
      BY <1>0, <1>2, <1>3, <2>1 DEF SerialInv
    <2> QED
      BY <2>2, WireBounds DEF IsCreated, WireTypeOK, Buffers
  <1>10. reqBuffer[q] = b
    BY <1>0, <1>4, <1>6, <1>7, <1>8, <1>9, SameBuffer
  <1>11. r \in Requests /\ reqBuffer[r] = b /\ answer[r] = "Waiting"
    BY DEF WaitingOn, Waiting
  <1>12. r = q
    BY <1>0, <1>2, <1>3, <1>4, <1>10, <1>11 DEF SerialInv
  <1> QED
    BY <1>1, <1>3, <1>4, <1>6, <1>7, <1>11, <1>12

(* An answer, a lost one or a stutter changes nothing the others rely on.  *)
LEMMA AnswerTalk ==
    ASSUME WireTypeOK, TalkInv,
           toClient' = toClient \/ (toClient # <<>> /\ toClient' = Tail(toClient)),
           UNCHANGED <<created, id, generation, live, idVars, mDisconnected, mSerial, reqBuffer,
                       reqSerial, toServer, known, knownSize, phase, owner, nativeReply>>,
           \A r \in Requests : answer'[r] = answer[r] \/ (Waiting(r) /\ answer'[r] \in Statuses)
    PROVE  TalkInv'
  <1>0. ChannelTypeOK /\ IdInv /\ CommandInv /\ LiveInv /\ KnownInv /\ SerialInv /\ MapCommandInv
        /\ PendingInv /\ ReturnInv
    BY DEF TalkInv
  <1>1. IdInv' /\ KnownInv' /\ PendingInv'
    BY <1>0, IdKept, KnownKept, PendingKept
  <1>2. ReturnInv' /\ toClient' \in Seq(ReturnCommands)
    BY <1>0, ReturnsKept
  <1>3. SerialInv'
    <2>1. \A r \in Requests : /\ answer[r] = "None" <=> answer'[r] = "None"
                              /\ Waiting(r)' => Waiting(r)
      BY DEF Waiting, Statuses
    <2>2. \A r \in Requests : Waiting(r)' => live'[reqBuffer[r]]
      BY <1>0, <2>1 DEF SerialInv
    <2> QED
      BY <1>0, <2>1, <2>2, SerialKept
  <1>4. CommandInv' /\ LiveInv'
    <2>1. \A x : InServer(x)' <=> InServer(x)
      <3>1. created' = created /\ id' = id /\ known' = known
        OBVIOUS
      <3> QED
        BY <3>1 DEF InServer, IsCreated
    <2> QED
      BY <1>0, <2>1, CommandsKept
  <1>5. MapCommandInv'
    BY <1>0, MapsKept
  <1> QED
    BY <1>0, <1>1, <1>2, <1>3, <1>4, <1>5 DEF TalkInv, ChannelTypeOK

LEMMA CallbackEffect ==
    ASSUME WireTypeOK, TalkInv, OnMapAsyncCallback
    PROVE  /\ ~mDisconnected /\ toClient # <<>> /\ toClient' = Tail(toClient)
           /\ UNCHANGED <<created, kind, id, generation, live, mReadHandle, mWriteHandle, mSerial,
                          reqBuffer, reqSerial, idVars, mDisconnected, toServer, serverVars,
                          nativeVars, commands>>
           /\ \/ UNCHANGED <<answer, clientStatus, mMapState, unflushed>>
              \/ \E r \in Requests, b \in Buffers, reply \in Statuses :
                    /\ AnswerRequest(r, b, reply) /\ live[b] /\ reqBuffer[r] = b
                    /\ answer[r] = "Waiting" /\ r = Head(toClient).request
                    /\ reply = Head(toClient).status
                    /\ reply = "Success" => nativeReply[r] = "Success"
  <1>1. ~mDisconnected /\ toClient # <<>> /\ toClient' = Tail(toClient)
    BY DEF OnMapAsyncCallback
  <1>2. PICK m : m = Head(toClient)
    OBVIOUS
  <1>3. PICK b : b = Target(m)
    OBVIOUS
  <1> DEFINE requests == {r \in WaitingOn(b) : reqSerial[r] = m.serial}
  <1>4. \/ UNCHANGED <<clientVars, requestVars, idVars, mDisconnected, toServer,
                       serverVars, nativeVars, wireError, unflushed, commands>>
        \/ ClientFails
        \/ b # 0 /\ \E r \in requests : AnswerRequest(r, b, m.status)
    BY <1>2, <1>3 DEF OnMapAsyncCallback
  <1>5. CASE UNCHANGED <<clientVars, requestVars, idVars, mDisconnected, toServer,
                         serverVars, nativeVars, wireError, unflushed, commands>>
    BY <1>1, <1>5 DEF clientVars, requestVars
  <1>6. CASE ClientFails
    BY <1>1, <1>6 DEF ClientFails, clientVars, requestVars
  <1>7. CASE b # 0 /\ \E r \in requests : AnswerRequest(r, b, m.status)
    <2>1. PICK r \in WaitingOn(b) : reqSerial[r] = m.serial /\ AnswerRequest(r, b, m.status)
      BY <1>7
    <2>2. /\ r = m.request /\ b \in Buffers /\ live[b] /\ reqBuffer[r] = b /\ r \in Requests
          /\ answer[r] = "Waiting" /\ m \in ReturnCommands
          /\ m.status = "Success" => nativeReply[r] = "Success"
      BY <1>1, <1>2, <1>3, <1>7, <2>1, AnswerFound
    <2>3. m.status \in Statuses
      BY <2>2 DEF ReturnCommands
    <2>4. UNCHANGED <<created, kind, id, generation, live, mReadHandle, mWriteHandle, mSerial,
                      reqBuffer, reqSerial, idVars, mDisconnected, toServer, serverVars,
                      nativeVars, commands>>
      BY <2>1 DEF AnswerRequest
    <2>5. \E q \in Requests, x \in Buffers, reply \in Statuses :
                    /\ AnswerRequest(q, x, reply) /\ live[x] /\ reqBuffer[q] = x
                    /\ answer[q] = "Waiting" /\ q = Head(toClient).request
                    /\ reply = Head(toClient).status
                    /\ reply = "Success" => nativeReply[q] = "Success"
      BY <1>2, <2>1, <2>2, <2>3
    <2> QED
      BY <1>1, <2>4, <2>5
  <1> QED
    BY <1>4, <1>5, <1>6, <1>7

(* What an answer does to the request.                                     *)
LEMMA AnswerGiven ==
    ASSUME WireTypeOK, NEW r \in Requests, NEW b \in Buffers, NEW reply \in Statuses,
           AnswerRequest(r, b, reply)
    PROVE  /\ answer'[r] \in Statuses
           /\ answer'[r] = "Success" => reply = "Success" /\ clientStatus[r] = "Success"
           /\ \A q \in Requests : q # r => answer'[q] = answer[q]
  <1>1. answer \in [Requests -> {"None", "Waiting"} \cup Statuses]
        /\ clientStatus[r] \in Statuses
    BY DEF WireTypeOK, Statuses
  <1>2. PICK a : /\ a = "DeviceLost" \/ a = FinalStatus(r, reply)
                 /\ answer' = [answer EXCEPT ![r] = a]
    BY DEF AnswerRequest
  <1>3. a \in Statuses /\ (a = "Success" => reply = "Success" /\ clientStatus[r] = "Success")
    BY <1>1, <1>2 DEF FinalStatus, Statuses
  <1> QED
    BY <1>1, <1>2, <1>3

LEMMA CallbackTalk ==
    ASSUME WireTypeOK, TalkInv, SuccessIsGranted, OnMapAsyncCallback
    PROVE  TalkInv' /\ SuccessIsGranted'
  <1>1. /\ toClient # <<>> /\ toClient' = Tail(toClient)
        /\ UNCHANGED <<created, id, generation, live, idVars, mDisconnected, mSerial, reqBuffer,
                       reqSerial, toServer, known, knownSize, phase, owner, nativeReply>>
    BY CallbackEffect DEF serverVars, nativeVars
  <1>2. ASSUME NEW q \in Requests
        PROVE  /\ answer'[q] = answer[q] \/ (Waiting(q) /\ answer'[q] \in Statuses)
               /\ answer'[q] = "Success" => nativeReply[q] = "Success"
    <2>1. CASE answer' = answer
      BY <2>1 DEF SuccessIsGranted
    <2>2. ASSUME NEW r \in Requests, NEW b \in Buffers, NEW reply \in Statuses,
                 AnswerRequest(r, b, reply), answer[r] = "Waiting",
                 reply = "Success" => nativeReply[r] = "Success"
          PROVE  /\ answer'[q] = answer[q] \/ (Waiting(q) /\ answer'[q] \in Statuses)
                 /\ answer'[q] = "Success" => nativeReply[q] = "Success"
      BY <2>2, AnswerGiven DEF SuccessIsGranted, Waiting
    <2> QED
      BY <2>1, <2>2, CallbackEffect
  <1>3. TalkInv'
    BY <1>1, <1>2, AnswerTalk
  <1> QED
    BY <1>1, <1>2, <1>3 DEF SuccessIsGranted

(* A request that was granted stays granted.                               *)
LEMMA GrantsStay ==
    ASSUME WireTypeOK, TalkInv, ServerHandles \/ \E b \in Buffers : Grant(b) \/ AnswerLost(b)
    PROVE  /\ answer' = answer
           /\ \A r \in Requests : nativeReply[r] = "Success" => nativeReply'[r] = "Success"
  <1>0. PendingInv /\ MapCommandInv /\ ChannelTypeOK /\ CommandInv /\ IdInv
    BY DEF TalkInv
  <1>1. ASSUME NEW b \in Buffers, NEW status \in Statuses, NEW newPhase,
               NativeAnswers(b, status, newPhase)
        PROVE  \A r \in Requests : nativeReply[r] = "Success" => nativeReply'[r] = "Success"
    <2>1. phase[b] = "pending" => owner[b] \in Requests /\ nativeReply[owner[b]] = "Waiting"
      BY <1>0 DEF PendingInv
    <2>2. nativeReply \in [Requests -> {"None", "Waiting"} \cup Statuses]
      BY DEF WireTypeOK
    <2> QED
      BY <1>1, <2>1, <2>2 DEF NativeAnswers
  <1>2. CASE ~Running' /\ ServerHandles
    <2>1. ServerFails \/ UNCHANGED wireError
      BY <1>2 DEF ServerHandles, DoDeviceCreateBuffer, DoBufferMapAsync, DoBufferUpdateMappedData,
                  DoBufferUnmap, DoBufferDestroy, DoDestroyObject
    <2>2. Running
      BY <1>2 DEF ServerHandles, DoDeviceCreateBuffer, DoBufferMapAsync, DoBufferUpdateMappedData,
                  DoBufferUnmap, DoBufferDestroy, DoDestroyObject, Receive
    <2>3. ServerFails
      BY <1>2, <2>1, <2>2 DEF Running
    <2> QED
      BY <2>3 DEF ServerFails, requestVars, nativeVars
  <1>3. PICK h : h = Head(toServer)
    OBVIOUS
  <1>4. CASE DoBufferUnmap /\ Running'
    <2>1. h.buffer \in Buffers
      BY <1>0, <1>3, <1>4, FirstCommand DEF DoBufferUnmap
    <2>2. \/ NativeAnswers(h.buffer, "Unmapped", "unmapped") \/ nativeReply' = nativeReply
      BY <1>3, <1>4, UnmapEffect
    <2>3. answer' = answer
      BY <1>3, <1>4, UnmapEffect DEF requestVars
    <2> QED
      BY <1>1, <2>1, <2>2, <2>3 DEF Statuses
  <1>5. CASE DoBufferDestroy /\ Running'
    <2>1. h.buffer \in Buffers
      BY <1>0, <1>3, <1>5, FirstCommand DEF DoBufferDestroy
    <2>2. \/ NativeAnswers(h.buffer, CallbackStatus("Destroyed"), "gone")
          \/ nativeReply' = nativeReply
      BY <1>3, <1>5, DestroyEffect
    <2>3. answer' = answer
      BY <1>3, <1>5, DestroyEffect DEF requestVars
    <2> QED
      BY <1>1, <2>1, <2>2, <2>3, DestroyStatus
  <1>6. CASE DoDestroyObject /\ Running'
    BY <1>3, <1>6, DestroyObjectEffect DEF requestVars
  <1>7. CASE DoBufferUpdateMappedData /\ Running'
    BY <1>3, <1>7, UpdateEffect DEF requestVars
  <1>8. CASE DoDeviceCreateBuffer /\ Running'
    BY <1>3, <1>8, CreateEffect DEF requestVars
  <1>9. CASE DoBufferMapAsync /\ Running'
    <2>1. /\ h.cmd = "MapAsync" /\ h = toServer[1] /\ 1 \in DOMAIN toServer /\ h \in Commands
      BY <1>0, <1>3, <1>9, FirstCommand DEF DoBufferMapAsync
    <2>2. h.request \in Requests /\ nativeReply[h.request] = "None"
      BY <1>0, <2>1, CommandTypes DEF MapCommandInv
    <2>3. answer' = answer
      BY <1>3, <1>9, MapAsyncEffect DEF requestVars
    <2>4. \/ nativeReply' = nativeReply
          \/ nativeReply' = [nativeReply EXCEPT ![h.request] = "Waiting"]
      BY <1>3, <1>9, MapAsyncEffect
    <2>5. nativeReply \in [Requests -> {"None", "Waiting"} \cup Statuses]
      BY DEF WireTypeOK
    <2> QED
      BY <2>2, <2>3, <2>4, <2>5
  <1>10. ASSUME NEW b \in Buffers, Grant(b) \/ AnswerLost(b)
         PROVE  /\ answer' = answer
                /\ \A r \in Requests : nativeReply[r] = "Success" => nativeReply'[r] = "Success"
    <2>1. /\ answer' = answer
          /\ NativeAnswers(b, "Success", "mapped") \/ NativeAnswers(b, "DeviceLost", "lost")
      BY <1>10, DeviceEffect DEF requestVars
    <2> QED
      BY <1>1, <2>1 DEF Statuses
  <1> QED
    BY <1>2, <1>4, <1>5, <1>6, <1>7, <1>8, <1>9, <1>10 DEF ServerHandles

-----------------------------------------------------------------------------
(* Success is granted.                                                     *)

LEMMA GrantInit == Init => GrantInv
  <1> SUFFICES ASSUME Init PROVE GrantInv
    OBVIOUS
  <1>1. WireTypeOK
    BY WireTypeInit
  <1>2. SuccessIsGranted
    BY DEF Init, SuccessIsGranted
  <1>3. toServer = <<>> /\ toClient = <<>> /\ DOMAIN toServer = {} /\ DOMAIN toClient = {}
    BY DEF Init
  <1>4. ChannelTypeOK /\ CommandInv /\ MapCommandInv /\ ReturnInv
    BY <1>3 DEF ChannelTypeOK, CommandInv, MapCommandInv, ReturnInv
  <1>5. created = 0 /\ \A x : ~IsCreated(x)
    BY DEF Init, IsCreated
  <1>6. IdInv
    <2>1. mCurrentId <= created + 1 /\ DOMAIN mFreeIds = {}
      BY DEF Init
    <2>2. /\ \A b \in Buffers : ~live[b] /\ phase[b] = "none"
          /\ \A i \in Ids : objectAt[i] = 0
      BY DEF Init
    <2> QED
      BY <1>5, <2>1, <2>2 DEF IdInv
  <1>7. LiveInv /\ KnownInv
    BY DEF Init, LiveInv, KnownInv, NoEntry
  <1>8. SerialInv
    <2>1. \A r \in Requests : /\ answer[r] = "None" /\ nativeReply[r] = "None" /\ reqSerial[r] = 0
                              /\ r > 0
      BY WireBounds DEF Init, Requests
    <2>2. \A b \in Buffers : mSerial[b] = 0
      BY DEF Init
    <2> QED
      BY <2>1, <2>2 DEF SerialInv, Waiting
  <1>9. PendingInv
    BY DEF Init, PendingInv
  <1> QED
    BY <1>1, <1>2, <1>4, <1>6, <1>7, <1>8, <1>9 DEF GrantInv, TalkInv

LEMMA GrantPreserved == GrantInv /\ [Next]_vars => GrantInv'
  <1> SUFFICES ASSUME GrantInv, [Next]_vars PROVE GrantInv'
    OBVIOUS
  <1>0. WireTypeOK /\ SuccessIsGranted /\ (Running => TalkInv)
    BY DEF GrantInv
  <1>1. TalkInv => ChannelTypeOK /\ IdInv /\ SerialInv
    BY DEF TalkInv
  <1>2. ASSUME NEW k \in Kinds, CreateBuffer(k)
        PROVE  GrantInv'
    <2>1. TalkInv
      BY <1>0, <1>2 DEF CreateBuffer
    <2>2. WireTypeOK' /\ TalkInv'
      BY <1>0, <1>1, <1>2, <2>1, CreateTypes, CreateTalk
    <2>3. UNCHANGED <<answer, nativeReply>>
      BY <1>2 DEF CreateBuffer, requestVars, nativeVars
    <2> QED
      BY <1>0, <2>2, <2>3 DEF GrantInv, SuccessIsGranted
  <1>3. ASSUME NEW b \in Buffers, Unmap(b) \/ Destroy(b) \/ Release(b)
        PROVE  GrantInv'
    <2>1. TalkInv
      BY <1>0, <1>3 DEF Unmap, Destroy, Release
    <2>2. WireTypeOK' /\ TalkInv'
      BY <1>0, <1>1, <1>3, <2>1, ClientTypes, EndTalk
    <2>3. \A r \in Requests : /\ answer'[r] = "Success" => answer[r] = "Success"
                              /\ nativeReply'[r] = nativeReply[r]
      <3>1. answer' = answer \/ Release(b)
        BY <1>3 DEF Unmap, Destroy
      <3>2. Release(b) => \A r \in Requests : answer'[r] \in {answer[r], "Destroyed"}
        BY DEF Release
      <3>3. nativeReply' = nativeReply
        BY <1>3 DEF Unmap, Destroy, Release, nativeVars
      <3> QED
        BY <3>1, <3>2, <3>3
    <2> QED
      BY <1>0, <2>2, <2>3 DEF GrantInv, SuccessIsGranted
  <1>4. ASSUME NEW r \in Requests, NEW b \in Buffers, MapAsync(r, b)
        PROVE  GrantInv'
    <2>1. TalkInv
      BY <1>0, <1>4 DEF MapAsync
    <2>2. WireTypeOK' /\ TalkInv'
      BY <1>0, <1>1, <1>4, <2>1, MapAsyncTypes, MapAsyncTalk
    <2>3. \A q \in Requests : /\ answer'[q] = "Success" => answer[q] = "Success"
                              /\ nativeReply'[q] = nativeReply[q]
      <3>1. /\ \A q \in Requests : q # r => answer'[q] = answer[q]
            /\ answer'[r] \in {"DeviceLost", "Waiting"}
            /\ nativeReply' = nativeReply
        BY <1>0, <1>4, <2>1, MapAsyncEffects DEF nativeVars
      <3> QED
        BY <3>1
    <2> QED
      BY <1>0, <2>2, <2>3 DEF GrantInv, SuccessIsGranted
  <1>5. CASE Disconnect
    <2>1. TalkInv
      BY <1>0, <1>5 DEF Disconnect
    <2>2. WireTypeOK' /\ TalkInv'
      BY <1>0, <1>5, <2>1, OtherTypes, DisconnectTalk
    <2>3. \A q \in Requests : /\ answer'[q] = "Success" => answer[q] = "Success"
                              /\ nativeReply'[q] = nativeReply[q]
      BY <1>5 DEF Disconnect, nativeVars
    <2> QED
      BY <1>0, <2>2, <2>3 DEF GrantInv, SuccessIsGranted
  <1>6. CASE OnMapAsyncCallback
    <2>1. TalkInv
      BY <1>0, <1>6 DEF OnMapAsyncCallback
    <2> QED
      BY <1>0, <1>1, <1>6, <2>1, AnswerTypes, CallbackTalk DEF GrantInv
  <1>7. CASE ServerHandles
    <2>1. TalkInv
      BY <1>0, <1>7 DEF ServerHandles, DoDeviceCreateBuffer, DoBufferMapAsync,
            DoBufferUpdateMappedData, DoBufferUnmap, DoBufferDestroy, DoDestroyObject, Receive
    <2>2. WireTypeOK' /\ (Running' => TalkInv')
      BY <1>0, <1>1, <1>7, <2>1, ServerTypes, ServerTalk
    <2>3. SuccessIsGranted'
      BY <1>0, <1>7, <2>1, GrantsStay DEF SuccessIsGranted
    <2> QED
      BY <2>2, <2>3 DEF GrantInv
  <1>8. ASSUME NEW b \in Buffers, Grant(b) \/ AnswerLost(b)
        PROVE  GrantInv'
    <2>1. TalkInv
      BY <1>0, <1>8 DEF Grant, AnswerLost
    <2>2. WireTypeOK' /\ TalkInv'
      BY <1>0, <1>1, <1>8, <2>1, DeviceTypes, DeviceTalk
    <2>3. SuccessIsGranted'
      BY <1>0, <1>8, <2>1, GrantsStay DEF SuccessIsGranted
    <2> QED
      BY <2>2, <2>3 DEF GrantInv
  <1>9. CASE LoseDevice \/ UNCHANGED vars
    <2>1. UNCHANGED <<clientVars, requestVars, idVars, mDisconnected, wireVars, serverVars, phase,
                      owner, nativeReply, wireError, unflushed, commands>>
      BY <1>9 DEF LoseDevice, vars, nativeVars
    <2>2. WireTypeOK'
      BY <1>0, <1>9, OtherTypes
    <2>3. UNCHANGED <<created, id, generation, live, idVars, mDisconnected, mSerial, reqBuffer,
                      reqSerial, toServer, toClient, known, knownSize, phase, owner, nativeReply,
                      answer, wireError>>
      BY <2>1 DEF clientVars, requestVars, wireVars, serverVars
    <2>4. TalkInv => TalkInv'
      BY <1>0, <2>3, AnswerTalk
    <2>5. Running' <=> Running
      BY <2>3 DEF Running
    <2> QED
      BY <1>0, <2>2, <2>3, <2>4, <2>5 DEF GrantInv, SuccessIsGranted
  <1> QED
    BY <1>2, <1>3, <1>4, <1>5, <1>6, <1>7, <1>8, <1>9 DEF Next

(* Every variable keeps its type, and Success reaches only a request that  *)
(* the native buffer granted, whatever crosses on the wire and however     *)
(* ids, generations and serials are used again.                            *)
THEOREM SuccessOnlyWhenGranted == Spec => [](WireTypeOK /\ SuccessIsGranted)
  <1>1. Spec => []GrantInv
    BY GrantInit, GrantPreserved, PTL DEF Spec
  <1>2. GrantInv => WireTypeOK /\ SuccessIsGranted
    BY DEF GrantInv
  <1> QED
    BY <1>1, <1>2, PTL

-----------------------------------------------------------------------------
(* Mappings on both sides.                                                 *)

(* A step of the server or its device: a mapping is ended only by a        *)
(* command for it, or when the client has released the buffer.             *)
LEMMA SidesKept ==
    ASSUME WireTypeOK, TalkInv, SafeInv, MappedInv,
           UNCHANGED <<live, mMapState, mReadHandle, mWriteHandle, answer, clientStatus, reqBuffer>>,
           toServer' = toServer \/ (toServer # <<>> /\ toServer' = Tail(toServer)),
           \A x \in Buffers :
               phase[x] = "mapped" => phase'[x] = "mapped" \/ ~live[x] \/ OnWay(x, Ends),
           \A r \in Requests : nativeReply'[r] = "Success" =>
               nativeReply[r] = "Success" \/ phase'[reqBuffer[r]] = "mapped"
    PROVE  SafeInv' /\ MappedInv'
  <1>0. ChannelTypeOK /\ SerialInv /\ MapCommandInv
    BY DEF TalkInv
  <1>1. /\ \A x, n : OnWay(x, n)' => OnWay(x, n)
        /\ \A r : MapOnWay(r) /\ ~MapOnWay(r)' =>
              toServer # <<>> /\ toServer' = Tail(toServer) /\ toServer[1].cmd = "MapAsync"
              /\ toServer[1].request = r
    <2>1. CASE toServer' = toServer
      BY <2>1 DEF OnWay, MapOnWay
    <2>2. CASE toServer # <<>> /\ toServer' = Tail(toServer)
      BY <1>0, <2>2, TakenBefore DEF ChannelTypeOK
    <2> QED
      BY <2>1, <2>2
  <1>2. ASSUME NEW r \in Requests, Safe(r)', NEW b, b = reqBuffer[r]
        PROVE  Unended(r, b)'
    <2>1. Safe(r) /\ Unended(r, b) /\ Waiting(r)
      BY <1>2 DEF Safe, Waiting, SafeInv
    <2>2. live[b] /\ b \in Buffers
      <3>1. live[b] /\ IsCreated(b)
        BY <1>0, <1>2, <2>1 DEF SerialInv, Waiting
      <3> QED
        BY <3>1, WireBounds DEF IsCreated, WireTypeOK, Buffers
    <2>3. nativeReply'[r] = "Success" => phase'[b] = "mapped"
      <3> SUFFICES ASSUME nativeReply'[r] = "Success" PROVE phase'[b] = "mapped"
        OBVIOUS
      <3>1. CASE nativeReply[r] = "Success"
        <4>1. ~MapOnWay(r)
          BY <1>0, <3>1 DEF MapOnWay, MapCommandInv
        <4>2. phase[b] = "mapped" /\ ~OnWay(b, Ends)
          BY <2>1, <3>1, <4>1 DEF Unended
        <4> QED
          BY <2>2, <4>2
      <3> QED
        BY <1>2, <3>1
    <2>4. CASE toServer' = toServer
      <3>1. /\ MapOnWay(r)' <=> MapOnWay(r)
            /\ OnWay(b, Ends)' <=> OnWay(b, Ends)
        BY <2>4 DEF MapOnWay, OnWay, Ends
      <3> QED
        BY <2>1, <2>3, <2>4, <3>1 DEF Unended, Ends
    <2>5. CASE toServer # <<>> /\ toServer' = Tail(toServer)
      <3>1. /\ 1 \in DOMAIN toServer
            /\ \A j \in DOMAIN toServer' : j \in Nat /\ j >= 1 /\ j + 1 \in DOMAIN toServer
                                           /\ toServer'[j] = toServer[j + 1]
        BY <1>0, <2>5, Shrunk DEF ChannelTypeOK
      <3>2. \A j, k \in DOMAIN toServer' : j < k /\ toServer'[j].cmd = "MapAsync" /\
               toServer'[j].request = r /\ toServer'[k].buffer = b => toServer'[k].cmd \notin Ends
        <4> SUFFICES ASSUME NEW j \in DOMAIN toServer', NEW k \in DOMAIN toServer', j < k,
                            toServer'[j].cmd = "MapAsync", toServer'[j].request = r,
                            toServer'[k].buffer = b
                     PROVE  toServer'[k].cmd \notin Ends
          OBVIOUS
        <4>1. j + 1 \in DOMAIN toServer /\ k + 1 \in DOMAIN toServer /\ j + 1 < k + 1
              /\ toServer'[j] = toServer[j + 1] /\ toServer'[k] = toServer[k + 1]
          BY <3>1
        <4> QED
          BY <2>1, <4>1 DEF Unended
      <3>3. ~MapOnWay(r)' => ~OnWay(b, Ends)'
        <4>1. CASE ~MapOnWay(r)
          BY <1>1, <2>1, <4>1 DEF Unended
        <4>2. CASE MapOnWay(r)
          <5> SUFFICES ASSUME ~MapOnWay(r)', OnWay(b, Ends)' PROVE FALSE
            OBVIOUS
          <5>1. toServer[1].cmd = "MapAsync" /\ toServer[1].request = r
            BY <1>1, <4>2
          <5>2. PICK k \in DOMAIN toServer' : toServer'[k].buffer = b /\ toServer'[k].cmd \in Ends
            BY DEF OnWay, Ends
          <5>3. k + 1 \in DOMAIN toServer /\ toServer'[k] = toServer[k + 1] /\ 1 < k + 1
            BY <3>1
          <5> QED
            BY <2>1, <3>1, <5>1, <5>2, <5>3 DEF Unended
        <4> QED
          BY <4>1, <4>2
      <3> QED
        BY <2>3, <3>2, <3>3 DEF Unended, Ends
    <2> QED
      BY <2>4, <2>5
  <1>3. SafeInv'
    BY <1>2 DEF SafeInv, Unended, MapOnWay, OnWay, Ends
  <1>4. ASSUME NEW x \in Buffers
        PROVE  /\ ClientMaps(x)' => phase'[x] = "mapped" /\ ~OnWay(x, Ends)'
               /\ ~live'[x] => ~mReadHandle'[x] /\ ~mWriteHandle'[x]
    <2>1. /\ ClientMaps(x) => phase[x] = "mapped" /\ ~OnWay(x, Ends)
          /\ ~live[x] => ~mReadHandle[x] /\ ~mWriteHandle[x]
      BY DEF MappedInv
    <2>2. ClientMaps(x)' <=> ClientMaps(x)
      BY DEF ClientMaps
    <2>3. ClientMaps(x) => live[x]
      BY <2>1 DEF ClientMaps
    <2> QED
      BY <1>1, <2>1, <2>2, <2>3
  <1> QED
    BY <1>3, <1>4 DEF MappedInv, Ends

(* Commands are sent that are not requests: those that end a mapping of a  *)
(* buffer are for one the client no longer has mapped nor waits for.       *)
LEMMA SidesSent ==
    ASSUME WireTypeOK, TalkInv, SafeInv, MappedInv,
           NEW cmds \in Seq(Commands), Send(cmds), UNCHANGED <<phase, nativeReply, reqBuffer>>,
           \A i \in DOMAIN cmds :
               /\ cmds[i].cmd # "MapAsync"
               /\ cmds[i].cmd \in Ends =>
                     /\ ~ClientMaps(cmds[i].buffer)'
                     /\ \A r \in Requests : Safe(r)' => reqBuffer[r] # cmds[i].buffer,
           \A r \in Requests : Safe(r)' => Safe(r),
           \A x \in Buffers : /\ ClientMaps(x)' => ClientMaps(x)
                              /\ ~live'[x] => ~mReadHandle'[x] /\ ~mWriteHandle'[x]
    PROVE  SafeInv' /\ MappedInv'
  <1>0. ChannelTypeOK /\ SerialInv /\ MapCommandInv
    BY DEF TalkInv
  <1>1. /\ \A x : OnWay(x, Ends)' =>
              OnWay(x, Ends) \/ \E i \in DOMAIN cmds : cmds[i].buffer = x /\ cmds[i].cmd \in Ends
        /\ \A r : MapOnWay(r) => MapOnWay(r)'
    <2>1. CASE mDisconnected
      BY <2>1 DEF OnWay, MapOnWay, Send, Ends
    <2>2. CASE ~mDisconnected
      <3>1. toServer' = toServer \o cmds /\ toServer \in Seq(Commands)
        BY <1>0, <2>2 DEF Send, ChannelTypeOK
      <3>2. /\ \A x, n : OnWay(x, n)' <=>
                 \/ OnWay(x, n)
                 \/ \E i \in DOMAIN cmds : cmds[i].buffer = x /\ cmds[i].cmd \in n
            /\ \A r : MapOnWay(r) => MapOnWay(r)'
        BY <3>1, SentBefore
      <3> QED
        BY <3>2 DEF Ends
    <2> QED
      BY <2>1, <2>2
  <1>2. \A j \in DOMAIN toServer' :
           \/ j \in DOMAIN toServer /\ toServer'[j] = toServer[j]
           \/ /\ \A k \in DOMAIN toServer : k < j
              /\ \E i \in DOMAIN cmds : toServer'[j] = cmds[i]
    <2>1. CASE mDisconnected
      BY <2>1 DEF Send
    <2>2. CASE ~mDisconnected
      <3>1. toServer' = toServer \o cmds /\ toServer \in Seq(Commands)
        BY <1>0, <2>2 DEF Send, ChannelTypeOK
      <3>2. DOMAIN toServer = 1..Len(toServer) /\ Len(toServer) \in Nat
        BY <3>1, LenProperties
      <3>3. /\ DOMAIN toServer' = 1..(Len(toServer) + Len(cmds))
            /\ \A j \in DOMAIN toServer : toServer'[j] = toServer[j]
            /\ \A j \in DOMAIN toServer' :
                 \/ j \in DOMAIN toServer
                 \/ j > Len(toServer) /\ j - Len(toServer) \in DOMAIN cmds
                    /\ toServer'[j] = cmds[j - Len(toServer)]
        BY <3>1, Grown
      <3>4. Len(cmds) \in Nat
        BY LenProperties
      <3> QED
        BY <3>2, <3>3, <3>4
    <2> QED
      BY <2>1, <2>2
  <1>3. ASSUME NEW r \in Requests, Safe(r)', NEW b, b = reqBuffer[r]
        PROVE  Unended(r, b)'
    <2>1. Safe(r) /\ Unended(r, b)
      BY <1>3 DEF SafeInv
    <2>2. \A i \in DOMAIN cmds : cmds[i].buffer = b => cmds[i].cmd \notin Ends
      BY <1>3
    <2>3. ~MapOnWay(r)' => ~OnWay(b, Ends)'
      BY <1>1, <2>1, <2>2 DEF Unended
    <2>4. \A j, k \in DOMAIN toServer' : j < k /\ toServer'[j].cmd = "MapAsync" /\
             toServer'[j].request = r /\ toServer'[k].buffer = b => toServer'[k].cmd \notin Ends
      BY <1>2, <2>1, <2>2 DEF Unended
    <2> QED
      BY <2>1, <2>3, <2>4 DEF Unended, Ends
  <1>4. SafeInv'
    BY <1>3 DEF SafeInv, Unended, MapOnWay, OnWay, Ends
  <1>5. ASSUME NEW x \in Buffers, ClientMaps(x)'
        PROVE  phase'[x] = "mapped" /\ ~OnWay(x, Ends)'
    BY <1>1, <1>5 DEF MappedInv
  <1> QED
    BY <1>4, <1>5 DEF MappedInv, Ends

LEMMA ClientSides ==
    ASSUME WireTypeOK, TalkInv, SafeInv, MappedInv, NEW b \in Buffers,
           Unmap(b) \/ Destroy(b) \/ Release(b)
    PROVE  SafeInv' /\ MappedInv'
  <1>0. IdInv /\ SerialInv
    BY DEF TalkInv
  <1>1. /\ mMapState \in [Buffers -> {"Unmapped", "MappedForRead", "MappedForWrite",
                                      "MappedAtCreation"}]
        /\ mReadHandle \in [Buffers -> BOOLEAN] /\ mWriteHandle \in [Buffers -> BOOLEAN]
        /\ live \in [Buffers -> BOOLEAN]
    BY DEF WireTypeOK
  <1>2. \A x \in Buffers : ~live[x] => ~mReadHandle[x] /\ ~mWriteHandle[x]
    BY DEF MappedInv
  <1>3. CASE Unmap(b)
    <2>1. PICK cmds : cmds = IF WillFlush(b)
                              THEN <<Command("UpdateMappedData", b), Command("Unmap", b)>>
                              ELSE <<Command("Unmap", b)>>
      OBVIOUS
    <2>2. /\ cmds \in Seq(Commands) /\ Send(cmds)
          /\ \A i \in DOMAIN cmds : /\ cmds[i].buffer = b
                                    /\ cmds[i].cmd \in {"UpdateMappedData", "Unmap"}
      BY <1>0, <1>3, <2>1, UnmapSends
    <2>3. /\ live[b] /\ UNCHANGED <<phase, nativeReply, reqBuffer, live, mReadHandle, answer>>
          /\ mMapState' = [mMapState EXCEPT ![b] = "Unmapped"]
          /\ Tag(b, "Unmapped")
      BY <1>3 DEF Unmap, nativeVars
    <2>4. \A x \in Buffers : mWriteHandle'[x] => mWriteHandle[x]
      BY <1>1, <1>3 DEF Unmap
    <2>5. ~ClientMaps(b)' /\ \A x \in Buffers : ClientMaps(x)' => ClientMaps(x)
      BY <1>1, <2>3, <2>4 DEF ClientMaps
    <2>6. \A r \in Requests : Safe(r)' => Safe(r) /\ reqBuffer[r] # b
      BY <2>3 DEF Safe, Waiting, Tag, WaitingOn
    <2> QED
      BY <1>2, <2>2, <2>3, <2>4, <2>5, <2>6, SidesSent
  <1>4. CASE Destroy(b)
    <2>1. PICK cmds : cmds = <<Command("Destroy", b)>>
      OBVIOUS
    <2>2. /\ live[b] /\ UNCHANGED <<phase, nativeReply, reqBuffer, live, mMapState, answer>>
          /\ mReadHandle' = [mReadHandle EXCEPT ![b] = FALSE]
          /\ mWriteHandle' = [mWriteHandle EXCEPT ![b] = FALSE]
          /\ Tag(b, "Destroyed") /\ Send(cmds)
      BY <1>4, <2>1 DEF Destroy, nativeVars
    <2>3. cmds \in Seq(Commands) /\ \A i \in DOMAIN cmds : cmds[i].buffer = b /\ cmds[i].cmd = "Destroy"
      BY <1>0, <2>1, <2>2, OneSent DEF Names
    <2>4. /\ ~ClientMaps(b)' /\ \A x \in Buffers : ClientMaps(x)' => ClientMaps(x)
          /\ \A x \in Buffers : /\ mReadHandle'[x] => mReadHandle[x]
                                /\ mWriteHandle'[x] => mWriteHandle[x]
      BY <1>1, <2>2 DEF ClientMaps
    <2>5. \A r \in Requests : Safe(r)' => Safe(r) /\ reqBuffer[r] # b
      BY <2>2 DEF Safe, Waiting, Tag, WaitingOn
    <2> QED
      BY <1>2, <2>2, <2>3, <2>4, <2>5, SidesSent
  <1>5. CASE Release(b)
    <2>1. PICK cmds : cmds = <<Command("DestroyObject", b)>>
      OBVIOUS
    <2>2. /\ live[b] /\ UNCHANGED <<phase, nativeReply, reqBuffer, mMapState>>
          /\ live' = [live EXCEPT ![b] = FALSE]
          /\ mReadHandle' = [mReadHandle EXCEPT ![b] = FALSE]
          /\ mWriteHandle' = [mWriteHandle EXCEPT ![b] = FALSE]
          /\ answer' = [r \in Requests |-> IF r \in WaitingOn(b) THEN "Destroyed" ELSE answer[r]]
          /\ clientStatus' = [r \in Requests |-> IF r \in WaitingOn(b) THEN "Success"
                                                                       ELSE clientStatus[r]]
          /\ Send(cmds)
      BY <1>5, <2>1 DEF Release, nativeVars
    <2>3. cmds \in Seq(Commands)
          /\ \A i \in DOMAIN cmds : cmds[i].cmd = "DestroyObject"
      BY <1>0, <2>1, <2>2, OneSent DEF Names
    <2>4. /\ \A x \in Buffers : ClientMaps(x)' => ClientMaps(x)
          /\ \A x \in Buffers : ~live'[x] => ~mReadHandle'[x] /\ ~mWriteHandle'[x]
      BY <1>1, <1>2, <2>2 DEF ClientMaps
    <2>5. \A r \in Requests : Safe(r)' => Safe(r)
      BY <2>2 DEF Safe, Waiting
    <2>6. \A i \in DOMAIN cmds : cmds[i].cmd # "MapAsync" /\ cmds[i].cmd \notin Ends
      BY <2>3 DEF Ends
    <2> QED
      BY <2>2, <2>3, <2>4, <2>5, <2>6, SidesSent
  <1> QED
    BY <1>3, <1>4, <1>5

LEMMA CreateSides ==
    ASSUME WireTypeOK, TalkInv, SafeInv, MappedInv, NEW k \in Kinds, CreateBuffer(k)
    PROVE  SafeInv' /\ MappedInv'
  <1>0. IdInv
    BY DEF TalkInv
  <1>1. PICK b : b = created + 1
    OBVIOUS
  <1>2. /\ b \in Buffers /\ NewId \in Ids /\ NewGeneration(NewId) \in 0..MaxGeneration
    BY <1>0, <1>1, NewIdTypes DEF CreateBuffer
  <1>3. PICK c : c = [cmd |-> "Create", id |-> NewId, generation |-> NewGeneration(NewId),
                      buffer |-> b]
    OBVIOUS
  <1>4. c \in Commands /\ c.cmd = "Create"
    BY <1>2, <1>3, CommandsMade
  <1>5. PICK cmds : cmds = <<c>>
    OBVIOUS
  <1>6. /\ Send(cmds) /\ live' = [live EXCEPT ![b] = TRUE]
        /\ mReadHandle' = [mReadHandle EXCEPT ![b] = MapsRead(k)]
        /\ mWriteHandle' = [mWriteHandle EXCEPT ![b] = MapsWrite(k) \/ AtCreation(k)]
        /\ mMapState' = [mMapState EXCEPT ![b] =
                IF AtCreation(k) THEN "MappedAtCreation" ELSE "Unmapped"]
        /\ UNCHANGED <<reqBuffer, answer, clientStatus, phase, nativeReply>>
    BY <1>1, <1>3, <1>5 DEF CreateBuffer, NewId, requestVars, nativeVars
  <1>7. cmds \in Seq(Commands) /\ \A i \in DOMAIN cmds : cmds[i].cmd = "Create"
    BY <1>4, <1>5
  <1>8. \A i \in DOMAIN cmds : cmds[i].cmd # "MapAsync" /\ cmds[i].cmd \notin Ends
    BY <1>7 DEF Ends
  <1>9. /\ mMapState \in [Buffers -> {"Unmapped", "MappedForRead", "MappedForWrite",
                                      "MappedAtCreation"}]
        /\ mReadHandle \in [Buffers -> BOOLEAN] /\ mWriteHandle \in [Buffers -> BOOLEAN]
        /\ live \in [Buffers -> BOOLEAN]
    BY DEF WireTypeOK
  <1>10. /\ live'[b] /\ mMapState'[b] \in {"MappedAtCreation", "Unmapped"}
         /\ \A x \in Buffers : x # b => /\ mReadHandle'[x] = mReadHandle[x] /\ live'[x] = live[x]
                                        /\ mWriteHandle'[x] = mWriteHandle[x]
                                        /\ mMapState'[x] = mMapState[x]
    BY <1>2, <1>6, <1>9
  <1>11. \A x \in Buffers : /\ ClientMaps(x)' => ClientMaps(x)
                            /\ ~live'[x] => ~mReadHandle'[x] /\ ~mWriteHandle'[x]
    BY <1>10 DEF ClientMaps, MappedInv
  <1>12. \A r \in Requests : Safe(r)' => Safe(r)
    BY <1>6 DEF Safe, Waiting
  <1> QED
    BY <1>6, <1>7, <1>8, <1>11, <1>12, SidesSent

LEMMA MapAsyncSides ==
    ASSUME WireTypeOK, TalkInv, SafeInv, MappedInv, NEW r \in Requests, NEW b \in Buffers,
           MapAsync(r, b)
    PROVE  SafeInv' /\ MappedInv'
  <1>0. ChannelTypeOK /\ IdInv /\ MapCommandInv /\ SerialInv
    BY DEF TalkInv
  <1>1. /\ live[b] /\ answer[r] = "None" /\ reqSerial[r] = 0 /\ nativeReply[r] = "None"
        /\ UNCHANGED <<live, mMapState, mReadHandle, mWriteHandle, clientStatus, nativeReply, phase>>
        /\ reqBuffer'[r] = b
        /\ \A q \in Requests : q # r => reqBuffer'[q] = reqBuffer[q] /\ answer'[q] = answer[q]
    BY MapAsyncEffects, ZenonT(30) DEF nativeVars
  <1>2. PICK c : c = [cmd |-> "MapAsync", id |-> id[b], buffer |-> b,
                      serial |-> mSerial[b] + 1, request |-> r]
    OBVIOUS
  <1>3. \/ mDisconnected /\ answer'[r] = "DeviceLost" /\ toServer' = toServer
        \/ ~mDisconnected /\ toServer' = toServer \o <<c>>
    BY <1>2, MapAsyncEffects
  <1>4. \A k \in DOMAIN toServer : toServer[k].cmd = "MapAsync" => toServer[k].request # r
    <2>1. \A j \in DOMAIN toServer : toServer[j].cmd = "MapAsync" => toServer[j].request \in Requests
      BY <1>0, CommandTypes, LenProperties DEF ChannelTypeOK
    <2> QED
      BY <1>0, <1>1, <2>1 DEF MapCommandInv
  <1>5. \A x \in Buffers : ClientMaps(x)' <=> ClientMaps(x)
    BY <1>1 DEF ClientMaps
  <1>6. CASE toServer' = toServer /\ answer'[r] = "DeviceLost"
    <2>1. /\ \A x, n : OnWay(x, n)' <=> OnWay(x, n)
          /\ \A q : MapOnWay(q)' <=> MapOnWay(q)
      BY <1>6 DEF OnWay, MapOnWay
    <2>2. ASSUME NEW q \in Requests, Safe(q)', NEW x, x = reqBuffer'[q]
          PROVE  Unended(q, x)'
      <3>1. q # r /\ Safe(q) /\ x = reqBuffer[q]
        BY <1>1, <1>6, <2>2 DEF Safe, Waiting
      <3>2. Unended(q, x)
        BY <3>1 DEF SafeInv
      <3> QED
        BY <1>1, <1>6, <2>1, <3>2 DEF Unended, Ends
    <2>3. SafeInv'
      BY <2>2 DEF SafeInv, Unended, MapOnWay, OnWay, Ends
    <2> QED
      BY <1>1, <1>5, <2>1, <2>3 DEF MappedInv, Ends
  <1>7. CASE ~mDisconnected /\ toServer' = toServer \o <<c>>
    <2>1. c \in Commands /\ c.cmd = "MapAsync" /\ c.request = r /\ c.buffer = b
      <3>0. mSerial[b] \in Nat
        BY WireBounds DEF WireTypeOK
      <3>1. mSerial[b] \in Nat /\ id[b] \in Ids
        BY <1>0, <1>1, <3>0, LiveIds
      <3>2. mSerial[b] + 1 \in Nat
        BY <3>1
      <3>3. [cmd |-> "MapAsync", id |-> id[b], buffer |-> b, serial |-> mSerial[b] + 1,
             request |-> r] \in Commands
        BY <3>1, <3>2, CommandsMade
      <3> QED
        BY <1>2, <3>3
    <2>2. <<c>> \in Seq(Commands) /\ DOMAIN <<c>> = {1} /\ <<c>>[1] = c
          /\ toServer \in Seq(Commands)
      BY <1>0, <2>1 DEF ChannelTypeOK
    <2>3. PICK cmds : cmds = <<c>>
      OBVIOUS
    <2>4. /\ \A x, n : OnWay(x, n)' <=>
                \/ OnWay(x, n)
                \/ \E i \in DOMAIN cmds : cmds[i].buffer = x /\ cmds[i].cmd \in n
          /\ \A q : MapOnWay(q)' <=>
                \/ MapOnWay(q)
                \/ \E i \in DOMAIN cmds : cmds[i].cmd = "MapAsync" /\ cmds[i].request = q
      <3>1. cmds \in Seq(Commands) /\ toServer' = toServer \o cmds /\ toServer \in Seq(Commands)
        BY <1>7, <2>2, <2>3
      <3> QED
        BY <3>1, SentBefore
    <2>5. \A x : OnWay(x, Ends)' <=> OnWay(x, Ends)
      BY <2>1, <2>2, <2>3, <2>4 DEF Ends
    <2>6. MapOnWay(r)' /\ \A q : q # r => (MapOnWay(q)' <=> MapOnWay(q))
      BY <2>1, <2>2, <2>3, <2>4
    <2>7. /\ \A j \in DOMAIN toServer : toServer'[j] = toServer[j]
          /\ DOMAIN toServer' = 1..(Len(toServer) + 1) /\ DOMAIN toServer = 1..Len(toServer)
          /\ Len(toServer) \in Nat /\ toServer'[Len(toServer) + 1] = c
      BY <1>7, <2>2, Grown, LenProperties
    <2>8. ASSUME NEW q \in Requests, Safe(q)', NEW x, x = reqBuffer'[q]
          PROVE  Unended(q, x)'
      <3>1. CASE q = r
        <4>1. \A j, k \in DOMAIN toServer' : j < k /\ toServer'[j].cmd = "MapAsync"
                 => toServer'[j].request # r
          BY <1>4, <2>7
        <4> QED
          BY <1>1, <2>6, <3>1, <4>1 DEF Unended
      <3>2. CASE q # r
        <4>1. Safe(q) /\ x = reqBuffer[q]
          BY <1>1, <2>8, <3>2 DEF Safe, Waiting
        <4>2. Unended(q, x)
          BY <4>1 DEF SafeInv
        <4>3. \A j, k \in DOMAIN toServer' : j < k /\ toServer'[j].cmd = "MapAsync" /\
                 toServer'[j].request = q /\ toServer'[k].buffer = x => toServer'[k].cmd \notin Ends
          <5> SUFFICES ASSUME NEW j \in DOMAIN toServer', NEW k \in DOMAIN toServer', j < k,
                              toServer'[j].cmd = "MapAsync", toServer'[j].request = q,
                              toServer'[k].buffer = x
                       PROVE  toServer'[k].cmd \notin Ends
            OBVIOUS
          <5>1. CASE k = Len(toServer) + 1
            BY <2>1, <2>7, <5>1 DEF Ends
          <5>2. CASE k # Len(toServer) + 1
            <6>1. k \in DOMAIN toServer /\ j \in DOMAIN toServer
              BY <2>7, <5>2
            <6> QED
              BY <2>7, <4>2, <6>1 DEF Unended
          <5> QED
            BY <5>1, <5>2
        <4> QED
          BY <1>1, <2>5, <2>6, <3>2, <4>2, <4>3 DEF Unended, Ends
      <3> QED
        BY <3>1, <3>2
    <2>9. SafeInv'
      BY <2>8 DEF SafeInv, Unended, MapOnWay, OnWay, Ends
    <2> QED
      BY <1>1, <1>5, <2>5, <2>9 DEF MappedInv, Ends
  <1> QED
    BY <1>3, <1>6, <1>7

LEMMA DisconnectSides ==
    ASSUME WireTypeOK, SafeInv, MappedInv, Disconnect
    PROVE  SafeInv' /\ MappedInv'
  <1>1. /\ toServer' = <<>>
        /\ answer' = [r \in Requests |-> IF Waiting(r) THEN "DeviceLost" ELSE answer[r]]
        /\ UNCHANGED <<live, mMapState, mReadHandle, mWriteHandle, phase>>
    BY DEF Disconnect, clientVars, nativeVars
  <1>2. \A r \in Requests : ~Safe(r)'
    BY <1>1 DEF Safe, Waiting
  <1>3. \A x : ~OnWay(x, Ends)'
    BY <1>1 DEF OnWay
  <1>4. \A x \in Buffers : ClientMaps(x)' <=> ClientMaps(x)
    BY <1>1 DEF ClientMaps
  <1> QED
    BY <1>1, <1>2, <1>3, <1>4 DEF SafeInv, MappedInv

(* An answer that is believed is for a mapping the server has.             *)
LEMMA CallbackSides ==
    ASSUME WireTypeOK, TalkInv, SafeInv, MappedInv, OnMapAsyncCallback
    PROVE  SafeInv' /\ MappedInv'
  <1>0. MapCommandInv
    BY DEF TalkInv
  <1>1. UNCHANGED <<live, mReadHandle, mWriteHandle, reqBuffer, toServer, phase, nativeReply>>
    BY CallbackEffect DEF nativeVars
  <1>2. CASE UNCHANGED <<answer, clientStatus, mMapState>>
    <2>1. /\ \A x \in Buffers : phase[x] = "mapped" => phase'[x] = "mapped"
          /\ \A r \in Requests : nativeReply'[r] = "Success" => nativeReply[r] = "Success"
      BY <1>1
    <2> QED
      BY <1>1, <1>2, <2>1, SidesKept
  <1>3. ASSUME NEW r \in Requests, NEW b \in Buffers, NEW reply \in Statuses,
               AnswerRequest(r, b, reply), live[b], reqBuffer[r] = b, answer[r] = "Waiting",
               reply = "Success" => nativeReply[r] = "Success"
        PROVE  SafeInv' /\ MappedInv'
    <2>1. /\ answer'[r] \in Statuses
          /\ \A q \in Requests : q # r => answer'[q] = answer[q]
      BY <1>3, AnswerGiven
    <2>2. /\ clientStatus \in [Requests -> {"Success", "Unmapped", "Destroyed"}]
          /\ mMapState \in [Buffers -> {"Unmapped", "MappedForRead", "MappedForWrite",
                                        "MappedAtCreation"}]
      BY DEF WireTypeOK
    <2>3. \A q \in Requests : q # r => clientStatus'[q] = clientStatus[q]
      BY <1>3, <2>2 DEF AnswerRequest
    <2>4. \A q \in Requests : Safe(q)' => Safe(q)
      BY <2>1, <2>3 DEF Safe, Waiting, Statuses
    <2>5. /\ \A x, n : OnWay(x, n)' <=> OnWay(x, n)
          /\ \A q : MapOnWay(q)' <=> MapOnWay(q)
      BY <1>1 DEF OnWay, MapOnWay
    <2>6. ASSUME NEW q \in Requests, Safe(q)', NEW x, x = reqBuffer[q]
          PROVE  Unended(q, x)'
      <3>1. Unended(q, x)
        BY <2>4, <2>6 DEF SafeInv
      <3> QED
        BY <1>1, <2>5, <3>1 DEF Unended, Ends
    <2>7. SafeInv'
      BY <1>1, <2>6 DEF SafeInv, Unended, MapOnWay, OnWay, Ends
    <2>8. \A x \in Buffers : x # b => mMapState'[x] = mMapState[x]
      BY <1>3, <2>2 DEF AnswerRequest
    <2>9. mMapState'[b] = mMapState[b] \/ (reply = "Success" /\ clientStatus[r] = "Success")
      BY <1>3, <2>2 DEF AnswerRequest, FinalStatus
    <2>10. ASSUME reply = "Success", clientStatus[r] = "Success"
           PROVE  phase[b] = "mapped" /\ ~OnWay(b, Ends)
      <3>1. Unended(r, b)
        BY <1>3, <2>10 DEF SafeInv, Safe, Waiting
      <3>2. ~MapOnWay(r)
        BY <1>0, <1>3, <2>10 DEF MapOnWay, MapCommandInv
      <3> QED
        BY <1>3, <2>10, <3>1, <3>2 DEF Unended
    <2>11. ASSUME NEW x \in Buffers, ClientMaps(x)'
           PROVE  phase[x] = "mapped" /\ ~OnWay(x, Ends)
      <3>1. CASE mMapState'[x] = mMapState[x]
        <4>1. ClientMaps(x)
          BY <1>1, <2>11, <3>1 DEF ClientMaps
        <4> QED
          BY <4>1 DEF MappedInv
      <3>2. CASE mMapState'[x] # mMapState[x]
        <4>1. x = b /\ reply = "Success" /\ clientStatus[r] = "Success"
          BY <2>8, <2>9, <3>2
        <4> QED
          BY <2>10, <4>1
      <3> QED
        BY <3>1, <3>2
    <2> QED
      BY <1>1, <2>5, <2>7, <2>11 DEF MappedInv, Ends
  <1> QED
    BY <1>2, <1>3, CallbackEffect

LEMMA ServerSides ==
    ASSUME WireTypeOK, TalkInv, SafeInv, MappedInv, ServerHandles
    PROVE  SafeInv' /\ MappedInv'
  <1>0. ChannelTypeOK /\ IdInv /\ CommandInv /\ MapCommandInv /\ PendingInv /\ KnownInv
    BY DEF TalkInv
  <1>01. PICK h : h = Head(toServer)
    OBVIOUS
  <1>1. CASE ~Running'
    <2>1. ServerFails \/ UNCHANGED wireError
      BY DEF ServerHandles, DoDeviceCreateBuffer, DoBufferMapAsync, DoBufferUpdateMappedData,
             DoBufferUnmap, DoBufferDestroy, DoDestroyObject
    <2>2. Running /\ toServer # <<>> /\ toServer' = Tail(toServer)
      BY DEF ServerHandles, DoDeviceCreateBuffer, DoBufferMapAsync, DoBufferUpdateMappedData,
             DoBufferUnmap, DoBufferDestroy, DoDestroyObject, Receive
    <2>3. ServerFails
      BY <1>1, <2>1, <2>2 DEF Running
    <2>4. UNCHANGED <<live, mMapState, mReadHandle, mWriteHandle, answer, clientStatus, reqBuffer,
                      phase, nativeReply>>
      BY <2>3 DEF ServerFails, clientVars, requestVars, nativeVars
    <2> QED
      BY <2>2, <2>4, SidesKept
  <1> DEFINE Client == UNCHANGED <<live, mMapState, mReadHandle, mWriteHandle, answer, clientStatus,
                                   reqBuffer>>
             Ended == \A x \in Buffers :
                 phase[x] = "mapped" => phase'[x] = "mapped" \/ ~live[x] \/ OnWay(x, Ends)
             Granted == \A r \in Requests : nativeReply'[r] = "Success" =>
                 nativeReply[r] = "Success" \/ phase'[reqBuffer[r]] = "mapped"
  <1>2. ASSUME NEW b \in Buffers, NEW status \in Statuses \ {"Success"}, NEW newPhase,
               NativeAnswers(b, status, newPhase)
        PROVE  /\ Granted
               /\ \A x \in Buffers : x # b => phase'[x] = phase[x]
    <2>1. /\ nativeReply \in [Requests -> {"None", "Waiting"} \cup Statuses]
          /\ phase \in [Buffers -> {"none", "error", "unmapped", "pending", "mapped", "lost", "gone"}]
      BY DEF WireTypeOK
    <2> QED
      BY <1>2, <2>1 DEF NativeAnswers
  <1>3. CASE DoBufferUnmap /\ Running'
    <2>1. /\ h.cmd = "Unmap" /\ h = toServer[1] /\ 1 \in DOMAIN toServer
          /\ toServer # <<>> /\ toServer' = Tail(toServer) /\ h.buffer \in Buffers
      BY <1>0, <1>01, <1>3, FirstCommand DEF DoBufferUnmap
    <2>2. OnWay(h.buffer, Ends)
      BY <2>1 DEF OnWay, Ends
    <2>3. Client
      BY <1>01, <1>3, UnmapEffect DEF clientVars, requestVars
    <2>4. \/ NativeAnswers(h.buffer, "Unmapped", "unmapped")
          \/ UNCHANGED <<phase, nativeReply>>
      BY <1>01, <1>3, UnmapEffect
    <2>5. Ended /\ Granted
      <3>1. CASE NativeAnswers(h.buffer, "Unmapped", "unmapped")
        <4>1. Granted /\ \A x \in Buffers : x # h.buffer => phase'[x] = phase[x]
          BY <1>2, <2>1, <3>1 DEF Statuses
        <4> QED
          BY <2>2, <4>1
      <3>2. CASE UNCHANGED <<phase, nativeReply>>
        BY <3>2
      <3> QED
        BY <2>4, <3>1, <3>2
    <2> QED
      BY <2>1, <2>3, <2>5, SidesKept
  <1>4. CASE DoBufferDestroy /\ Running'
    <2>1. /\ h.cmd = "Destroy" /\ h = toServer[1] /\ 1 \in DOMAIN toServer
          /\ toServer # <<>> /\ toServer' = Tail(toServer) /\ h.buffer \in Buffers
      BY <1>0, <1>01, <1>4, FirstCommand DEF DoBufferDestroy
    <2>2. OnWay(h.buffer, Ends)
      BY <2>1 DEF OnWay, Ends
    <2>3. Client
      BY <1>01, <1>4, DestroyEffect DEF clientVars, requestVars
    <2>4. \/ NativeAnswers(h.buffer, CallbackStatus("Destroyed"), "gone")
          \/ UNCHANGED <<phase, nativeReply>>
      BY <1>01, <1>4, DestroyEffect
    <2>5. Ended /\ Granted
      <3>1. CASE NativeAnswers(h.buffer, CallbackStatus("Destroyed"), "gone")
        <4>1. Granted /\ \A x \in Buffers : x # h.buffer => phase'[x] = phase[x]
          BY <1>2, <2>1, <3>1, DestroyStatus
        <4> QED
          BY <2>2, <4>1
      <3>2. CASE UNCHANGED <<phase, nativeReply>>
        BY <3>2
      <3> QED
        BY <2>4, <3>1, <3>2
    <2> QED
      BY <2>1, <2>3, <2>5, SidesKept
  <1>5. CASE DoDestroyObject /\ Running'
    <2>1. /\ h.cmd = "DestroyObject" /\ InOrder(1, h)
          /\ toServer # <<>> /\ toServer' = Tail(toServer) /\ h.buffer \in Buffers
      BY <1>0, <1>01, <1>5, FirstCommand DEF DoDestroyObject
    <2>2. ~live[h.buffer]
      BY <2>1 DEF InOrder
    <2>3. Client /\ nativeReply' = nativeReply /\ \A x \in Buffers : x # h.buffer => phase'[x] = phase[x]
      BY <1>01, <1>5, DestroyObjectEffect DEF clientVars, requestVars
    <2>4. Ended /\ Granted
      BY <2>2, <2>3
    <2> QED
      BY <2>1, <2>3, <2>4, SidesKept
  <1>6. CASE DoBufferUpdateMappedData /\ Running'
    <2>1. toServer # <<>> /\ toServer' = Tail(toServer)
      BY <1>6 DEF DoBufferUpdateMappedData, Receive
    <2>2. Client /\ UNCHANGED <<phase, nativeReply>>
      BY <1>01, <1>6, UpdateEffect DEF clientVars, requestVars
    <2> QED
      BY <2>1, <2>2, SidesKept
  <1>7. CASE DoDeviceCreateBuffer /\ Running'
    <2>1. /\ h.cmd = "Create" /\ InOrder(1, h)
          /\ toServer # <<>> /\ toServer' = Tail(toServer) /\ h.buffer \in Buffers
      BY <1>0, <1>01, <1>7, FirstCommand DEF DoDeviceCreateBuffer
    <2>2. phase[h.buffer] = "none"
      BY <2>1 DEF InOrder
    <2>3. Client /\ nativeReply' = nativeReply /\ \A x \in Buffers : x # h.buffer => phase'[x] = phase[x]
      BY <1>01, <1>7, CreateEffect DEF clientVars, requestVars
    <2>4. Ended /\ Granted
      BY <2>2, <2>3
    <2> QED
      BY <2>1, <2>3, <2>4, SidesKept
  <1>8. CASE DoBufferMapAsync /\ Running'
    <2>1. /\ h.cmd = "MapAsync" /\ h \in Commands
          /\ toServer # <<>> /\ toServer' = Tail(toServer) /\ h.buffer \in Buffers
      BY <1>0, <1>01, <1>8, FirstCommand DEF DoBufferMapAsync
    <2>2. h.request \in Requests
      BY <2>1, CommandTypes
    <2>3. Client
      BY <1>01, <1>8, MapAsyncEffect DEF clientVars, requestVars
    <2>4. \/ /\ phase[h.buffer] = "unmapped" /\ phase' = [phase EXCEPT ![h.buffer] = "pending"]
             /\ nativeReply' = [nativeReply EXCEPT ![h.request] = "Waiting"]
          \/ UNCHANGED <<phase, nativeReply>>
      BY <1>01, <1>8, MapAsyncEffect
    <2>5. /\ nativeReply \in [Requests -> {"None", "Waiting"} \cup Statuses]
          /\ phase \in [Buffers -> {"none", "error", "unmapped", "pending", "mapped", "lost", "gone"}]
      BY DEF WireTypeOK
    <2>6. Ended /\ Granted
      BY <2>1, <2>2, <2>4, <2>5
    <2> QED
      BY <2>1, <2>3, <2>6, SidesKept
  <1> QED
    BY <1>1, <1>3, <1>4, <1>5, <1>6, <1>7, <1>8 DEF ServerHandles

LEMMA DeviceSides ==
    ASSUME WireTypeOK, TalkInv, SafeInv, MappedInv, NEW b \in Buffers, Grant(b) \/ AnswerLost(b)
    PROVE  SafeInv' /\ MappedInv'
  <1>0. PendingInv
    BY DEF TalkInv
  <1>1. /\ phase[b] = "pending" /\ toServer' = toServer
        /\ UNCHANGED <<live, mMapState, mReadHandle, mWriteHandle, answer, clientStatus, reqBuffer>>
        /\ NativeAnswers(b, "Success", "mapped") \/ NativeAnswers(b, "DeviceLost", "lost")
    BY DeviceEffect DEF clientVars, requestVars
  <1>2. /\ nativeReply \in [Requests -> {"None", "Waiting"} \cup Statuses]
        /\ phase \in [Buffers -> {"none", "error", "unmapped", "pending", "mapped", "lost", "gone"}]
    BY DEF WireTypeOK
  <1>3. owner[b] \in Requests /\ reqBuffer[owner[b]] = b
    BY <1>0, <1>1 DEF PendingInv
  <1>4. /\ \A x \in Buffers : phase[x] = "mapped" => phase'[x] = "mapped"
        /\ \A r \in Requests : nativeReply'[r] = "Success" =>
               nativeReply[r] = "Success" \/ phase'[reqBuffer[r]] = "mapped"
    <2>1. CASE NativeAnswers(b, "Success", "mapped")
      BY <1>1, <1>2, <1>3, <2>1 DEF NativeAnswers
    <2>2. CASE NativeAnswers(b, "DeviceLost", "lost")
      BY <1>1, <1>2, <1>3, <2>2 DEF NativeAnswers
    <2> QED
      BY <1>1, <2>1, <2>2
  <1> QED
    BY <1>1, <1>4, SidesKept

LEMMA SidesInit == Init => BothSidesInv
  <1> SUFFICES ASSUME Init PROVE BothSidesInv
    OBVIOUS
  <1>1. \A r \in Requests : ~Safe(r)
    BY DEF Init, Safe, Waiting
  <1>2. \A b \in Buffers : ~mReadHandle[b] /\ ~mWriteHandle[b]
    BY DEF Init
  <1> QED
    BY <1>1, <1>2 DEF BothSidesInv, SafeInv, MappedInv, ClientMaps

LEMMA SidesPreserved == GrantInv /\ BothSidesInv /\ [Next]_vars => BothSidesInv'
  <1> SUFFICES ASSUME GrantInv, BothSidesInv, [Next]_vars PROVE BothSidesInv'
    OBVIOUS
  <1>0. WireTypeOK /\ (Running => TalkInv) /\ SafeInv /\ MappedInv
    BY DEF GrantInv, BothSidesInv
  <1>1. ASSUME NEW k \in Kinds, CreateBuffer(k)
        PROVE  BothSidesInv'
    BY <1>0, <1>1, CreateSides DEF CreateBuffer, BothSidesInv
  <1>2. ASSUME NEW b \in Buffers, Unmap(b) \/ Destroy(b) \/ Release(b)
        PROVE  BothSidesInv'
    <2>1. Running
      BY <1>2 DEF Unmap, Destroy, Release
    <2> QED
      BY <1>0, <1>2, <2>1, ClientSides DEF BothSidesInv
  <1>3. ASSUME NEW r \in Requests, NEW b \in Buffers, MapAsync(r, b)
        PROVE  BothSidesInv'
    <2>1. Running
      BY <1>3 DEF MapAsync
    <2> QED
      BY <1>0, <1>3, <2>1, MapAsyncSides DEF BothSidesInv
  <1>4. CASE Disconnect
    BY <1>0, <1>4, DisconnectSides DEF BothSidesInv
  <1>5. CASE OnMapAsyncCallback
    <2>1. Running
      BY <1>5 DEF OnMapAsyncCallback
    <2> QED
      BY <1>0, <1>5, <2>1, CallbackSides DEF BothSidesInv
  <1>6. CASE ServerHandles
    <2>1. Running
      BY <1>6 DEF ServerHandles, DoDeviceCreateBuffer, DoBufferMapAsync,
            DoBufferUpdateMappedData, DoBufferUnmap, DoBufferDestroy, DoDestroyObject, Receive
    <2> QED
      BY <1>0, <1>6, <2>1, ServerSides DEF BothSidesInv
  <1>7. ASSUME NEW b \in Buffers, Grant(b) \/ AnswerLost(b)
        PROVE  BothSidesInv'
    <2>1. Running
      BY <1>7 DEF Grant, AnswerLost
    <2> QED
      BY <1>0, <1>7, <2>1, DeviceSides DEF BothSidesInv
  <1>8. CASE LoseDevice \/ UNCHANGED vars
    <2>1. UNCHANGED <<live, mMapState, mReadHandle, mWriteHandle, answer, clientStatus, reqBuffer,
                      toServer, phase, nativeReply>>
      BY <1>8 DEF LoseDevice, vars, clientVars, requestVars, wireVars, nativeVars
    <2>2. /\ \A x, n : OnWay(x, n)' <=> OnWay(x, n)
          /\ \A r : MapOnWay(r)' <=> MapOnWay(r)
          /\ \A r : Safe(r)' <=> Safe(r)
          /\ \A x : ClientMaps(x)' <=> ClientMaps(x)
      BY <2>1 DEF OnWay, MapOnWay, Safe, Waiting, ClientMaps
    <2>3. ASSUME NEW r \in Requests, Safe(r)', NEW b, b = reqBuffer[r]
          PROVE  Unended(r, b)'
      <3>1. Unended(r, b)
        BY <1>0, <2>2, <2>3 DEF SafeInv
      <3> QED
        BY <2>1, <2>2, <3>1 DEF Unended, Ends
    <2>4. SafeInv'
      BY <2>1, <2>3 DEF SafeInv, Unended, MapOnWay, OnWay, Ends
    <2>5. MappedInv'
      BY <1>0, <2>1, <2>2 DEF MappedInv, Ends
    <2> QED
      BY <2>4, <2>5 DEF BothSidesInv
  <1> QED
    BY <1>1, <1>2, <1>3, <1>4, <1>5, <1>6, <1>7, <1>8 DEF Next

(* Client and server agree on what is mapped: when the client has a buffer *)
(* mapped by a request the native buffer is mapped too, though the answers *)
(* of the server cross the client's Unmap, Destroy and release.            *)
THEOREM MappedTogether == Spec => []WireInv
  <1>1. Spec => [](GrantInv /\ BothSidesInv)
    BY GrantInit, GrantPreserved, SidesInit, SidesPreserved, PTL DEF Spec
  <1>2. GrantInv /\ BothSidesInv => WireInv
    BY DEF GrantInv, BothSidesInv, MappedInv, WireInv, MappedOnBothSides, ClientMaps
  <1> QED
    BY <1>1, <1>2, PTL

-----------------------------------------------------------------------------
(* What the client writes arrives.                                         *)

(* One buffer, when the server has taken a command.                        *)
LEMMA ArrivesTaken ==
    ASSUME ChannelTypeOK, NEW x \in Buffers, Arrives(x), toServer # <<>>,
           toServer' = Tail(toServer), NEW h, h = toServer[1],
           UNCHANGED <<kind, mMapState, mWriteHandle, mDisconnected, reqBuffer>>,
           phase'[x] \notin {"unmapped", "pending"},
           phase'[x] \in {"none", "mapped"} =>
               /\ phase[x] \in {"none", "mapped"}
               /\ phase'[x] = "none" => phase[x] = "none"
               /\ ~(h.buffer = x /\ h.cmd \in {"UpdateMappedData", "Destroy", "DestroyObject"}),
           \A r \in Requests : reqBuffer[r] = x /\ nativeReply[r] = "None" => nativeReply'[r] = "None"
    PROVE  Arrives(x)'
  <1>1. /\ \A j \in DOMAIN toServer' : \A n : Before(j + 1, x, n) <=>
              Before(j, x, n)' \/ (h.buffer = x /\ h.cmd \in n)
        /\ \A n : OnWay(x, n) <=> OnWay(x, n)' \/ (h.buffer = x /\ h.cmd \in n)
    BY TakenBefore DEF ChannelTypeOK
  <1>2. \A j \in DOMAIN toServer' : j + 1 \in DOMAIN toServer /\ toServer'[j] = toServer[j + 1]
    BY Shrunk DEF ChannelTypeOK
  <1>3. WillFlush(x)' <=> WillFlush(x)
    BY DEF WillFlush
  <1>4. ASSUME phase'[x] \in {"none", "mapped"}
        PROVE  /\ \A j \in DOMAIN toServer' : toServer'[j].buffer = x /\ toServer'[j].cmd = "Unmap"
                     => Before(j, x, Settles)'
               /\ mDisconnected' \/ WillFlush(x)' \/ OnWay(x, Settles)'
                  \/ OnWay(x, {"DestroyObject"})'
    <2>1. ~(h.buffer = x /\ h.cmd \in Settles) /\ ~(h.buffer = x /\ h.cmd \in {"DestroyObject"})
      BY <1>4 DEF Settles
    <2>2. /\ \A j \in DOMAIN toServer : toServer[j].buffer = x /\ toServer[j].cmd = "Unmap"
                => Before(j, x, Settles)
          /\ mDisconnected \/ WillFlush(x) \/ OnWay(x, Settles) \/ OnWay(x, {"DestroyObject"})
      BY <1>4 DEF Arrives
    <2>3. \A j \in DOMAIN toServer' : toServer'[j].buffer = x /\ toServer'[j].cmd = "Unmap"
             => Before(j, x, Settles)'
      BY <1>1, <1>2, <2>1, <2>2 DEF Settles
    <2>4. /\ OnWay(x, Settles) => OnWay(x, Settles)'
          /\ OnWay(x, {"DestroyObject"}) => OnWay(x, {"DestroyObject"})'
      BY <1>1, <2>1 DEF Settles
    <2> QED
      BY <1>3, <2>2, <2>3, <2>4
  <1>5. phase'[x] = "none" => AtCreation(kind'[x])
    BY DEF Arrives
  <1>6. MapsRead(kind'[x]) => \A r \in Requests : reqBuffer'[r] = x => nativeReply'[r] = "None"
    BY DEF Arrives
  <1> QED
    BY <1>4, <1>5, <1>6 DEF Arrives, Settles

(* One buffer, when commands are sent: an Unmap after what settles it.     *)
LEMMA ArrivesSent ==
    ASSUME ChannelTypeOK, NEW x \in Buffers, Arrives(x), NEW cmds \in Seq(Commands), Send(cmds),
           UNCHANGED <<phase, mDisconnected>>, kind'[x] = kind[x],
           \A r \in Requests : reqBuffer'[r] = x /\ nativeReply'[r] # "None" =>
               reqBuffer[r] = x /\ nativeReply[r] # "None",
           ~mDisconnected /\ phase[x] \in {"none", "mapped"} =>
               /\ \A i \in DOMAIN cmds : cmds[i].buffer = x /\ cmds[i].cmd = "Unmap" =>
                     \/ OnWay(x, Settles)
                     \/ \E k \in 1..(i - 1) : cmds[k].buffer = x /\ cmds[k].cmd \in Settles
               /\ WillFlush(x) => \/ WillFlush(x)'
                                  \/ \E i \in DOMAIN cmds : /\ cmds[i].buffer = x
                                                            /\ cmds[i].cmd \in
                                                                  Settles \cup {"DestroyObject"}
    PROVE  Arrives(x)'
  <1>1. phase'[x] = "none" => AtCreation(kind'[x])
    BY DEF Arrives
  <1>2. MapsRead(kind'[x]) => \A r \in Requests : reqBuffer'[r] = x => nativeReply'[r] = "None"
    BY DEF Arrives
  <1>3. CASE mDisconnected
    <2>1. toServer' = toServer
      BY <1>3 DEF Send
    <2>2. \A j, n : Before(j, x, n)' <=> Before(j, x, n)
      BY <2>1 DEF Before
    <2>3. phase[x] \in {"none", "mapped"} =>
            \A j \in DOMAIN toServer' : toServer'[j].buffer = x /\ toServer'[j].cmd = "Unmap"
               => Before(j, x, Settles)'
      BY <2>1, <2>2 DEF Arrives, Settles
    <2> QED
      BY <1>1, <1>2, <1>3, <2>3 DEF Arrives, Settles
  <1>4. CASE ~mDisconnected
    <2>1. toServer' = toServer \o cmds /\ toServer \in Seq(Commands)
      BY <1>4 DEF Send, ChannelTypeOK
    <2>2. /\ \A j \in DOMAIN toServer : \A n : Before(j, x, n)' <=> Before(j, x, n)
          /\ \A j \in DOMAIN toServer' : \A n :
                j \notin DOMAIN toServer /\ OnWay(x, n) => Before(j, x, n)'
          /\ \A n : OnWay(x, n)' <=>
                \/ OnWay(x, n)
                \/ \E i \in DOMAIN cmds : cmds[i].buffer = x /\ cmds[i].cmd \in n
      BY <2>1, SentBefore
    <2>3. /\ \A j \in DOMAIN toServer : toServer'[j] = toServer[j]
          /\ \A j \in DOMAIN toServer' :
                \/ j \in DOMAIN toServer
                \/ j > Len(toServer) /\ j - Len(toServer) \in DOMAIN cmds
                   /\ toServer'[j] = cmds[j - Len(toServer)]
          /\ \A i \in DOMAIN cmds : toServer'[Len(toServer) + i] = cmds[i]
      BY <2>1, Grown
    <2>4. /\ Len(toServer) \in Nat /\ DOMAIN cmds = 1..Len(cmds) /\ Len(cmds) \in Nat
          /\ DOMAIN toServer' = 1..(Len(toServer) + Len(cmds))
      BY <2>1, Grown, LenProperties
    <2>5. ASSUME phase[x] \in {"none", "mapped"}, NEW j \in DOMAIN toServer',
                 toServer'[j].buffer = x, toServer'[j].cmd = "Unmap"
          PROVE  Before(j, x, Settles)'
      <3>1. CASE j \in DOMAIN toServer
        BY <2>2, <2>3, <2>5, <3>1 DEF Arrives, Settles
      <3>2. CASE j \notin DOMAIN toServer
        <4>1. PICK i \in DOMAIN cmds : i = j - Len(toServer) /\ toServer'[j] = cmds[i]
          BY <2>3, <3>2
        <4>2. CASE OnWay(x, Settles)
          BY <2>2, <3>2, <4>2 DEF Settles
        <4>3. CASE \E k \in 1..(i - 1) : cmds[k].buffer = x /\ cmds[k].cmd \in Settles
          <5>1. PICK k \in 1..(i - 1) : cmds[k].buffer = x /\ cmds[k].cmd \in Settles
            BY <4>3
          <5>2. k \in DOMAIN cmds /\ Len(toServer) + k \in 1..(j - 1)
            BY <2>4, <4>1
          <5>3. toServer'[Len(toServer) + k] = cmds[k]
            BY <2>3, <5>2
          <5> QED
            BY <5>1, <5>2, <5>3 DEF Before, Settles
        <4> QED
          BY <1>4, <2>5, <4>1, <4>2, <4>3
      <3> QED
        BY <3>1, <3>2
    <2>6. ASSUME phase[x] \in {"none", "mapped"}
          PROVE  WillFlush(x)' \/ OnWay(x, Settles)' \/ OnWay(x, {"DestroyObject"})'
      <3>1. WillFlush(x) \/ OnWay(x, Settles) \/ OnWay(x, {"DestroyObject"})
        BY <1>4, <2>6 DEF Arrives
      <3>2. \/ WillFlush(x)' \/ OnWay(x, Settles) \/ OnWay(x, {"DestroyObject"})
            \/ \E i \in DOMAIN cmds : cmds[i].buffer = x /\ cmds[i].cmd \in Settles
            \/ \E i \in DOMAIN cmds : cmds[i].buffer = x /\ cmds[i].cmd \in {"DestroyObject"}
        BY <1>4, <2>6, <3>1
      <3> QED
        BY <2>2, <3>2 DEF Settles
    <2> QED
      BY <1>1, <1>2, <2>5, <2>6 DEF Arrives, Settles
  <1> QED
    BY <1>3, <1>4

LEMMA EachArrives ==
    ASSUME \A x \in Buffers : unflushed'[x] => Arrives(x)'
    PROVE  FlushInv' /\ WritesArriveFirst'
  BY DEF FlushInv, WritesArriveFirst, Arrives, Settles, Before, OnWay, WillFlush, AtCreation, MapsRead

LEMMA ClientArrives ==
    ASSUME WireTypeOK, TalkInv, FlushInv, NEW b \in Buffers, Unmap(b) \/ Destroy(b) \/ Release(b)
    PROVE  FlushInv' /\ WritesArriveFirst'
  <1>0. ChannelTypeOK /\ IdInv /\ CommandInv
    BY DEF TalkInv
  <1>1. /\ mMapState \in [Buffers -> {"Unmapped", "MappedForRead", "MappedForWrite",
                                      "MappedAtCreation"}]
        /\ mWriteHandle \in [Buffers -> BOOLEAN]
    BY DEF WireTypeOK
  <1>2. live[b] /\ UNCHANGED <<phase, mDisconnected, kind, reqBuffer, nativeReply, unflushed>>
    BY DEF Unmap, Destroy, Release, nativeVars
  <1>3. ~OnWay(b, {"DestroyObject"})
    <2>1. \A j \in DOMAIN toServer : toServer[j].cmd = "DestroyObject" => ~live[toServer[j].buffer]
      BY <1>0 DEF CommandInv, InOrder
    <2> QED
      BY <1>2, <2>1 DEF OnWay
  <1>4. CASE Unmap(b)
    <2>1. PICK u : u = Command("UpdateMappedData", b)
      OBVIOUS
    <2>2. PICK n : n = Command("Unmap", b)
      OBVIOUS
    <2>3. PICK cmds : cmds = IF WillFlush(b) THEN <<u, n>> ELSE <<n>>
      OBVIOUS
    <2>4. cmds \in Seq(Commands) /\ Send(cmds) /\ \A i \in DOMAIN cmds : cmds[i].buffer = b
      BY <1>0, <1>4, <2>1, <2>2, <2>3, UnmapSends
    <2>5. /\ u.buffer = b /\ u.cmd = "UpdateMappedData" /\ n.cmd = "Unmap"
      BY <2>1, <2>2 DEF Command
    <2>6. \A x \in Buffers : x # b => (WillFlush(x)' <=> WillFlush(x))
      <3>1. \A x \in Buffers : x # b => mMapState'[x] = mMapState[x]
                                        /\ (mWriteHandle'[x] <=> mWriteHandle[x])
        BY <1>1, <1>4 DEF Unmap
      <3> QED
        BY <3>1 DEF WillFlush
    <2>7. ASSUME NEW x \in Buffers, unflushed'[x]
          PROVE  Arrives(x)'
      <3>1. Arrives(x)
        BY <1>2, <2>7 DEF FlushInv
      <3>2. CASE x # b
        BY <1>0, <1>2, <2>4, <2>6, <3>1, <3>2, ArrivesSent
      <3>3. CASE x = b /\ WillFlush(b)
        <4>1. cmds = <<u, n>>
          BY <2>3, <3>3
        <4>2. 1 \in DOMAIN cmds /\ DOMAIN cmds = {1, 2} /\ cmds[1] = u /\ cmds[2] = n
          BY <4>1
        <4>3. \A i \in DOMAIN cmds : cmds[i].cmd = "Unmap" =>
                 \E k \in 1..(i - 1) : cmds[k].buffer = b /\ cmds[k].cmd \in Settles
          <5> SUFFICES ASSUME NEW i \in DOMAIN cmds, cmds[i].cmd = "Unmap"
                       PROVE  \E k \in 1..(i - 1) : cmds[k].buffer = b /\ cmds[k].cmd \in Settles
            OBVIOUS
          <5>1. i = 2
            BY <2>5, <4>2
          <5>2. 1 \in 1..(i - 1)
            BY <5>1
          <5> QED
            BY <2>5, <4>2, <5>2 DEF Settles
        <4>4. \E i \in DOMAIN cmds : cmds[i].buffer = b /\ cmds[i].cmd \in Settles \cup {"DestroyObject"}
          BY <2>5, <4>2 DEF Settles
        <4> QED
          BY <1>0, <1>2, <2>4, <3>1, <3>3, <4>3, <4>4, ArrivesSent
      <3>4. CASE x = b /\ ~WillFlush(b)
        <4>1. ~mDisconnected /\ phase[b] \in {"none", "mapped"} => OnWay(b, Settles)
          BY <1>3, <3>1, <3>4 DEF Arrives
        <4> QED
          BY <1>0, <1>2, <2>4, <3>1, <3>4, <4>1, ArrivesSent
      <3> QED
        BY <3>2, <3>3, <3>4
    <2> QED
      BY <2>7, EachArrives
  <1>5. CASE Destroy(b) \/ Release(b)
    <2>1. PICK name \in {"Destroy", "DestroyObject"} : Send(<<Command(name, b)>>)
      BY <1>5 DEF Destroy, Release
    <2>2. PICK cmds : cmds = <<Command(name, b)>>
      OBVIOUS
    <2>3. /\ cmds \in Seq(Commands) /\ Send(cmds) /\ Len(cmds) = 1
          /\ \A i \in DOMAIN cmds : cmds[i].buffer = b /\ cmds[i].cmd = name
      BY <1>0, <1>2, <2>1, <2>2, OneSent DEF Names
    <2>4. \A x \in Buffers : x # b => (WillFlush(x)' <=> WillFlush(x))
      <3>1. mMapState' = mMapState /\ mWriteHandle' = [mWriteHandle EXCEPT ![b] = FALSE]
        BY <1>5 DEF Destroy, Release
      <3> QED
        BY <1>1, <3>1 DEF WillFlush
    <2>5. ASSUME NEW x \in Buffers, unflushed'[x]
          PROVE  Arrives(x)'
      <3>1. Arrives(x)
        BY <1>2, <2>5 DEF FlushInv
      <3>2. \A i \in DOMAIN cmds : cmds[i].cmd # "Unmap"
        BY <2>3
      <3>3. 1 \in DOMAIN cmds
        BY <2>3, LenProperties
      <3>4. x = b => \E i \in DOMAIN cmds : cmds[i].buffer = x /\
                        cmds[i].cmd \in Settles \cup {"DestroyObject"}
        BY <2>3, <3>3 DEF Settles
      <3> QED
        BY <1>0, <1>2, <2>3, <2>4, <3>1, <3>2, <3>4, ArrivesSent
    <2> QED
      BY <2>5, EachArrives
  <1> QED
    BY <1>4, <1>5

LEMMA MapAsyncArrives ==
    ASSUME WireTypeOK, TalkInv, FlushInv, NEW r \in Requests, NEW b \in Buffers, MapAsync(r, b)
    PROVE  FlushInv' /\ WritesArriveFirst'
  <1>0. ChannelTypeOK /\ IdInv
    BY DEF TalkInv
  <1>1. /\ live[b] /\ nativeReply[r] = "None"
        /\ UNCHANGED <<kind, mMapState, mWriteHandle, mDisconnected, phase, nativeReply, unflushed>>
        /\ \A q \in Requests : q # r => reqBuffer'[q] = reqBuffer[q]
    BY MapAsyncEffects, ZenonT(30) DEF nativeVars
  <1>2. PICK c : c = [cmd |-> "MapAsync", id |-> id[b], buffer |-> b,
                      serial |-> mSerial[b] + 1, request |-> r]
    OBVIOUS
  <1>3. PICK cmds : cmds = <<c>>
    OBVIOUS
  <1>4. Send(cmds)
    BY <1>2, <1>3, MapAsyncEffects DEF Send
  <1>5. c \in Commands /\ c.cmd = "MapAsync"
    <2>1. mSerial[b] \in Nat
      BY WireBounds DEF WireTypeOK
    <2>2. id[b] \in Ids
      BY <1>0, <1>1, LiveIds
    <2>3. mSerial[b] + 1 \in Nat
      BY <2>1
    <2>4. [cmd |-> "MapAsync", id |-> id[b], buffer |-> b, serial |-> mSerial[b] + 1,
           request |-> r] \in Commands
      BY <2>2, <2>3, CommandsMade
    <2> QED
      BY <1>2, <2>4
  <1>6. cmds \in Seq(Commands) /\ \A i \in DOMAIN cmds : cmds[i].cmd = "MapAsync"
    BY <1>3, <1>5
  <1>7. \A x : WillFlush(x)' <=> WillFlush(x)
    BY <1>1 DEF WillFlush
  <1>8. ASSUME NEW x \in Buffers, unflushed'[x]
        PROVE  Arrives(x)'
    <2>1. Arrives(x)
      BY <1>1, <1>8 DEF FlushInv
    <2>2. \A i \in DOMAIN cmds : cmds[i].cmd # "Unmap"
      BY <1>6
    <2>3. \A q \in Requests : reqBuffer'[q] = x /\ nativeReply'[q] # "None" =>
             reqBuffer[q] = x /\ nativeReply[q] # "None"
      BY <1>1
    <2> QED
      BY <1>0, <1>1, <1>4, <1>6, <1>7, <2>1, <2>2, <2>3, ArrivesSent
  <1> QED
    BY <1>8, EachArrives

LEMMA CreateArrives ==
    ASSUME WireTypeOK, TalkInv, FlushInv, NEW k \in Kinds, CreateBuffer(k)
    PROVE  FlushInv' /\ WritesArriveFirst'
  <1>0. ChannelTypeOK /\ IdInv /\ CommandInv /\ SerialInv
    BY DEF TalkInv
  <1>1. PICK b : b = created + 1
    OBVIOUS
  <1>2. /\ b \in Buffers /\ NewId \in Ids /\ NewGeneration(NewId) \in 0..MaxGeneration
        /\ ~IsCreated(b)
    <2>1. ~IsCreated(b)
      BY <1>1, WireBounds DEF IsCreated, WireTypeOK
    <2> QED
      BY <1>0, <1>1, <2>1, NewIdTypes DEF CreateBuffer
  <1>3. PICK c : c = [cmd |-> "Create", id |-> NewId, generation |-> NewGeneration(NewId),
                      buffer |-> b]
    OBVIOUS
  <1>4. c \in Commands /\ c.cmd = "Create"
    BY <1>2, <1>3, CommandsMade
  <1>5. PICK cmds : cmds = <<c>>
    OBVIOUS
  <1>6. /\ Send(cmds) /\ kind' = [kind EXCEPT ![b] = k]
        /\ mWriteHandle' = [mWriteHandle EXCEPT ![b] = MapsWrite(k) \/ AtCreation(k)]
        /\ mMapState' = [mMapState EXCEPT ![b] =
                IF AtCreation(k) THEN "MappedAtCreation" ELSE "Unmapped"]
        /\ unflushed' = [unflushed EXCEPT ![b] = AtCreation(k)]
        /\ UNCHANGED <<reqBuffer, phase, nativeReply, mDisconnected>>
    BY <1>1, <1>3, <1>5 DEF CreateBuffer, NewId, requestVars, nativeVars
  <1>7. cmds \in Seq(Commands) /\ \A i \in DOMAIN cmds : cmds[i].cmd = "Create"
    BY <1>4, <1>5
  <1>8. /\ mMapState \in [Buffers -> {"Unmapped", "MappedForRead", "MappedForWrite",
                                      "MappedAtCreation"}]
        /\ kind \in [Buffers -> AllKinds] /\ mWriteHandle \in [Buffers -> BOOLEAN]
        /\ unflushed \in [Buffers -> BOOLEAN]
    BY DEF WireTypeOK
  <1>9. ASSUME NEW x \in Buffers, unflushed'[x], x # b
        PROVE  Arrives(x)'
    <2>1. kind'[x] = kind[x] /\ unflushed[x] /\ mWriteHandle'[x] = mWriteHandle[x]
          /\ mMapState'[x] = mMapState[x]
      BY <1>2, <1>6, <1>8, <1>9
    <2>2. WillFlush(x)' <=> WillFlush(x)
      BY <2>1 DEF WillFlush
    <2>3. Arrives(x)
      BY <2>1 DEF FlushInv
    <2>4. \A i \in DOMAIN cmds : cmds[i].cmd # "Unmap"
      BY <1>7
    <2> QED
      BY <1>0, <1>6, <1>7, <2>1, <2>2, <2>3, <2>4, ArrivesSent
  <1>10. ASSUME unflushed'[b]
         PROVE  Arrives(b)'
    <2>1. /\ AtCreation(k) /\ kind'[b] = k /\ mMapState'[b] = "MappedAtCreation" /\ mWriteHandle'[b]
      BY <1>2, <1>6, <1>8, <1>10
    <2>2. WillFlush(b)'
      BY <2>1 DEF WillFlush
    <2>3. phase[b] = "none"
      BY <1>0, <1>2 DEF IdInv
    <2>4. \A j \in DOMAIN toServer : toServer[j].buffer # b
      <3> SUFFICES ASSUME NEW j \in DOMAIN toServer PROVE toServer[j].buffer # b
        OBVIOUS
      <3>1. IsCreated(toServer[j].buffer)
        BY <1>0 DEF CommandInv, InOrder
      <3> QED
        BY <1>2, <3>1
    <2>5. \A j \in DOMAIN toServer' : toServer'[j].buffer = b => toServer'[j].cmd = "Create"
      <3>1. CASE mDisconnected
        BY <1>6, <2>4, <3>1 DEF Send
      <3>2. CASE ~mDisconnected
        <4>1. toServer' = toServer \o cmds /\ toServer \in Seq(Commands)
          BY <1>0, <1>6, <3>2 DEF Send, ChannelTypeOK
        <4>2. /\ \A j \in DOMAIN toServer : toServer'[j] = toServer[j]
              /\ \A j \in DOMAIN toServer' :
                    \/ j \in DOMAIN toServer
                    \/ j - Len(toServer) \in DOMAIN cmds /\ toServer'[j] = cmds[j - Len(toServer)]
          BY <1>7, <4>1, Grown
        <4> QED
          BY <1>7, <2>4, <4>2
      <3> QED
        BY <3>1, <3>2
    <2>6. \A r \in Requests : reqBuffer[r] = b => nativeReply[r] = "None"
      BY <1>0, <1>2 DEF SerialInv
    <2>7. \A j \in DOMAIN toServer' : toServer'[j].buffer = b /\ toServer'[j].cmd = "Unmap"
             => Before(j, b, Settles)'
      BY <2>5
    <2> QED
      BY <1>6, <2>1, <2>2, <2>3, <2>6, <2>7 DEF Arrives, Settles
  <1>11. \A x \in Buffers : unflushed'[x] => Arrives(x)'
    <2> SUFFICES ASSUME NEW x \in Buffers, unflushed'[x] PROVE Arrives(x)'
      OBVIOUS
    <2>1. CASE x = b
      BY <1>10, <2>1
    <2>2. CASE x # b
      BY <1>9, <2>2
    <2> QED
      BY <2>1, <2>2
  <1> QED
    BY <1>11, EachArrives

(* One buffer, when nothing is sent or taken.                              *)
LEMMA ArrivesKept ==
    ASSUME NEW x \in Buffers, Arrives(x), UNCHANGED <<toServer, kind, mDisconnected, reqBuffer>>,
           phase'[x] = phase[x], WillFlush(x) => WillFlush(x)',
           \A r \in Requests : reqBuffer[r] = x => nativeReply'[r] = nativeReply[r]
    PROVE  Arrives(x)'
  <1>1. /\ \A j, n : Before(j, x, n)' <=> Before(j, x, n)
        /\ \A n : OnWay(x, n)' <=> OnWay(x, n)
    BY DEF Before, OnWay
  <1>2. phase[x] \in {"none", "mapped"} =>
          /\ \A j \in DOMAIN toServer' : toServer'[j].buffer = x /\ toServer'[j].cmd = "Unmap"
                => Before(j, x, Settles)'
          /\ mDisconnected' \/ WillFlush(x)' \/ OnWay(x, Settles)' \/ OnWay(x, {"DestroyObject"})'
    BY <1>1 DEF Arrives, Settles
  <1>3. MapsRead(kind'[x]) => \A r \in Requests : reqBuffer'[r] = x => nativeReply'[r] = "None"
    BY DEF Arrives
  <1>4. /\ phase'[x] \notin {"unmapped", "pending"}
        /\ phase'[x] = "none" => AtCreation(kind'[x])
    BY DEF Arrives
  <1> QED
    BY <1>2, <1>3, <1>4 DEF Arrives, Settles

LEMMA DisconnectArrives ==
    ASSUME FlushInv, Disconnect
    PROVE  FlushInv' /\ WritesArriveFirst'
  <1>1. /\ toServer' = <<>> /\ mDisconnected'
        /\ UNCHANGED <<kind, phase, reqBuffer, nativeReply, unflushed>>
    BY DEF Disconnect, clientVars, nativeVars
  <1>2. ASSUME NEW x \in Buffers, unflushed'[x]
        PROVE  Arrives(x)'
    <2>1. Arrives(x)
      BY <1>1, <1>2 DEF FlushInv
    <2>2. DOMAIN toServer' = {}
      BY <1>1
    <2> QED
      BY <1>1, <2>1, <2>2 DEF Arrives
  <1> QED
    BY <1>2, EachArrives

LEMMA CallbackArrives ==
    ASSUME WireTypeOK, TalkInv, SafeInv, FlushInv, OnMapAsyncCallback
    PROVE  FlushInv' /\ WritesArriveFirst'
  <1>0. MapCommandInv
    BY DEF TalkInv
  <1>1. UNCHANGED <<kind, mWriteHandle, reqBuffer, toServer, phase, nativeReply, mDisconnected>>
    BY CallbackEffect DEF nativeVars
  <1>2. ASSUME NEW x \in Buffers, unflushed[x], mMapState'[x] = mMapState[x]
        PROVE  Arrives(x)'
    <2>1. Arrives(x)
      BY <1>2 DEF FlushInv
    <2>2. WillFlush(x) => WillFlush(x)'
      BY <1>1, <1>2 DEF WillFlush
    <2> QED
      BY <1>1, <2>1, <2>2, ArrivesKept
  <1>3. CASE UNCHANGED <<mMapState, unflushed>>
    <2>1. \A x \in Buffers : unflushed'[x] => Arrives(x)'
      BY <1>2, <1>3
    <2> QED
      BY <2>1, EachArrives
  <1>4. ASSUME NEW r \in Requests, NEW b \in Buffers, NEW reply \in Statuses,
               AnswerRequest(r, b, reply), reqBuffer[r] = b, answer[r] = "Waiting",
               reply = "Success" => nativeReply[r] = "Success"
        PROVE  FlushInv' /\ WritesArriveFirst'
    <2> DEFINE status == FinalStatus(r, reply)
               handle == IF MapsRead(kind[b]) THEN mReadHandle[b] ELSE mWriteHandle[b]
               mapped == status = "Success" /\ handle
    <2>1. /\ mMapState' = [mMapState EXCEPT ![b] =
                IF ~mapped THEN @
                ELSE IF MapsRead(kind[b]) THEN "MappedForRead" ELSE "MappedForWrite"]
          /\ unflushed' = [unflushed EXCEPT ![b] = @ \/ (mapped /\ ~MapsRead(kind[b]))]
      BY <1>4 DEF AnswerRequest
    <2>2. /\ mMapState \in [Buffers -> {"Unmapped", "MappedForRead", "MappedForWrite",
                                        "MappedAtCreation"}]
          /\ unflushed \in [Buffers -> BOOLEAN]
      BY DEF WireTypeOK
    <2>3. mapped => /\ nativeReply[r] = "Success" /\ phase[b] = "mapped" /\ ~OnWay(b, Ends)
      <3> SUFFICES ASSUME mapped
                   PROVE  nativeReply[r] = "Success" /\ phase[b] = "mapped" /\ ~OnWay(b, Ends)
        OBVIOUS
      <3>1. reply = "Success" /\ clientStatus[r] = "Success"
        BY DEF FinalStatus
      <3>2. nativeReply[r] = "Success"
        BY <1>4, <3>1
      <3>3. Unended(r, b)
        BY <1>4, <3>1 DEF SafeInv, Safe, Waiting
      <3>4. ~MapOnWay(r)
        BY <1>0, <3>2 DEF MapOnWay, MapCommandInv
      <3> QED
        BY <3>2, <3>3, <3>4 DEF Unended
    <2>4. mapped /\ ~MapsRead(kind[b]) => mWriteHandle[b]
      OBVIOUS
    <2>5. /\ \A x \in Buffers : x # b => mMapState'[x] = mMapState[x] /\ unflushed'[x] = unflushed[x]
          /\ ~mapped => mMapState'[b] = mMapState[b] /\ unflushed'[b] = unflushed[b]
          /\ mapped /\ MapsRead(kind[b]) => unflushed'[b] = unflushed[b]
          /\ mapped /\ ~MapsRead(kind[b]) => mMapState'[b] = "MappedForWrite"
      BY <2>1, <2>2
    <2> HIDE DEF mapped
    <2>6. ASSUME NEW x \in Buffers, unflushed'[x]
          PROVE  Arrives(x)'
      <3>1. CASE x # b \/ ~mapped
        BY <1>2, <2>5, <2>6, <3>1
      <3>2. CASE x = b /\ mapped /\ MapsRead(kind[b])
        <4>1. Arrives(b)
          BY <2>5, <2>6, <3>2 DEF FlushInv
        <4>2. nativeReply[r] = "None"
          BY <1>4, <3>2, <4>1 DEF Arrives
        <4> QED
          BY <2>3, <3>2, <4>2
      <3>3. CASE x = b /\ mapped /\ ~MapsRead(kind[b])
        <4>1. WillFlush(b)'
          BY <1>1, <2>4, <2>5, <3>3 DEF WillFlush
        <4>2. \A j \in DOMAIN toServer : ~(toServer[j].buffer = b /\ toServer[j].cmd = "Unmap")
          BY <2>3, <3>3 DEF OnWay, Ends
        <4> QED
          BY <1>1, <2>3, <3>3, <4>1, <4>2 DEF Arrives, Settles
      <3> QED
        BY <3>1, <3>2, <3>3
    <2> QED
      BY <2>6, EachArrives
  <1> QED
    BY <1>3, <1>4, CallbackEffect

LEMMA ServerArrives ==
    ASSUME WireTypeOK, TalkInv, FlushInv, ServerHandles, Running'
    PROVE  FlushInv' /\ WritesArriveFirst'
  <1>0. ChannelTypeOK /\ IdInv /\ CommandInv /\ MapCommandInv /\ PendingInv /\ KnownInv
    BY DEF TalkInv
  <1>01. PICK h : h = Head(toServer)
    OBVIOUS
  <1>02. /\ nativeReply \in [Requests -> {"None", "Waiting"} \cup Statuses]
         /\ phase \in [Buffers -> {"none", "error", "unmapped", "pending", "mapped", "lost", "gone"}]
         /\ unflushed \in [Buffers -> BOOLEAN]
    BY DEF WireTypeOK
  <1> DEFINE Client == UNCHANGED <<kind, mMapState, mWriteHandle, mDisconnected, reqBuffer>>
  <1>1. ASSUME NEW b \in Buffers, NEW status, NEW newPhase, NativeAnswers(b, status, newPhase)
        PROVE  /\ \A r \in Requests : nativeReply[r] = "None" => nativeReply'[r] = "None"
               /\ phase'[b] = newPhase /\ \A x \in Buffers : x # b => phase'[x] = phase[x]
    <2>1. phase[b] = "pending" => owner[b] \in Requests /\ nativeReply[owner[b]] = "Waiting"
      BY <1>0 DEF PendingInv
    <2> QED
      BY <1>1, <1>02, <2>1 DEF NativeAnswers
  <1>2. ASSUME NEW x \in Buffers, unflushed[x]
        PROVE  Arrives(x) /\ phase[x] \notin {"unmapped", "pending"}
    BY <1>2 DEF FlushInv, Arrives
  <1>3. CASE DoBufferUnmap
    <2>1. /\ h.cmd = "Unmap" /\ h = toServer[1] /\ 1 \in DOMAIN toServer
          /\ toServer # <<>> /\ toServer' = Tail(toServer) /\ h.buffer \in Buffers
          /\ InServer(h.buffer) /\ h.id = id[h.buffer] /\ h.id \in Ids
      BY <1>0, <1>01, <1>3, FirstCommand DEF DoBufferUnmap
    <2>2. Client /\ unflushed' = unflushed
      BY <1>01, <1>3, UnmapEffect DEF clientVars, requestVars
    <2>3. \/ /\ phase[h.buffer] \in {"pending", "mapped"}
             /\ NativeAnswers(h.buffer, "Unmapped", "unmapped")
          \/ UNCHANGED <<phase, nativeReply>>
      BY <1>01, <1>3, UnmapEffect
    <2>4. unflushed[h.buffer] => phase[h.buffer] \notin {"pending", "mapped"}
      <3> SUFFICES ASSUME unflushed[h.buffer], phase[h.buffer] = "mapped" PROVE FALSE
        BY <1>2, <2>1
      <3>1. Arrives(h.buffer)
        BY <1>2, <2>1
      <3>2. Before(1, h.buffer, Settles)
        BY <2>1, <3>1 DEF Arrives
      <3> QED
        BY <3>2, FirstBefore
    <2>5. /\ \A r \in Requests : nativeReply[r] = "None" => nativeReply'[r] = "None"
          /\ \A x \in Buffers : unflushed[x] => phase'[x] = phase[x]
      <3>1. CASE phase[h.buffer] \in {"pending", "mapped"} /\ NativeAnswers(h.buffer, "Unmapped", "unmapped")
        BY <1>1, <2>1, <2>4, <3>1
      <3>2. CASE UNCHANGED <<phase, nativeReply>>
        BY <3>2
      <3> QED
        BY <2>3, <3>1, <3>2
    <2>6. ASSUME NEW x \in Buffers, unflushed'[x]
          PROVE  Arrives(x)'
      <3>1. Arrives(x) /\ phase'[x] = phase[x] /\ phase[x] \notin {"unmapped", "pending"}
        BY <1>2, <2>2, <2>5, <2>6
      <3> QED
        BY <1>0, <2>1, <2>2, <2>5, <3>1, ArrivesTaken
    <2> QED
      BY <2>6, EachArrives
  <1>4. CASE DoBufferDestroy
    <2>1. /\ h.cmd = "Destroy" /\ h = toServer[1] /\ 1 \in DOMAIN toServer
          /\ toServer # <<>> /\ toServer' = Tail(toServer) /\ h.buffer \in Buffers
      BY <1>0, <1>01, <1>4, FirstCommand DEF DoBufferDestroy
    <2>2. Client /\ unflushed' = unflushed
      BY <1>01, <1>4, DestroyEffect DEF clientVars, requestVars
    <2>3. \/ NativeAnswers(h.buffer, CallbackStatus("Destroyed"), "gone")
          \/ phase[h.buffer] = "error" /\ UNCHANGED <<phase, nativeReply>>
      BY <1>01, <1>4, DestroyEffect
    <2>4. /\ \A r \in Requests : nativeReply[r] = "None" => nativeReply'[r] = "None"
          /\ \A x \in Buffers : x # h.buffer => phase'[x] = phase[x]
          /\ phase'[h.buffer] \in {"gone", "error"}
      BY <1>1, <2>1, <2>3
    <2>5. ASSUME NEW x \in Buffers, unflushed'[x]
          PROVE  Arrives(x)'
      <3>1. Arrives(x) /\ phase[x] \notin {"unmapped", "pending"}
        BY <1>2, <2>2, <2>5
      <3>2. /\ phase'[x] \notin {"unmapped", "pending"}
            /\ phase'[x] \in {"none", "mapped"} => x # h.buffer /\ phase'[x] = phase[x]
        BY <2>4, <3>1
      <3> QED
        BY <1>0, <2>1, <2>2, <2>4, <3>1, <3>2, ArrivesTaken
    <2> QED
      BY <2>5, EachArrives
  <1>5. CASE DoDestroyObject
    <2>1. /\ h.cmd = "DestroyObject" /\ h = toServer[1]
          /\ toServer # <<>> /\ toServer' = Tail(toServer) /\ h.buffer \in Buffers
      BY <1>0, <1>01, <1>5, FirstCommand DEF DoDestroyObject
    <2>2. Client /\ UNCHANGED <<unflushed, nativeReply>>
      BY <1>01, <1>5, DestroyObjectEffect DEF clientVars, requestVars
    <2>3. /\ phase'[h.buffer] = IF phase[h.buffer] \in {"error", "pending"} THEN phase[h.buffer]
                                                                          ELSE "gone"
          /\ \A x \in Buffers : x # h.buffer => phase'[x] = phase[x]
      BY <1>01, <1>5, DestroyObjectEffect
    <2>4. ASSUME NEW x \in Buffers, unflushed'[x]
          PROVE  Arrives(x)'
      <3>1. Arrives(x) /\ phase[x] \notin {"unmapped", "pending"}
        BY <1>2, <2>2, <2>4
      <3>2. /\ phase'[x] \notin {"unmapped", "pending"}
            /\ phase'[x] \in {"none", "mapped"} => x # h.buffer /\ phase'[x] = phase[x]
        BY <2>3, <3>1
      <3> QED
        BY <1>0, <2>1, <2>2, <3>1, <3>2, ArrivesTaken
    <2> QED
      BY <2>4, EachArrives
  <1>6. CASE DoBufferUpdateMappedData
    <2>1. /\ h.cmd = "UpdateMappedData" /\ h = toServer[1]
          /\ toServer # <<>> /\ toServer' = Tail(toServer) /\ h.buffer \in Buffers
      BY <1>0, <1>01, <1>6, FirstCommand DEF DoBufferUpdateMappedData
    <2>2. Client /\ UNCHANGED <<phase, nativeReply>>
          /\ unflushed' = [unflushed EXCEPT ![h.buffer] = FALSE]
      BY <1>01, <1>6, UpdateEffect DEF clientVars, requestVars
    <2>3. \A x \in Buffers : unflushed'[x] => x # h.buffer /\ unflushed[x]
      BY <1>02, <2>1, <2>2
    <2>4. ASSUME NEW x \in Buffers, unflushed'[x]
          PROVE  Arrives(x)'
      <3>1. Arrives(x) /\ phase[x] \notin {"unmapped", "pending"} /\ x # h.buffer
        BY <1>2, <2>3, <2>4
      <3> QED
        BY <1>0, <2>1, <2>2, <3>1, ArrivesTaken
    <2> QED
      BY <2>4, EachArrives
  <1>7. CASE DoDeviceCreateBuffer
    <2>1. /\ h.cmd = "Create" /\ InOrder(1, h) /\ h = toServer[1]
          /\ toServer # <<>> /\ toServer' = Tail(toServer) /\ h.buffer \in Buffers
      BY <1>0, <1>01, <1>7, FirstCommand DEF DoDeviceCreateBuffer
    <2>2. phase[h.buffer] = "none"
      BY <2>1 DEF InOrder
    <2>3. Client /\ UNCHANGED <<unflushed, nativeReply>>
          /\ \A x \in Buffers : x # h.buffer => phase'[x] = phase[x]
      BY <1>01, <1>7, CreateEffect DEF clientVars, requestVars
    <2>4. \/ phase'[h.buffer] \in {"error", "mapped"}
          \/ phase'[h.buffer] = "unmapped" /\ ~AtCreation(kind[h.buffer])
      BY <1>01, <1>7, CreateEffect
    <2>5. ASSUME NEW x \in Buffers, unflushed'[x]
          PROVE  Arrives(x)'
      <3>1. Arrives(x) /\ phase[x] \notin {"unmapped", "pending"}
        BY <1>2, <2>3, <2>5
      <3>2. x = h.buffer => AtCreation(kind[x])
        BY <2>2, <3>1 DEF Arrives
      <3>3. /\ phase'[x] \notin {"unmapped", "pending"}
            /\ phase'[x] \in {"none", "mapped"} =>
                  /\ phase[x] \in {"none", "mapped"}
                  /\ phase'[x] = "none" => phase[x] = "none"
        BY <2>2, <2>3, <2>4, <3>1, <3>2
      <3> QED
        BY <1>0, <2>1, <2>3, <3>1, <3>3, ArrivesTaken
    <2> QED
      BY <2>5, EachArrives
  <1>8. CASE DoBufferMapAsync
    <2>1. /\ h.cmd = "MapAsync" /\ h = toServer[1] /\ h \in Commands /\ 1 \in DOMAIN toServer
          /\ toServer # <<>> /\ toServer' = Tail(toServer) /\ h.buffer \in Buffers
      BY <1>0, <1>01, <1>8, FirstCommand DEF DoBufferMapAsync
    <2>2. h.request \in Requests /\ reqBuffer[h.request] = h.buffer
      BY <1>0, <2>1, CommandTypes DEF MapCommandInv
    <2>3. Client /\ unflushed' = unflushed
      BY <1>01, <1>8, MapAsyncEffect DEF clientVars, requestVars
    <2>4. \/ /\ phase[h.buffer] = "unmapped" /\ phase' = [phase EXCEPT ![h.buffer] = "pending"]
             /\ nativeReply' = [nativeReply EXCEPT ![h.request] = "Waiting"]
          \/ UNCHANGED <<phase, nativeReply>>
      BY <1>01, <1>8, MapAsyncEffect
    <2>5. ASSUME NEW x \in Buffers, unflushed'[x]
          PROVE  Arrives(x)'
      <3>1. Arrives(x) /\ phase[x] \notin {"unmapped", "pending"}
        BY <1>2, <2>3, <2>5
      <3>2. /\ phase'[x] = phase[x]
            /\ \A r \in Requests : reqBuffer[r] = x => nativeReply'[r] = nativeReply[r]
        BY <1>02, <2>1, <2>2, <2>4, <3>1
      <3> QED
        BY <1>0, <2>1, <2>3, <3>1, <3>2, ArrivesTaken
    <2> QED
      BY <2>5, EachArrives
  <1> QED
    BY <1>3, <1>4, <1>5, <1>6, <1>7, <1>8 DEF ServerHandles

LEMMA DeviceArrives ==
    ASSUME WireTypeOK, TalkInv, FlushInv, NEW b \in Buffers, Grant(b) \/ AnswerLost(b)
    PROVE  FlushInv' /\ WritesArriveFirst'
  <1>0. PendingInv
    BY DEF TalkInv
  <1>1. /\ phase[b] = "pending"
        /\ UNCHANGED <<toServer, kind, mMapState, mWriteHandle, mDisconnected, reqBuffer, unflushed>>
        /\ NativeAnswers(b, "Success", "mapped") \/ NativeAnswers(b, "DeviceLost", "lost")
    BY DeviceEffect DEF clientVars, requestVars
  <1>2. /\ nativeReply \in [Requests -> {"None", "Waiting"} \cup Statuses]
        /\ phase \in [Buffers -> {"none", "error", "unmapped", "pending", "mapped", "lost", "gone"}]
    BY DEF WireTypeOK
  <1>3. owner[b] \in Requests /\ reqBuffer[owner[b]] = b
    BY <1>0, <1>1 DEF PendingInv
  <1>4. /\ \A x \in Buffers : x # b => phase'[x] = phase[x]
        /\ \A r \in Requests : r # owner[b] => nativeReply'[r] = nativeReply[r]
    BY <1>1, <1>2, <1>3 DEF NativeAnswers
  <1>5. ASSUME NEW x \in Buffers, unflushed'[x]
        PROVE  Arrives(x)'
    <2>1. Arrives(x) /\ x # b
      BY <1>1, <1>5 DEF FlushInv, Arrives
    <2>2. WillFlush(x) => WillFlush(x)'
      BY <1>1 DEF WillFlush
    <2>3. \A r \in Requests : reqBuffer[r] = x => nativeReply'[r] = nativeReply[r]
      BY <1>3, <1>4, <2>1
    <2> QED
      BY <1>1, <1>4, <2>1, <2>2, <2>3, ArrivesKept
  <1> QED
    BY <1>5, EachArrives

LEMMA ArriveInit == Init => ArriveInv
  BY DEF Init, ArriveInv, WritesArriveFirst, FlushInv

(* A handler that fails leaves the buffers as they are.                    *)
LEMMA FailureKeeps ==
    ASSUME ServerHandles, ~Running'
    PROVE  UNCHANGED <<phase, owner, nativeReply, reqBuffer, unflushed>>
  <1>0. Running
    BY DEF ServerHandles, DoDeviceCreateBuffer, DoBufferMapAsync,
          DoBufferUpdateMappedData, DoBufferUnmap, DoBufferDestroy, DoDestroyObject, Receive
  <1>1. ServerFails => UNCHANGED <<phase, owner, nativeReply, reqBuffer, unflushed>>
    BY DEF ServerFails, nativeVars, requestVars
  <1>2. wireError' # wireError
    BY <1>0 DEF Running
  <1>3. CASE DoDeviceCreateBuffer
    BY <1>1, <1>2, <1>3 DEF DoDeviceCreateBuffer
  <1>4. CASE DoBufferMapAsync
    BY <1>1, <1>2, <1>4 DEF DoBufferMapAsync
  <1>5. CASE DoBufferUpdateMappedData
    BY <1>1, <1>2, <1>5 DEF DoBufferUpdateMappedData
  <1>6. CASE DoBufferUnmap
    BY <1>1, <1>2, <1>6 DEF DoBufferUnmap
  <1>7. CASE DoBufferDestroy
    BY <1>1, <1>2, <1>7 DEF DoBufferDestroy
  <1>8. CASE DoDestroyObject
    BY <1>1, <1>2, <1>8 DEF DoDestroyObject
  <1> QED
    BY <1>3, <1>4, <1>5, <1>6, <1>7, <1>8 DEF ServerHandles

LEMMA ArrivePreserved == GrantInv /\ BothSidesInv /\ ArriveInv /\ [Next]_vars => ArriveInv'
  <1> SUFFICES ASSUME GrantInv, BothSidesInv, ArriveInv, [Next]_vars PROVE ArriveInv'
    OBVIOUS
  <1>0. WireTypeOK /\ SafeInv /\ (Running => TalkInv /\ FlushInv) /\ WritesArriveFirst
    BY DEF GrantInv, BothSidesInv, ArriveInv
  <1>1. ASSUME NEW k \in Kinds, CreateBuffer(k)
        PROVE  ArriveInv'
    <2>1. Running
      BY <1>1 DEF CreateBuffer
    <2> QED
      BY <1>0, <1>1, <2>1, CreateArrives DEF ArriveInv
  <1>2. ASSUME NEW b \in Buffers, Unmap(b) \/ Destroy(b) \/ Release(b)
        PROVE  ArriveInv'
    <2>1. Running
      BY <1>2 DEF Unmap, Destroy, Release
    <2> QED
      BY <1>0, <1>2, <2>1, ClientArrives DEF ArriveInv
  <1>3. ASSUME NEW r \in Requests, NEW b \in Buffers, MapAsync(r, b)
        PROVE  ArriveInv'
    <2>1. Running
      BY <1>3 DEF MapAsync
    <2> QED
      BY <1>0, <1>3, <2>1, MapAsyncArrives DEF ArriveInv
  <1>4. CASE Disconnect
    <2>1. CASE Running
      BY <1>0, <1>4, <2>1, DisconnectArrives DEF ArriveInv
    <2>2. CASE ~Running
      <3>1. UNCHANGED <<phase, unflushed, wireError>>
        BY <1>4 DEF Disconnect, nativeVars
      <3> QED
        BY <1>0, <2>2, <3>1 DEF ArriveInv, WritesArriveFirst, Running
    <2> QED
      BY <2>1, <2>2
  <1>5. CASE OnMapAsyncCallback
    <2>1. Running
      BY <1>5 DEF OnMapAsyncCallback
    <2> QED
      BY <1>0, <1>5, <2>1, CallbackArrives DEF ArriveInv
  <1>6. CASE ServerHandles
    <2>1. Running
      BY <1>6 DEF ServerHandles, DoDeviceCreateBuffer, DoBufferMapAsync,
            DoBufferUpdateMappedData, DoBufferUnmap, DoBufferDestroy, DoDestroyObject, Receive
    <2>2. CASE Running'
      BY <1>0, <1>6, <2>1, <2>2, ServerArrives DEF ArriveInv
    <2>3. CASE ~Running'
      BY <1>0, <1>6, <2>3, FailureKeeps DEF ArriveInv, WritesArriveFirst
    <2> QED
      BY <2>2, <2>3
  <1>7. ASSUME NEW b \in Buffers, Grant(b) \/ AnswerLost(b)
        PROVE  ArriveInv'
    <2>1. Running
      BY <1>7 DEF Grant, AnswerLost
    <2> QED
      BY <1>0, <1>7, <2>1, DeviceArrives DEF ArriveInv
  <1>8. CASE LoseDevice \/ UNCHANGED vars
    <2>1. UNCHANGED <<toServer, kind, mDisconnected, reqBuffer, phase, nativeReply, mMapState,
                      mWriteHandle, unflushed, wireError>>
      BY <1>8 DEF LoseDevice, vars, clientVars, requestVars, wireVars, nativeVars
    <2>2. \A x : WillFlush(x) => WillFlush(x)'
      BY <2>1 DEF WillFlush
    <2>3. ASSUME Running, NEW x \in Buffers, unflushed'[x]
          PROVE  Arrives(x)'
      <3>1. Arrives(x)
        BY <1>0, <2>1, <2>3 DEF FlushInv
      <3> QED
        BY <2>1, <2>2, <3>1, ArrivesKept
    <2>4. Running => FlushInv'
      BY <2>3, EachArrives
    <2> QED
      BY <1>0, <2>1, <2>4 DEF ArriveInv, WritesArriveFirst, Running
  <1> QED
    BY <1>1, <1>2, <1>3, <1>4, <1>5, <1>6, <1>7, <1>8 DEF Next

(* What the application writes into a mapping is on the server when the    *)
(* native buffer is unmapped: UpdateMappedData is handled before Unmap.    *)
THEOREM WritesReachTheServer == Spec => []WritesArriveFirst
  <1>1. Spec => [](GrantInv /\ BothSidesInv /\ ArriveInv)
    BY GrantInit, GrantPreserved, SidesInit, SidesPreserved, ArriveInit, ArrivePreserved, PTL
      DEF Spec
  <1>2. ArriveInv => WritesArriveFirst
    BY DEF ArriveInv
  <1> QED
    BY <1>1, <1>2, PTL

=============================================================================
