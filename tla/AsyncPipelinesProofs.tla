------------------------ MODULE AsyncPipelinesProofs ------------------------
(***************************************************************************)
(* Proofs about AsyncPipelines: no callback is called twice, whatever the  *)
(* application does in callbacks; and for an application that neither      *)
(* destroys the device from a callback nor releases a pipeline before its  *)
(* worker has, the references are those held, the cache holds living       *)
(* pipelines, and no thread uses a manager that is gone.                   *)
(***************************************************************************)
EXTENDS AsyncPipelines, SequenceTheorems, TLAPS

-----------------------------------------------------------------------------
(* Sequences.                                                              *)

LEMMA EmptyFacts == ToSet(<<>>) = {} /\ IsInjective(<<>>)
  BY DEF ToSet, IsInjective

LEMMA ExceptLast ==
    ASSUME NEW S, NEW s \in Seq(S), s # <<>>, NEW f \in S
    PROVE  LET t == [s EXCEPT ![Len(s)] = f]
           IN  /\ t \in Seq(S) /\ Len(t) = Len(s) /\ DOMAIN t = DOMAIN s /\ Len(s) \in DOMAIN s
               /\ t[Len(s)] = f /\ \A i \in DOMAIN s : i # Len(s) => t[i] = s[i]
  <1>1. Len(s) \in 1..Len(s) /\ DOMAIN s = 1..Len(s)
    BY EmptySeq, LenProperties
  <1> QED
    BY <1>1, ExceptSeq, LenProperties

LEMMA AppendLast ==
    ASSUME NEW S, NEW s \in Seq(S), NEW f \in S
    PROVE  LET t == Append(s, f)
           IN  /\ t \in Seq(S) /\ Len(t) = Len(s) + 1 /\ DOMAIN t = DOMAIN s \cup {Len(s) + 1}
               /\ Len(s) + 1 \notin DOMAIN s
               /\ t[Len(s) + 1] = f /\ \A i \in DOMAIN s : t[i] = s[i]
  <1>1. DOMAIN s = 1..Len(s) /\ Len(s) \in Nat
    BY LenProperties
  <1> QED
    BY <1>1, AppendProperties

LEMMA FrontFacts ==
    ASSUME NEW S, NEW s \in Seq(S), s # <<>>
    PROVE  LET t == Front(s)
           IN  /\ t \in Seq(S) /\ Len(t) = Len(s) - 1 /\ DOMAIN t = DOMAIN s \ {Len(s)}
               /\ Len(s) \in DOMAIN s /\ \A i \in DOMAIN t : t[i] = s[i]
  <1>1. /\ DOMAIN s = 1..Len(s) /\ Len(s) \in Nat \ {0}
        /\ \A i \in 1..Len(s) : s[i] \in S
    BY EmptySeq, LenProperties, ElementOfSeq
  <1>2. /\ Front(s) \in Seq(S) /\ Len(Front(s)) = Len(s) - 1
        /\ \A i \in 1..(Len(s) - 1) : Front(s)[i] = s[i]
    BY <1>1, SubSeqProperties DEF Front
  <1>3. DOMAIN Front(s) = 1..(Len(s) - 1)
    BY <1>2, LenProperties
  <1> QED
    BY <1>1, <1>2, <1>3

LEMMA TailSet ==
    ASSUME NEW S, NEW s \in Seq(S), s # <<>>, IsInjective(s)
    PROVE  /\ Tail(s) \in Seq(S) /\ Head(s) \in S /\ IsInjective(Tail(s))
           /\ Head(s) \in ToSet(s) /\ ToSet(Tail(s)) = ToSet(s) \ {Head(s)}
  <1>1. /\ DOMAIN s = 1..Len(s) /\ Len(s) \in Nat \ {0}
        /\ Tail(s) \in Seq(S) /\ Len(Tail(s)) = Len(s) - 1
        /\ \A i \in 1..(Len(s) - 1) : Tail(s)[i] = s[i + 1]
        /\ DOMAIN Tail(s) = 1..(Len(s) - 1)
        /\ Head(s) = s[1] /\ Head(s) \in S
    BY EmptySeq, LenProperties, HeadTailProperties
  <1>2. IsInjective(Tail(s))
    BY <1>1 DEF IsInjective
  <1>3. ASSUME NEW x \in ToSet(Tail(s)) PROVE x \in ToSet(s) /\ x # Head(s)
    BY <1>1, <1>3 DEF ToSet, IsInjective
  <1>4. ASSUME NEW x \in ToSet(s), x # Head(s) PROVE x \in ToSet(Tail(s))
    <2>1. PICK i \in 1..Len(s) : x = s[i]
      BY <1>1, <1>4 DEF ToSet
    <2>2. i - 1 \in 1..(Len(s) - 1) /\ Tail(s)[i - 1] = x
      BY <1>1, <1>4, <2>1
    <2> QED
      BY <1>1, <2>2 DEF ToSet
  <1>5. Head(s) \in ToSet(s)
    BY <1>1 DEF ToSet
  <1> QED
    BY <1>1, <1>2, <1>3, <1>4, <1>5

LEMMA AppendSet ==
    ASSUME NEW S, NEW s \in Seq(S), NEW e \in S
    PROVE  /\ Append(s, e) \in Seq(S)
           /\ ToSet(Append(s, e)) = ToSet(s) \cup {e}
           /\ IsInjective(s) /\ e \notin ToSet(s) => IsInjective(Append(s, e))
  <1>1. /\ DOMAIN Append(s, e) = DOMAIN s \cup {Len(s) + 1} /\ Append(s, e) \in Seq(S)
        /\ Append(s, e)[Len(s) + 1] = e /\ \A i \in DOMAIN s : Append(s, e)[i] = s[i]
    BY AppendLast
  <1> QED
    BY <1>1 DEF ToSet, IsInjective

-----------------------------------------------------------------------------
(* Where the tasks are, by what a step does to the queue and the stack.    *)

LEMMA PlacesSame ==
    ASSUME TasksApart, mCallbackTaskQueue' = mCallbackTaskQueue, DOMAIN frames' = DOMAIN frames,
           \A i \in DOMAIN frames :
              /\ frames'[i].call = frames[i].call /\ frames'[i].tasks = frames[i].tasks
              /\ frames'[i].held = frames[i].held
              /\ frames'[i].at \in {"Wait", "Last"} => frames[i].at = frames'[i].at
    PROVE  /\ TasksApart'
           /\ \A p : (TaskWaits(p)' <=> TaskWaits(p)) /\ (TaskKept(p)' <=> TaskKept(p))
  BY DEF TasksApart, TaskWaits, TaskKept

(* A worker adds its task.                                                 *)
LEMMA PlacesAdd ==
    ASSUME TasksApart, mCallbackTaskQueue \in Seq(Creations), NEW r \in Creations, ~TaskWaits(r),
           mCallbackTaskQueue' = Append(mCallbackTaskQueue, r), frames' = frames
    PROVE  /\ TasksApart'
           /\ \A p : (TaskWaits(p)' <=> TaskWaits(p) \/ p = r) /\ (TaskKept(p)' <=> TaskKept(p))
  <1>1. /\ ToSet(mCallbackTaskQueue') = ToSet(mCallbackTaskQueue) \cup {r}
        /\ IsInjective(mCallbackTaskQueue')
    BY AppendSet DEF TasksApart, TaskWaits
  <1> QED
    BY <1>1 DEF TasksApart, TaskWaits, TaskKept

(* A call is made, which takes the tasks of the queue or none.             *)
LEMMA PlacesPush ==
    ASSUME TasksApart, frames \in Seq(Frame), mCallbackTaskQueue \in Seq(Creations), NEW f \in Frame,
           frames' = Append(frames, f), f.held = {},
           \/ /\ f.tasks = mCallbackTaskQueue /\ mCallbackTaskQueue' = <<>>
              /\ f.at \notin {"Wait", "Last"}
           \/ f.tasks = <<>> /\ mCallbackTaskQueue' = mCallbackTaskQueue
    PROVE  /\ TasksApart'
           /\ \A p : (TaskWaits(p)' <=> TaskWaits(p)) /\ (TaskKept(p)' <=> TaskKept(p))
  <1>1. /\ DOMAIN frames' = DOMAIN frames \cup {Len(frames) + 1} /\ Len(frames) + 1 \notin DOMAIN frames
        /\ frames'[Len(frames) + 1] = f /\ \A i \in DOMAIN frames : frames'[i] = frames[i]
    BY AppendLast
  <1>2. CASE /\ f.tasks = mCallbackTaskQueue /\ mCallbackTaskQueue' = <<>>
             /\ f.at \notin {"Wait", "Last"}
    <2>1. TasksApart'
      <3>1. /\ ToSet(mCallbackTaskQueue') = {} /\ IsInjective(mCallbackTaskQueue')
            /\ IsInjective(f.tasks) /\ ToSet(f.tasks) = ToSet(mCallbackTaskQueue)
            /\ \A i \in DOMAIN frames : ToSet(frames[i].tasks) \cap ToSet(f.tasks) = {}
        BY <1>2, EmptyFacts DEF TasksApart
      <3>2. \A i \in DOMAIN frames' :
              /\ IsInjective(frames'[i].tasks)
              /\ ToSet(frames'[i].tasks) \cap ToSet(mCallbackTaskQueue') = {}
        BY <1>1, <3>1 DEF TasksApart
      <3>3. \A i, j \in DOMAIN frames' : i # j =>
              /\ ToSet(frames'[i].tasks) \cap ToSet(frames'[j].tasks) = {}
              /\ frames'[i].held \cap frames'[j].held = {}
        BY <1>1, <3>1 DEF TasksApart
      <3>4. \A i \in DOMAIN frames' :
              /\ frames'[i].call \in {"Tick", "SetCallback"} => frames'[i].held = {}
              /\ frames'[i].at \in {"Wait", "Last"} => frames'[i].tasks = <<>>
              /\ frames'[i].at = "Last" => frames'[i].held = {}
        BY <1>1, <1>2 DEF TasksApart
      <3> QED
        BY <3>1, <3>2, <3>3, <3>4 DEF TasksApart
    <2>2. \A p : TaskWaits(p)' <=> TaskWaits(p)
      BY <1>1, <1>2, EmptyFacts DEF TaskWaits
    <2>3. \A p : TaskKept(p)' <=> TaskKept(p)
      BY <1>1, <1>2 DEF TaskKept
    <2> QED
      BY <2>1, <2>2, <2>3
  <1>3. CASE f.tasks = <<>> /\ mCallbackTaskQueue' = mCallbackTaskQueue
    <2>1. TasksApart'
      <3>1. ToSet(f.tasks) = {} /\ IsInjective(f.tasks)
        BY <1>3, EmptyFacts
      <3> QED
        BY <1>1, <1>3, <3>1 DEF TasksApart
    <2>2. \A p : TaskWaits(p)' <=> TaskWaits(p)
      BY <1>1, <1>3, EmptyFacts DEF TaskWaits
    <2>3. \A p : TaskKept(p)' <=> TaskKept(p)
      BY <1>1, <1>3 DEF TaskKept
    <2> QED
      BY <2>1, <2>2, <2>3
  <1> QED
    BY <1>2, <1>3

(* The innermost call has waited, and takes the tasks of the queue.        *)
LEMMA PlacesWaited ==
    ASSUME TasksApart, frames \in Seq(Frame), frames # <<>>, Top.at = "Wait", NEW f \in Frame,
           frames' = [frames EXCEPT ![Len(frames)] = f], mCallbackTaskQueue' = <<>>,
           f.tasks = mCallbackTaskQueue, f.held = Top.held, f.call = Top.call, f.at = "Code"
    PROVE  /\ TasksApart'
           /\ \A p : (TaskWaits(p)' <=> TaskWaits(p)) /\ (TaskKept(p)' <=> TaskKept(p))
  <1>1. /\ DOMAIN frames' = DOMAIN frames /\ Len(frames) \in DOMAIN frames
        /\ frames'[Len(frames)] = f /\ \A i \in DOMAIN frames : i # Len(frames) => frames'[i] = frames[i]
    BY ExceptLast
  <1>2. ToSet(Top.tasks) = {}
    BY <1>1, EmptyFacts DEF TasksApart, Top
  <1>3. TasksApart'
    BY <1>1, EmptyFacts DEF TasksApart, Top
  <1>4. \A p : TaskWaits(p)' <=> TaskWaits(p)
    BY <1>1, <1>2, EmptyFacts DEF TaskWaits, Top
  <1>5. \A p : TaskKept(p)' <=> TaskKept(p)
    BY <1>1 DEF TaskKept, Top
  <1> QED
    BY <1>3, <1>4, <1>5

(* The innermost call runs its next task, and may keep it.                 *)
LEMMA PlacesRun ==
    ASSUME TasksApart, frames \in Seq(Frame), frames # <<>>, Top.tasks # <<>>, NEW f \in Frame,
           ~TaskKept(Head(Top.tasks)),
           frames' = [frames EXCEPT ![Len(frames)] = f], mCallbackTaskQueue' = mCallbackTaskQueue,
           f.tasks = Tail(Top.tasks), f.call = Top.call, f.at = "Callback",
           \/ f.held = Top.held
           \/ f.held = Top.held \cup {Head(Top.tasks)} /\ Top.call \in {"Lose", "Destroy"}
    PROVE  /\ TasksApart' /\ Head(Top.tasks) \in Creations /\ TaskWaits(Head(Top.tasks))
           /\ \A p : (TaskWaits(p)' <=> TaskWaits(p) /\ p # Head(Top.tasks))
           /\ f.held = Top.held => \A p : TaskKept(p)' <=> TaskKept(p)
           /\ f.held = Top.held \cup {Head(Top.tasks)} =>
                 \A p : TaskKept(p)' <=> TaskKept(p) \/ p = Head(Top.tasks)
  <1> DEFINE h == Head(Top.tasks)
  <1>1. /\ DOMAIN frames' = DOMAIN frames /\ Len(frames) \in DOMAIN frames
        /\ frames'[Len(frames)] = f /\ \A i \in DOMAIN frames : i # Len(frames) => frames'[i] = frames[i]
        /\ Top = frames[Len(frames)] /\ Top \in Frame
    BY ExceptLast, ElementOfSeq, LenProperties DEF Top
  <1>2. /\ h \in Creations /\ IsInjective(f.tasks)
        /\ h \in ToSet(Top.tasks) /\ ToSet(f.tasks) = ToSet(Top.tasks) \ {h}
    BY <1>1, TailSet DEF TasksApart, Frame
  <1>3. TaskWaits(h)
    BY <1>1, <1>2 DEF TaskWaits
  <1>4. /\ h \notin ToSet(mCallbackTaskQueue)
        /\ \A i \in DOMAIN frames : i # Len(frames) => h \notin ToSet(frames[i].tasks)
    BY <1>1, <1>2 DEF TasksApart
  <1>5. \A p : TaskWaits(p)' <=> TaskWaits(p) /\ p # h
    BY <1>1, <1>2, <1>4 DEF TaskWaits
  <1>6. \A i \in DOMAIN frames : h \notin frames[i].held
    BY DEF TaskKept
  <1>7. TasksApart'
    <2>1. \A i \in DOMAIN frames :
            /\ IsInjective(frames'[i].tasks) /\ ToSet(frames'[i].tasks) \subseteq ToSet(frames[i].tasks)
            /\ frames'[i].held \subseteq frames[i].held \cup {h} /\ h \notin frames[i].held
            /\ i # Len(frames) => frames'[i].held = frames[i].held
            /\ frames'[i].call = frames[i].call
            /\ frames'[i].at \in {"Wait", "Last"} => i # Len(frames) /\ frames'[i] = frames[i]
            /\ frames'[i].call \in {"Tick", "SetCallback"} => frames'[i].held = frames[i].held
      BY <1>1, <1>2, <1>6 DEF TasksApart
    <2>2. \A i, j \in DOMAIN frames : i # j => frames'[i].held \cap frames'[j].held = {}
      BY <2>1 DEF TasksApart
    <2>3. \A i, j \in DOMAIN frames : i # j => ToSet(frames'[i].tasks) \cap ToSet(frames'[j].tasks) = {}
      BY <2>1 DEF TasksApart
    <2>4. \A i \in DOMAIN frames :
            /\ frames'[i].call \in {"Tick", "SetCallback"} => frames'[i].held = {}
            /\ frames'[i].at \in {"Wait", "Last"} => frames'[i].tasks = <<>>
            /\ frames'[i].at = "Last" => frames'[i].held = {}
      BY <2>1 DEF TasksApart
    <2>5. \A i \in DOMAIN frames :
            /\ IsInjective(frames'[i].tasks)
            /\ ToSet(frames'[i].tasks) \cap ToSet(mCallbackTaskQueue') = {}
      BY <2>1 DEF TasksApart
    <2>6. DOMAIN frames' = DOMAIN frames /\ IsInjective(mCallbackTaskQueue')
      BY <1>1 DEF TasksApart
    <2> QED
      <3>1. ASSUME NEW i \in DOMAIN frames', NEW j \in DOMAIN frames', i # j
            PROVE  /\ ToSet(frames'[i].tasks) \cap ToSet(frames'[j].tasks) = {}
                   /\ frames'[i].held \cap frames'[j].held = {}
        <4>1. i \in DOMAIN frames /\ j \in DOMAIN frames
          BY <2>6
        <4> QED
          BY <2>2, <2>3, <3>1, <4>1, Zenon
      <3>2. \A i \in DOMAIN frames' :
              /\ IsInjective(frames'[i].tasks)
              /\ ToSet(frames'[i].tasks) \cap ToSet(mCallbackTaskQueue') = {}
        BY <2>5, <2>6, Zenon
      <3>3. \A i \in DOMAIN frames' :
              /\ frames'[i].call \in {"Tick", "SetCallback"} => frames'[i].held = {}
              /\ frames'[i].at \in {"Wait", "Last"} => frames'[i].tasks = <<>>
              /\ frames'[i].at = "Last" => frames'[i].held = {}
        BY <2>4, <2>6, Zenon
      <3> QED
        BY <2>6, <3>1, <3>2, <3>3, Zenon DEF TasksApart
  <1> QED
    BY <1>1, <1>2, <1>3, <1>5, <1>7 DEF TaskKept

(* The innermost call returns.                                             *)
LEMMA PlacesPop ==
    ASSUME TasksApart, frames \in Seq(Frame), frames # <<>>, Top.tasks = <<>>,
           frames' = Front(frames), mCallbackTaskQueue' = mCallbackTaskQueue
    PROVE  /\ TasksApart'
           /\ \A p : /\ TaskWaits(p)' <=> TaskWaits(p)
                     /\ TaskKept(p)' <=> TaskKept(p) /\ p \notin Top.held
                     /\ p \in Top.held => TaskKept(p)
  <1>1. /\ DOMAIN frames' = DOMAIN frames \ {Len(frames)} /\ Len(frames) \in DOMAIN frames
        /\ \A i \in DOMAIN frames' : frames'[i] = frames[i]
    BY FrontFacts
  <1>2. TasksApart'
    <2>1. DOMAIN frames' \subseteq DOMAIN frames
      BY <1>1
    <2>2. ASSUME NEW i \in DOMAIN frames', NEW j \in DOMAIN frames', i # j
          PROVE  /\ ToSet(frames'[i].tasks) \cap ToSet(frames'[j].tasks) = {}
                 /\ frames'[i].held \cap frames'[j].held = {}
      <3>1. i \in DOMAIN frames /\ j \in DOMAIN frames /\ frames'[i] = frames[i] /\ frames'[j] = frames[j]
        BY <1>1, <2>1
      <3> QED
        BY <2>2, <3>1, Zenon DEF TasksApart
    <2>3. \A i \in DOMAIN frames' :
            /\ IsInjective(frames'[i].tasks)
            /\ ToSet(frames'[i].tasks) \cap ToSet(mCallbackTaskQueue') = {}
            /\ frames'[i].call \in {"Tick", "SetCallback"} => frames'[i].held = {}
            /\ frames'[i].at \in {"Wait", "Last"} => frames'[i].tasks = <<>>
            /\ frames'[i].at = "Last" => frames'[i].held = {}
      BY <1>1, <2>1 DEF TasksApart
    <2>4. IsInjective(mCallbackTaskQueue')
      BY DEF TasksApart
    <2> QED
      BY <2>2, <2>3, <2>4 DEF TasksApart
  <1> QED
    BY <1>1, <1>2, EmptyFacts DEF TasksApart, TaskWaits, TaskKept, Top

(* The innermost call, with no task left to run, drops those it has kept.  *)
LEMMA PlacesDrop ==
    ASSUME TasksApart, frames \in Seq(Frame), frames # <<>>, Top.tasks = <<>>, NEW f \in Frame,
           frames' = [frames EXCEPT ![Len(frames)] = f], mCallbackTaskQueue' = mCallbackTaskQueue,
           f.tasks = <<>>, f.held = {}, f.call = Top.call
    PROVE  /\ TasksApart'
           /\ \A p : /\ TaskWaits(p)' <=> TaskWaits(p)
                     /\ TaskKept(p)' <=> TaskKept(p) /\ p \notin Top.held
                     /\ p \in Top.held => TaskKept(p)
  <1>1. /\ DOMAIN frames' = DOMAIN frames /\ Len(frames) \in DOMAIN frames
        /\ frames'[Len(frames)] = f /\ \A i \in DOMAIN frames : i # Len(frames) => frames'[i] = frames[i]
        /\ Top = frames[Len(frames)]
    BY ExceptLast DEF Top
  <1>2. \A i \in DOMAIN frames :
            /\ frames'[i].tasks = frames[i].tasks /\ frames'[i].call = frames[i].call
            /\ i # Len(frames) => frames'[i].held = frames[i].held
    BY <1>1
  <1>3. TasksApart'
    <2>1. \A i, j \in DOMAIN frames : i # j =>
            /\ ToSet(frames'[i].tasks) \cap ToSet(frames'[j].tasks) = {}
            /\ frames'[i].held \cap frames'[j].held = {}
      BY <1>1, <1>2 DEF TasksApart
    <2>2. \A i \in DOMAIN frames :
            /\ IsInjective(frames'[i].tasks)
            /\ ToSet(frames'[i].tasks) \cap ToSet(mCallbackTaskQueue') = {}
      BY <1>2 DEF TasksApart
    <2>3. \A i \in DOMAIN frames :
            /\ frames'[i].call \in {"Tick", "SetCallback"} => frames'[i].held = {}
            /\ frames'[i].at \in {"Wait", "Last"} => frames'[i].tasks = <<>>
            /\ frames'[i].at = "Last" => frames'[i].held = {}
      BY <1>1, <1>2 DEF TasksApart
    <2>4. IsInjective(mCallbackTaskQueue') /\ DOMAIN frames' = DOMAIN frames
      BY <1>1 DEF TasksApart
    <2> QED
      BY <2>1, <2>2, <2>3, <2>4 DEF TasksApart
  <1>4. \A p : TaskWaits(p)' <=> TaskWaits(p)
    BY <1>1, <1>2 DEF TaskWaits
  <1> QED
    BY <1>1, <1>3, <1>4 DEF TasksApart, TaskKept

-----------------------------------------------------------------------------
(* The stack keeps its type.                                               *)

LEMMA TypeSetTop ==
    ASSUME AsyncTypeOK, frames # <<>>, NEW f \in Frame, SetTop(f)
    PROVE  frames' \in Seq(Frame) /\ Len(frames') <= MaxDepth
  BY ExceptLast DEF SetTop, AsyncTypeOK

LEMMA TypePush ==
    ASSUME AsyncTypeOK, NEW op, CanCall(op), NEW call \in Calls, NEW at \in {"Wait", "Code"},
           NEW waits \in SUBSET Creations, NEW tasks \in Seq(Creations),
           Push(call, at, waits, tasks)
    PROVE  frames' \in Seq(Frame) /\ Len(frames') <= MaxDepth
  <1>1. [call |-> call, at |-> at, waits |-> waits, tasks |-> tasks, held |-> {}] \in Frame
    BY DEF Frame
  <1>2. Len(frames) < MaxDepth
    BY AsyncBounds, EmptySeq DEF CanCall, AsyncTypeOK
  <1> QED
    BY <1>1, <1>2, AppendLast, AsyncBounds, LenProperties DEF Push, AsyncTypeOK

LEMMA TypePop ==
    ASSUME AsyncTypeOK, frames # <<>>, frames' = Pop
    PROVE  frames' \in Seq(Frame) /\ Len(frames') <= MaxDepth
  <1>1. frames \in Seq(Frame) /\ Len(frames) \in Nat /\ Len(frames) <= MaxDepth
    BY LenProperties DEF AsyncTypeOK
  <1>2. Front(frames) \in Seq(Frame) /\ Len(Front(frames)) = Len(frames) - 1
    BY <1>1, FrontFacts
  <1> QED
    BY <1>1, <1>2, AsyncBounds DEF Pop

LEMMA TopType ==
    ASSUME AsyncTypeOK, frames # <<>>
    PROVE  /\ Top \in Frame /\ Top = frames[Len(frames)] /\ Len(frames) \in DOMAIN frames
           /\ Top.call \in Calls /\ Top.waits \subseteq Creations /\ Top.tasks \in Seq(Creations)
           /\ Top.held \subseteq Creations
  <1>1. frames \in Seq(Frame) /\ Len(frames) \in 1..Len(frames) /\ DOMAIN frames = 1..Len(frames)
    BY EmptySeq, LenProperties DEF AsyncTypeOK
  <1>2. Top \in Frame
    BY <1>1, ElementOfSeq DEF Top
  <1> QED
    BY <1>1, <1>2 DEF Top, Frame

-----------------------------------------------------------------------------
(* No callback is called twice, and the references are those held.         *)

LEMMA RefCounts ==
    ASSUME AsyncTypeOK, NEW p \in Creations
    PROVE  /\ refs[p] \in Nat /\ appRefs[p] \in Nat
           /\ TaskRef(p) \in {0, 1} /\ WorkerRef(p) \in {0, 1}
  BY DEF AsyncTypeOK, TaskRef, WorkerRef

LEMMA UncachedType ==
    ASSUME AsyncTypeOK, NEW dead
    PROVE  /\ Uncached(dead) \in [Descriptors -> 0..MaxCreations]
           /\ \A d \in Descriptors : Uncached(dead)[d] \in {0, cache[d]}
  BY AsyncBounds DEF AsyncTypeOK, Uncached

(* A step that changes neither answers nor references, and leaves the      *)
(* tasks where they are or moves them between queue and calls.             *)
LEMMA QuietStep ==
    ASSUME TaskInv, halted = "None", AsyncTypeOK', TasksApart', halted' \in {"None", "NullPipeline"},
           \A p : (TaskWaits(p)' <=> TaskWaits(p)) /\ (TaskKept(p)' <=> TaskKept(p)),
           UNCHANGED <<pipelineVars, answer, worker>>
    PROVE  TaskInv'
  <1>1. TasksWait'
    BY DEF TaskInv, TasksWait, Unposted, Unanswered, pipelineVars
  <1>2. CacheAnswered' /\ CalledAtMostOnce'
    BY DEF TaskInv, CacheAnswered, CalledAtMostOnce, Unanswered, pipelineVars
  <1>3. RefsAreHeld'
    BY DEF TaskInv, RefsAreHeld, TaskRef, WorkerRef, pipelineVars
  <1> QED
    BY <1>1, <1>2, <1>3 DEF TaskInv

LEMMA HaltStep ==
    ASSUME TaskInv, halted = "None",
           NEW why \in {"NullPipeline", "NullManager", "NullCaches", "RefCount", "Unreachable"},
           Halt(why)
    PROVE  TaskInv'
  <1>1. AsyncTypeOK'
    BY DEF TaskInv, AsyncTypeOK, Halt, pipelineVars, taskVars
  <1>2. /\ TasksApart'
        /\ \A p : (TaskWaits(p)' <=> TaskWaits(p)) /\ (TaskKept(p)' <=> TaskKept(p))
    BY PlacesSame DEF TaskInv, Halt, taskVars
  <1>3. TasksWait' /\ CacheAnswered' /\ CalledAtMostOnce'
    BY <1>2 DEF TaskInv, TasksWait, Unposted, Unanswered, pipelineVars, CacheAnswered,
       CalledAtMostOnce, Halt
  <1>4. RefsAreHeld'
    BY <1>2 DEF TaskInv, RefsAreHeld, TaskRef, WorkerRef, pipelineVars, Halt
  <1> QED
    BY <1>1, <1>2, <1>3, <1>4 DEF TaskInv

(* A worker thread.                                                        *)
LEMMA TaskWorker ==
    ASSUME TaskInv, NEW r \in Creations, Worker(r)
    PROVE  TaskInv'
  <1> USE DEF pipelineVars, taskVars
  <1>0. AsyncTypeOK /\ TasksApart /\ TasksWait /\ CacheAnswered /\ CalledAtMostOnce /\ halted = "None"
        /\ RefsAreHeld
    BY DEF TaskInv, Worker, WorkerInitializes, WorkerFails, AddCallbackTask, WorkerReleases,
       WorkerDestroys, HandleTaskCompletion, MarkAsComplete, At
  <1>2. CASE WorkerFails(r)
    BY <1>0, <1>2, HaltStep DEF WorkerFails
  <1>3. CASE HandleTaskCompletion(r) /\ mState = "Destroyed"
    BY <1>0, <1>3, HaltStep DEF HandleTaskCompletion
  <1>4. CASE AddCallbackTask(r) /\ mState = "Destroyed"
    BY <1>0, <1>4, HaltStep DEF AddCallbackTask
  <1>5. CASE AddCallbackTask(r) /\ mState # "Destroyed"
    <2>1. /\ worker[r] = "Initialized" /\ mCallbackTaskQueue' = Append(mCallbackTaskQueue, r)
          /\ refs' = [refs EXCEPT ![r] = @ + 1] /\ worker' = [worker EXCEPT ![r] = "Added"]
          /\ UNCHANGED <<mState, descriptor, initialized, appRefs, tracked, mIsCachedReference,
                         cache, answer, mPendingTasks, frames, tickNeeded, halted>>
      BY <1>5 DEF AddCallbackTask, At, GoTo, TaskRefs
    <2>2. AsyncTypeOK' /\ CalledAtMostOnce'
      <3>1. Append(mCallbackTaskQueue, r) \in Seq(Creations)
        BY <1>0, AppendSet DEF AsyncTypeOK
      <3> QED
        BY <1>0, <2>1, <3>1 DEF AsyncTypeOK, CalledAtMostOnce
    <2>3. ~TaskWaits(r) /\ ~TaskKept(r) /\ answer[r] = "Waiting"
      BY <1>0, <2>1 DEF TasksWait, Unposted
    <2>4. /\ TasksApart'
          /\ \A p : (TaskWaits(p)' <=> TaskWaits(p) \/ p = r) /\ (TaskKept(p)' <=> TaskKept(p))
      BY <1>0, <2>1, <2>3, PlacesAdd DEF AsyncTypeOK
    <2>5. TasksWait'
      BY <1>0, <2>1, <2>3, <2>4 DEF TasksWait, Unposted, Unanswered, AsyncTypeOK
    <2>6. RefsAreHeld'
      BY <1>0, <2>1, <2>3, <2>4 DEF RefsAreHeld, TaskRef, WorkerRef, AsyncTypeOK
    <2> QED
      BY <1>0, <2>1, <2>2, <2>4, <2>5, <2>6 DEF TaskInv, CacheAnswered, Unanswered
  <1>6. CASE WorkerInitializes(r) \/ WorkerReleases(r) \/ WorkerDestroys(r) \/ MarkAsComplete(r)
             \/ (HandleTaskCompletion(r) /\ mState # "Destroyed")
    <2>1. /\ UNCHANGED <<mState, descriptor, appRefs, mIsCachedReference, answer,
                         mCallbackTaskQueue, frames, tickNeeded, halted>>
          /\ mPendingTasks' \subseteq mPendingTasks
          /\ initialized' \in [Creations -> BOOLEAN] /\ tracked' \in [Creations -> BOOLEAN]
          /\ \/ refs' = refs
             \/ refs' = [refs EXCEPT ![r] = @ - 1] /\ worker[r] = "Added" /\ ~Unposted(r)'
                                                  /\ worker'[r] # "Added"
          /\ worker' \in [Creations -> {"None", "Start", "Initialized", "Added", "Deleting",
                                         "Released", "Removed", "Complete"}]
          /\ \A p \in Creations : p # r => worker'[p] = worker[p]
      BY <1>0, <1>6 DEF WorkerInitializes, WorkerReleases, WorkerDestroys, MarkAsComplete,
         HandleTaskCompletion, At, GoTo, AsyncTypeOK, Unposted
    <2>2. /\ worker[r] \notin {"None", "Initialized"} /\ worker'[r] \notin {"None", "Start"}
          /\ worker[r] = "Start" <=> worker'[r] = "Initialized"
          /\ refs' = refs => worker[r] # "Added" /\ worker'[r] # "Added"
      BY <1>0, <1>6 DEF WorkerInitializes, WorkerReleases, WorkerDestroys, MarkAsComplete,
         HandleTaskCompletion, At, GoTo, AsyncTypeOK
    <2>3. cache' \in [Descriptors -> 0..MaxCreations] /\ \A d \in Descriptors : cache'[d] \in {0, cache[d]}
      <3>1. cache' = cache \/ cache' = Uncached({r})
        BY <1>6 DEF WorkerInitializes, WorkerReleases, WorkerDestroys, MarkAsComplete,
           HandleTaskCompletion
      <3> QED
        BY <1>0, <3>1, UncachedType DEF AsyncTypeOK
    <2>4. refs' \in [Creations -> Nat]
      <3>1. worker[r] = "Added" => refs[r] >= 1
        BY <1>0, RefCounts DEF RefsAreHeld, WorkerRef
      <3>2. refs \in [Creations -> Nat]
        BY <1>0 DEF AsyncTypeOK
      <3>3. refs' = refs \/ (refs' = [refs EXCEPT ![r] = @ - 1] /\ worker[r] = "Added")
        BY <2>1
      <3> QED
        BY <3>1, <3>2, <3>3
    <2>5. AsyncTypeOK' /\ CalledAtMostOnce'
      BY <1>0, <2>1, <2>3, <2>4 DEF AsyncTypeOK, CalledAtMostOnce
    <2>6. /\ TasksApart'
          /\ \A p : (TaskWaits(p)' <=> TaskWaits(p)) /\ (TaskKept(p)' <=> TaskKept(p))
      BY <1>0, <2>1, PlacesSame
    <2>7. TasksWait'
      BY <1>0, <2>1, <2>2, <2>6 DEF TasksWait, Unposted, Unanswered
    <2>8. RefsAreHeld'
      <3>1. ASSUME NEW p \in Creations
            PROVE  /\ TaskRef(p)' = TaskRef(p)
                   /\ p # r => refs'[p] = refs[p] /\ WorkerRef(p)' = WorkerRef(p)
        BY <1>0, <2>1, <2>6 DEF TaskRef, WorkerRef, AsyncTypeOK
      <3>2. \/ refs'[r] = refs[r] /\ WorkerRef(r)' = WorkerRef(r)
            \/ refs'[r] = refs[r] - 1 /\ WorkerRef(r)' = 0 /\ WorkerRef(r) = 1
        BY <1>0, <2>1, <2>2 DEF AsyncTypeOK, Unposted, WorkerRef
      <3> QED
        BY <1>0, <2>1, <3>1, <3>2, RefCounts DEF RefsAreHeld
    <2>9. CacheAnswered'
      BY <1>0, <2>1, <2>3 DEF CacheAnswered, Unanswered
    <2> QED
      BY <2>5, <2>6, <2>7, <2>8, <2>9 DEF TaskInv
  <1> QED
    BY <1>2, <1>3, <1>4, <1>5, <1>6 DEF Worker

(* The tasks stay where they are; a creation that was not made yet may be  *)
(* answered, or a worker started for it.                                   *)
LEMMA TaskCreation ==
    ASSUME TaskInv, halted = "None", AsyncTypeOK', NEW r \in Creations, answer[r] = "None",
           frames' = frames, mCallbackTaskQueue' = mCallbackTaskQueue, descriptor' = descriptor,
           \A p \in Creations : p # r => answer'[p] = answer[p] /\ worker'[p] = worker[p],
           answer'[r] \in {"None", "Waiting", "Success", "Error"},
           answer'[r] = "Waiting" <=> worker'[r] = "Start",
           answer'[r] # "Waiting" => worker'[r] = worker[r],
           \A p \in Creations : /\ refs'[p] - appRefs'[p] - WorkerRef(p)'
                                      = refs[p] - appRefs[p] - WorkerRef(p)
                                /\ answer'[p] = "None" => appRefs'[p] = appRefs[p],
           \A d \in Descriptors :
              cache'[d] = cache[d] \/ (cache'[d] = r /\ answer'[r] = "Success")
    PROVE  TaskInv'
  <1>1. /\ TasksApart'
        /\ \A p : (TaskWaits(p)' <=> TaskWaits(p)) /\ (TaskKept(p)' <=> TaskKept(p))
    BY PlacesSame DEF TaskInv
  <1>2. worker[r] = "None" /\ ~TaskWaits(r) /\ ~TaskKept(r)
    BY DEF TaskInv, TasksWait, Unanswered
  <1>3. TasksWait'
    <2>1. ASSUME NEW p \in Creations, p # r
          PROVE  /\ TaskWaits(p)' => answer'[p] = "Waiting" /\ ~Unposted(p)'
                 /\ TaskKept(p)' => ~Unanswered(p)' /\ ~Unposted(p)'
                 /\ worker'[p] \in {"Start", "Initialized"} => answer'[p] = "Waiting"
                 /\ answer'[p] = "None" => worker'[p] = "None" /\ appRefs'[p] = 0
      BY <1>1, <2>1 DEF TaskInv, TasksWait, Unposted, Unanswered
    <2>2. /\ ~TaskWaits(r)' /\ ~TaskKept(r)'
          /\ worker'[r] \in {"Start", "Initialized"} => answer'[r] = "Waiting"
          /\ answer'[r] = "None" => worker'[r] = "None" /\ appRefs'[r] = 0
      BY <1>1, <1>2 DEF TaskInv, TasksWait
    <2> QED
      BY <2>1, <2>2 DEF TasksWait
  <1>4. CacheAnswered'
    <2>1. ASSUME NEW d \in Descriptors, cache'[d] # 0 PROVE ~Unanswered(cache[d])'
      <3>1. CASE cache'[d] = cache[d]
        <4>1. cache[d] \in Creations /\ ~Unanswered(cache[d])
          <5>1. cache[d] \in 0..MaxCreations /\ cache[d] # 0
            BY <2>1, <3>1 DEF TaskInv, AsyncTypeOK
          <5> QED
            BY <5>1, AsyncBounds DEF TaskInv, CacheAnswered, Creations
        <4>2. cache[d] # r
          BY <4>1 DEF Unanswered
        <4> QED
          BY <3>1, <4>1, <4>2 DEF Unanswered
      <3>2. CASE cache'[d] = r /\ answer'[r] = "Success"
        BY <3>2 DEF Unanswered
      <3> QED
        BY <3>1, <3>2
    <2> QED
      BY <2>1 DEF CacheAnswered
  <1>5. CalledAtMostOnce'
    BY DEF TaskInv, CalledAtMostOnce
  <1>6. RefsAreHeld'
    <2>1. ASSUME NEW p \in Creations PROVE refs'[p] = appRefs'[p] + WorkerRef(p)' + TaskRef(p)'
      <3>1. TaskRef(p)' = TaskRef(p)
        BY <1>1 DEF TaskRef
      <3>2. refs[p] = appRefs[p] + WorkerRef(p) + TaskRef(p)
        BY DEF TaskInv, RefsAreHeld
      <3>3. /\ refs[p] \in Nat /\ appRefs[p] \in Nat /\ WorkerRef(p) \in {0, 1} /\ TaskRef(p) \in {0, 1}
            /\ refs'[p] \in Nat /\ appRefs'[p] \in Nat /\ WorkerRef(p)' \in {0, 1}
        BY DEF TaskInv, AsyncTypeOK, WorkerRef, TaskRef
      <3> QED
        BY <3>1, <3>2, <3>3
    <2> QED
      BY <2>1 DEF RefsAreHeld
  <1> QED
    BY <1>1, <1>3, <1>4, <1>5, <1>6 DEF TaskInv

LEMMA TaskGiveCached ==
    ASSUME TaskInv, halted = "None", NEW r \in Creations, answer[r] = "None",
           NEW c \in 1..MaxCreations, ~Unanswered(c), GiveCached(r, c),
           UNCHANGED <<mState, descriptor, initialized, tracked, mIsCachedReference, cache, worker,
                       taskVars, frames, tickNeeded>>
    PROVE  TaskInv'
  <1> USE DEF taskVars
  <1>0. c \in Creations /\ c # r /\ AsyncTypeOK
    BY DEF Creations, Unanswered, TaskInv
  <1>1. CASE refs[c] = 0
    <2>1. Halt("RefCount")
      BY <1>1 DEF GiveCached, Halt, pipelineVars
    <2> QED
      BY <2>1, HaltStep
  <1>2. CASE refs[c] # 0
    <2>1. /\ refs' = [refs EXCEPT ![c] = @ + 1] /\ appRefs' = [appRefs EXCEPT ![c] = @ + 1]
          /\ answer' = [answer EXCEPT ![r] = "Success"] /\ halted' = halted
      BY <1>2 DEF GiveCached
    <2>2. AsyncTypeOK'
      <3>1. /\ refs' \in [Creations -> Nat] /\ appRefs' \in [Creations -> Nat]
            /\ answer' \in [Creations -> Answers]
        BY <1>0, <2>1 DEF AsyncTypeOK, Answers
      <3> QED
        BY <1>0, <2>1, <3>1 DEF AsyncTypeOK
    <2>3. \A p \in Creations : p # r => answer'[p] = answer[p] /\ worker'[p] = worker[p]
      BY <1>0, <2>1 DEF AsyncTypeOK
    <2>4. answer'[r] = "Success" /\ worker'[r] = worker[r] /\ worker[r] = "None"
      BY <1>0, <2>1 DEF AsyncTypeOK, TaskInv, TasksWait
    <2>5. ASSUME NEW p \in Creations
          PROVE  /\ refs'[p] - appRefs'[p] - WorkerRef(p)' = refs[p] - appRefs[p] - WorkerRef(p)
                 /\ answer'[p] = "None" => appRefs'[p] = appRefs[p]
      <3>1. WorkerRef(p)' = WorkerRef(p) /\ refs[p] \in Nat /\ appRefs[p] \in Nat /\ WorkerRef(p) \in {0, 1}
        BY <1>0, RefCounts DEF WorkerRef
      <3>2. CASE p = c
        <4>1. refs'[p] = refs[p] + 1 /\ appRefs'[p] = appRefs[p] + 1 /\ answer'[p] # "None"
          BY <1>0, <2>1, <3>2 DEF AsyncTypeOK, Unanswered
        <4> QED
          BY <3>1, <4>1
      <3>3. CASE p # c
        <4>1. refs'[p] = refs[p] /\ appRefs'[p] = appRefs[p]
          BY <1>0, <2>1, <3>3 DEF AsyncTypeOK
        <4> QED
          BY <3>1, <4>1
      <3> QED
        BY <3>2, <3>3
    <2> QED
      BY <2>2, <2>3, <2>4, <2>5, TaskCreation
  <1> QED
    BY <1>1, <1>2

LEMMA CachedType ==
    ASSUME TaskInv, NEW r \in Creations, cache[descriptor[r]] # 0
    PROVE  cache[descriptor[r]] \in 1..MaxCreations /\ ~Unanswered(cache[descriptor[r]])
  BY AsyncBounds DEF TaskInv, AsyncTypeOK, CacheAnswered

LEMMA TaskCreateAsync ==
    ASSUME TaskInv, NEW r \in Creations, CreateComputePipelineAsync(r)
    PROVE  TaskInv'
  <1> USE DEF taskVars
  <1>0. AsyncTypeOK /\ halted = "None" /\ answer[r] = "None" /\ worker[r] = "None" /\ appRefs[r] = 0
        /\ refs[r] = 0
    <2>1. AsyncTypeOK /\ halted = "None" /\ answer[r] = "None" /\ worker[r] = "None" /\ appRefs[r] = 0
      BY DEF TaskInv, CreateComputePipelineAsync, CanCall, NextCreation, TasksWait
    <2>2. ~TaskWaits(r) /\ ~TaskKept(r)
      BY <2>1 DEF TaskInv, TasksWait, Unanswered
    <2> QED
      BY <2>1, <2>2 DEF TaskInv, RefsAreHeld, WorkerRef, TaskRef
  <1>1. ASSUME mState # "Alive", answer' = [answer EXCEPT ![r] = "Error"],
               UNCHANGED <<refs, appRefs, tracked, worker, mPendingTasks, tickNeeded, halted>>,
               UNCHANGED <<mState, descriptor, initialized, mIsCachedReference, cache,
                           mCallbackTaskQueue, frames>>
        PROVE  TaskInv'
    <2>1. AsyncTypeOK'
      BY <1>0, <1>1 DEF AsyncTypeOK, Answers
    <2>2. /\ \A p \in Creations : p # r => answer'[p] = answer[p] /\ worker'[p] = worker[p]
          /\ answer'[r] = "Error"
      BY <1>0, <1>1 DEF AsyncTypeOK
    <2>3. \A p \in Creations : WorkerRef(p)' = WorkerRef(p)
      BY <1>1 DEF WorkerRef
    <2> QED
      BY <1>0, <1>1, <2>1, <2>2, <2>3, TaskCreation
  <1>2. ASSUME cache[descriptor[r]] = 0, answer' = [answer EXCEPT ![r] = "Waiting"],
               refs' = [refs EXCEPT ![r] = 1], tracked' = [tracked EXCEPT ![r] = TRUE],
               PostTask(r), tickNeeded' = TRUE, UNCHANGED <<appRefs, halted>>,
               UNCHANGED <<mState, descriptor, initialized, mIsCachedReference, cache,
                           mCallbackTaskQueue, frames>>
        PROVE  TaskInv'
    <2>1. worker' = [worker EXCEPT ![r] = "Start"] /\ mPendingTasks' = mPendingTasks \cup {r}
      BY <1>2 DEF PostTask
    <2>2. AsyncTypeOK'
      BY <1>0, <1>2, <2>1 DEF AsyncTypeOK, Answers
    <2>3. /\ \A p \in Creations : p # r => answer'[p] = answer[p] /\ worker'[p] = worker[p]
                                            /\ refs'[p] = refs[p]
          /\ answer'[r] = "Waiting" /\ worker'[r] = "Start" /\ refs'[r] = 1
      BY <1>0, <1>2, <2>1 DEF AsyncTypeOK
    <2>4. WorkerRef(r) = 0 /\ WorkerRef(r)' = 1
          /\ \A p \in Creations : p # r => WorkerRef(p)' = WorkerRef(p)
      BY <1>0, <2>3 DEF WorkerRef
    <2>5. \A p \in Creations : refs'[p] - appRefs'[p] - WorkerRef(p)' = refs[p] - appRefs[p] - WorkerRef(p)
      BY <1>0, <1>2, <2>3, <2>4
    <2> QED
      BY <1>0, <1>2, <2>2, <2>3, <2>5, TaskCreation
  <1>3. ASSUME cache[descriptor[r]] # 0, GiveCached(r, cache[descriptor[r]]),
               UNCHANGED <<tracked, worker, mPendingTasks, tickNeeded>>,
               UNCHANGED <<mState, descriptor, initialized, mIsCachedReference, cache,
                           mCallbackTaskQueue, frames>>
        PROVE  TaskInv'
    BY <1>0, <1>3, CachedType, TaskGiveCached
  <1> QED
    BY <1>1, <1>2, <1>3 DEF CreateComputePipelineAsync

LEMMA TaskCreate ==
    ASSUME TaskInv, NEW r \in Creations, CreateComputePipeline(r)
    PROVE  TaskInv'
  <1> USE DEF taskVars, pipelineVars
  <1>0. AsyncTypeOK /\ halted = "None" /\ answer[r] = "None" /\ worker[r] = "None" /\ appRefs[r] = 0
        /\ refs[r] = 0
    <2>1. AsyncTypeOK /\ halted = "None" /\ answer[r] = "None" /\ worker[r] = "None" /\ appRefs[r] = 0
      BY DEF TaskInv, CreateComputePipeline, CanCall, NextCreation, TasksWait
    <2>2. ~TaskWaits(r) /\ ~TaskKept(r)
      BY <2>1 DEF TaskInv, TasksWait, Unanswered
    <2> QED
      BY <2>1, <2>2 DEF TaskInv, RefsAreHeld, WorkerRef, TaskRef
  <1>1. ASSUME answer' = [answer EXCEPT ![r] = "Error"], UNCHANGED <<pipelineVars, halted>>,
               UNCHANGED <<mState, worker, taskVars, frames, tickNeeded>>
        PROVE  TaskInv'
    <2>1. AsyncTypeOK'
      BY <1>0, <1>1 DEF AsyncTypeOK, Answers
    <2>2. /\ \A p \in Creations : p # r => answer'[p] = answer[p] /\ worker'[p] = worker[p]
          /\ answer'[r] = "Error"
      BY <1>0, <1>1 DEF AsyncTypeOK
    <2>3. \A p \in Creations : WorkerRef(p)' = WorkerRef(p)
      BY <1>1 DEF WorkerRef
    <2> QED
      BY <1>0, <1>1, <2>1, <2>2, <2>3, TaskCreation
  <1>2. ASSUME cache[descriptor[r]] = 0, answer' = [answer EXCEPT ![r] = "Success"],
               initialized' = [initialized EXCEPT ![r] = TRUE],
               refs' = [refs EXCEPT ![r] = 1], appRefs' = [appRefs EXCEPT ![r] = 1],
               tracked' = [tracked EXCEPT ![r] = TRUE],
               mIsCachedReference' = [mIsCachedReference EXCEPT ![r] = TRUE],
               cache' = [cache EXCEPT ![descriptor[r]] = r], UNCHANGED <<descriptor, halted>>,
               UNCHANGED <<mState, worker, taskVars, frames, tickNeeded>>
        PROVE  TaskInv'
    <2>1. AsyncTypeOK'
      BY <1>0, <1>2, AsyncBounds DEF AsyncTypeOK, Answers, Creations
    <2>2. /\ \A p \in Creations : p # r => /\ answer'[p] = answer[p] /\ worker'[p] = worker[p]
                                           /\ refs'[p] = refs[p] /\ appRefs'[p] = appRefs[p]
          /\ answer'[r] = "Success" /\ refs'[r] = 1 /\ appRefs'[r] = 1
          /\ \A d \in Descriptors : cache'[d] = cache[d] \/ cache'[d] = r
      BY <1>0, <1>2 DEF AsyncTypeOK
    <2>3. \A p \in Creations : WorkerRef(p)' = WorkerRef(p)
      BY <1>2 DEF WorkerRef
    <2>4. \A p \in Creations : refs'[p] - appRefs'[p] - WorkerRef(p)' = refs[p] - appRefs[p] - WorkerRef(p)
      BY <1>0, <2>2, <2>3, RefCounts
    <2> QED
      BY <1>0, <1>2, <2>1, <2>2, <2>4, TaskCreation
  <1>3. ASSUME cache[descriptor[r]] # 0, GiveCached(r, cache[descriptor[r]]),
               UNCHANGED <<descriptor, initialized, tracked, mIsCachedReference, cache>>,
               UNCHANGED <<mState, worker, taskVars, frames, tickNeeded>>
        PROVE  TaskInv'
    BY <1>0, <1>3, CachedType, TaskGiveCached
  <1> QED
    BY <1>1, <1>2, <1>3 DEF CreateComputePipeline

LEMMA TaskRelease ==
    ASSUME TaskInv, NEW q \in Creations, ReleasePipeline(q)
    PROVE  TaskInv'
  <1> USE DEF taskVars
  <1>0. AsyncTypeOK /\ halted = "None" /\ appRefs[q] > 0 /\ RefsAreHeld
    BY DEF TaskInv, ReleasePipeline, CanCall
  <1>a. CASE NeedsCaches(q)
    BY <1>0, <1>a, HaltStep DEF ReleasePipeline
  <1> SUFFICES ASSUME ~NeedsCaches(q) PROVE TaskInv'
    BY <1>a
  <1>1. /\ refs' = [refs EXCEPT ![q] = @ - 1] /\ appRefs' = [appRefs EXCEPT ![q] = @ - 1]
        /\ tracked' \in [Creations -> BOOLEAN] /\ \E dead : cache' = Uncached(dead)
        /\ UNCHANGED <<mState, descriptor, initialized, mIsCachedReference, answer, worker,
                       mPendingTasks, mCallbackTaskQueue, frames, tickNeeded, halted>>
    BY <1>0 DEF ReleasePipeline, Release, AsyncTypeOK
  <1>2. /\ cache' \in [Descriptors -> 0..MaxCreations]
        /\ \A d \in Descriptors : cache'[d] \in {0, cache[d]}
    BY <1>0, <1>1, UncachedType
  <1>3. refs[q] = appRefs[q] + WorkerRef(q) + TaskRef(q)
    BY <1>0 DEF RefsAreHeld
  <1>4. refs' \in [Creations -> Nat] /\ appRefs' \in [Creations -> Nat]
    <2>1. refs[q] - 1 \in Nat /\ appRefs[q] - 1 \in Nat
      BY <1>0, <1>3, RefCounts
    <2> QED
      BY <1>0, <1>1, <2>1 DEF AsyncTypeOK
  <1>5. AsyncTypeOK'
    BY <1>0, <1>1, <1>2, <1>4 DEF AsyncTypeOK
  <1>6. /\ TasksApart'
        /\ \A p : (TaskWaits(p)' <=> TaskWaits(p)) /\ (TaskKept(p)' <=> TaskKept(p))
    BY <1>1, PlacesSame DEF TaskInv
  <1>7. TasksWait'
    BY <1>0, <1>1, <1>6 DEF TaskInv, TasksWait, Unposted, Unanswered, AsyncTypeOK
  <1>8. CacheAnswered' /\ CalledAtMostOnce'
    BY <1>1, <1>2 DEF TaskInv, CacheAnswered, CalledAtMostOnce, Unanswered
  <1>9. RefsAreHeld'
    <2>1. ASSUME NEW p \in Creations PROVE refs'[p] = appRefs'[p] + WorkerRef(p)' + TaskRef(p)'
      <3>1. TaskRef(p)' = TaskRef(p) /\ WorkerRef(p)' = WorkerRef(p)
        BY <1>1, <1>6 DEF TaskRef, WorkerRef
      <3>2. refs[p] = appRefs[p] + WorkerRef(p) + TaskRef(p)
        BY <1>0 DEF RefsAreHeld
      <3>3. \/ refs'[p] = refs[p] - 1 /\ appRefs'[p] = appRefs[p] - 1
            \/ refs'[p] = refs[p] /\ appRefs'[p] = appRefs[p]
        BY <1>0, <1>1 DEF AsyncTypeOK
      <3> QED
        BY <1>0, <3>1, <3>2, <3>3, RefCounts
    <2> QED
      BY <2>1 DEF RefsAreHeld
  <1> QED
    BY <1>5, <1>6, <1>7, <1>8, <1>9 DEF TaskInv

LEMMA TaskCall ==
    ASSUME TaskInv, Tick \/ SetCallback \/ LoseDevice \/ Destroy
    PROVE  TaskInv'
  <1> USE DEF taskVars, pipelineVars
  <1>0. AsyncTypeOK /\ TasksApart /\ halted = "None"
        /\ mCallbackTaskQueue \in Seq(Creations) /\ mPendingTasks \subseteq Creations
        /\ frames \in Seq(Frame) /\ <<>> \in Seq(Creations)
    BY EmptySeq DEF TaskInv, AsyncTypeOK, Tick, SetCallback, LoseDevice, Destroy, CanCall
  <1>1. ASSUME NEW call \in {"Tick", "SetCallback"}, NEW op, CanCall(op),
               Push(call, "Code", {}, mCallbackTaskQueue), mCallbackTaskQueue' = <<>>,
               UNCHANGED <<mState, pipelineVars, answer, worker, mPendingTasks, tickNeeded, halted>>
        PROVE  TaskInv'
    <2>1. frames' \in Seq(Frame) /\ Len(frames') <= MaxDepth
      BY <1>0, <1>1, TypePush DEF Calls
    <2>2. AsyncTypeOK'
      BY <1>0, <1>1, <2>1 DEF AsyncTypeOK
    <2> DEFINE f == [call |-> call, at |-> "Code", waits |-> {}, tasks |-> mCallbackTaskQueue, held |-> {}]
    <2>3. f \in Frame /\ frames' = Append(frames, f)
      BY <1>0, <1>1 DEF Frame, Calls, Push
    <2>4. /\ TasksApart'
          /\ \A p : (TaskWaits(p)' <=> TaskWaits(p)) /\ (TaskKept(p)' <=> TaskKept(p))
      BY <1>0, <1>1, <2>3, PlacesPush
    <2> QED
      BY <1>0, <1>1, <2>2, <2>4, QuietStep
  <1>2. ASSUME NEW call \in {"Lose", "Destroy"}, NEW op, CanCall(op),
               Push(call, "Wait", mPendingTasks, <<>>), mPendingTasks' = {},
               mState' \in {mState, "Disconnected"},
               UNCHANGED <<pipelineVars, answer, worker, mCallbackTaskQueue, tickNeeded, halted>>
        PROVE  TaskInv'
    <2>1. frames' \in Seq(Frame) /\ Len(frames') <= MaxDepth
      BY <1>0, <1>2, TypePush DEF Calls
    <2>2. AsyncTypeOK'
      BY <1>0, <1>2, <2>1 DEF AsyncTypeOK
    <2> DEFINE f == [call |-> call, at |-> "Wait", waits |-> mPendingTasks, tasks |-> <<>>, held |-> {}]
    <2>3. f \in Frame /\ frames' = Append(frames, f)
      BY <1>0, <1>2 DEF Frame, Calls, Push
    <2>4. /\ TasksApart'
          /\ \A p : (TaskWaits(p)' <=> TaskWaits(p)) /\ (TaskKept(p)' <=> TaskKept(p))
      BY <1>0, <1>2, <2>3, PlacesPush
    <2> QED
      BY <1>0, <1>2, <2>2, <2>4, QuietStep
  <1>3. CASE Tick
    BY <1>1, <1>3 DEF Tick, AcquireCallbackTasks
  <1>4. CASE SetCallback
    BY <1>1, <1>4 DEF SetCallback, AcquireCallbackTasks
  <1>5. CASE LoseDevice
    BY <1>2, <1>5 DEF LoseDevice
  <1>6. CASE Destroy
    BY <1>2, <1>6 DEF Destroy
  <1> QED
    BY <1>3, <1>4, <1>5, <1>6

(* A call goes on after its wait, or after a callback.                     *)
LEMMA TaskGoesOn ==
    ASSUME TaskInv, WaitEnds \/ CallbackReturns
    PROVE  TaskInv'
  <1> USE DEF taskVars, pipelineVars
  <1>0. AsyncTypeOK /\ TasksApart /\ halted = "None" /\ frames # <<>> /\ frames \in Seq(Frame)
        /\ mCallbackTaskQueue \in Seq(Creations) /\ <<>> \in Seq(Creations)
    BY EmptySeq DEF TaskInv, AsyncTypeOK, WaitEnds, CallbackReturns, InFrame
  <1>1. CASE WaitEnds
    <2> DEFINE f == [Top EXCEPT !.at = "Code", !.waits = {}, !.tasks = mCallbackTaskQueue]
    <2>1. /\ Top.at = "Wait" /\ SetTop(f) /\ mCallbackTaskQueue' = <<>>
          /\ UNCHANGED <<mState, pipelineVars, answer, worker, mPendingTasks, tickNeeded, halted>>
      BY <1>1 DEF WaitEnds, InFrame, AcquireCallbackTasks
    <2>2. /\ f \in Frame /\ f.tasks = mCallbackTaskQueue /\ f.held = Top.held /\ f.call = Top.call
          /\ f.at = "Code"
      BY <1>0, TopType DEF Frame
    <2>3. frames' \in Seq(Frame) /\ Len(frames') <= MaxDepth
      BY <1>0, <2>1, <2>2, TypeSetTop
    <2>4. AsyncTypeOK'
      BY <1>0, <2>1, <2>3 DEF AsyncTypeOK
    <2>5. /\ TasksApart'
          /\ \A p : (TaskWaits(p)' <=> TaskWaits(p)) /\ (TaskKept(p)' <=> TaskKept(p))
      BY <1>0, <2>1, <2>2, PlacesWaited DEF SetTop
    <2> QED
      BY <1>0, <2>1, <2>4, <2>5, QuietStep
  <1>2. CASE CallbackReturns
    <2> DEFINE f == [Top EXCEPT !.at = "Code"]
    <2>1. SetTop(f) /\ UNCHANGED <<mState, pipelineVars, answer, worker, taskVars, tickNeeded, halted>>
      BY <1>2 DEF CallbackReturns
    <2>2. /\ f \in Frame /\ f.tasks = Top.tasks /\ f.held = Top.held /\ f.call = Top.call
          /\ f.at = "Code" /\ Top = frames[Len(frames)]
      BY <1>0, TopType DEF Frame
    <2>3. frames' \in Seq(Frame) /\ Len(frames') <= MaxDepth
      BY <1>0, <2>1, <2>2, TypeSetTop
    <2>4. AsyncTypeOK'
      BY <1>0, <2>1, <2>3 DEF AsyncTypeOK
    <2>5. /\ DOMAIN frames' = DOMAIN frames /\ frames'[Len(frames)] = f
          /\ \A i \in DOMAIN frames : i # Len(frames) => frames'[i] = frames[i]
      BY <1>0, <2>1, <2>2, ExceptLast DEF SetTop
    <2>6. /\ TasksApart'
          /\ \A p : (TaskWaits(p)' <=> TaskWaits(p)) /\ (TaskKept(p)' <=> TaskKept(p))
      <3>1. \A i \in DOMAIN frames :
              /\ frames'[i].call = frames[i].call /\ frames'[i].tasks = frames[i].tasks
              /\ frames'[i].held = frames[i].held
              /\ frames'[i].at \in {"Wait", "Last"} => frames[i].at = frames'[i].at
        BY <2>2, <2>5
      <3> QED
        BY <1>0, <2>1, <2>5, <3>1, PlacesSame
    <2> QED
      BY <1>0, <2>1, <2>4, <2>6, QuietStep
  <1> QED
    BY <1>1, <1>2

(* The task at the head of the innermost call.                             *)
LEMMA HeadTask ==
    ASSUME TaskInv, frames # <<>>, Top.tasks # <<>>
    PROVE  LET h == Head(Top.tasks)
           IN  h \in Creations /\ TaskWaits(h) /\ ~TaskKept(h) /\ answer[h] = "Waiting" /\ ~Unposted(h)
  <1>1. /\ Top = frames[Len(frames)] /\ Len(frames) \in DOMAIN frames /\ Top.tasks \in Seq(Creations)
    BY TopType DEF TaskInv
  <1>2. Head(Top.tasks) \in Creations /\ Head(Top.tasks) \in ToSet(Top.tasks)
    BY <1>1, TailSet DEF TaskInv, TasksApart
  <1>3. TaskWaits(Head(Top.tasks))
    BY <1>1, <1>2 DEF TaskWaits
  <1> QED
    BY <1>2, <1>3 DEF TaskInv, TasksWait, Unanswered

(* A task is run and answered; its reference goes to the application or is *)
(* given back.                                                             *)
LEMMA TaskAnswered ==
    ASSUME TaskInv, halted = "None", AsyncTypeOK', TasksApart', NEW h \in Creations,
           TaskWaits(h), ~TaskKept(h), answer[h] = "Waiting", ~Unposted(h),
           \A p : TaskWaits(p)' <=> TaskWaits(p) /\ p # h,
           \/ \A p : TaskKept(p)' <=> TaskKept(p)
           \/ (\A p : TaskKept(p)' <=> TaskKept(p) \/ p = h) /\ ~Unanswered(h)',
           \A p \in Creations : /\ p # h => answer'[p] = answer[p]
                                /\ answer[p] = "None" => appRefs'[p] = appRefs[p],
           answer'[h] \in {"Waiting", "Success", "DeviceLost", "DeviceDestroyed"},
           worker' = worker, halted' = "None",
           \A d \in Descriptors : cache'[d] \in {0, cache[d]} \/ (cache'[d] = h /\ ~Unanswered(h)'),
           \A p \in Creations : refs'[p] - appRefs'[p] - TaskRef(p)' = refs[p] - appRefs[p] - TaskRef(p)
    PROVE  TaskInv'
  <1>1. TasksWait'
    <2>1. ASSUME NEW p \in Creations
          PROVE  /\ TaskWaits(p)' => answer'[p] = "Waiting" /\ ~Unposted(p)'
                 /\ TaskKept(p)' => ~Unanswered(p)' /\ ~Unposted(p)'
                 /\ worker'[p] \in {"Start", "Initialized"} => answer'[p] = "Waiting"
                 /\ answer'[p] = "None" => worker'[p] = "None" /\ appRefs'[p] = 0
      <3>1. CASE p = h
        BY <3>1 DEF Unposted
      <3>2. CASE p # h
        BY <3>2 DEF TaskInv, TasksWait, Unposted, Unanswered
      <3> QED
        BY <3>1, <3>2
    <2> QED
      BY <2>1 DEF TasksWait
  <1>2. CacheAnswered'
    <2>1. ASSUME NEW d \in Descriptors, cache'[d] # 0 PROVE ~Unanswered(cache[d])'
      <3>1. CASE cache'[d] = cache[d]
        <4>1. cache[d] \in 0..MaxCreations /\ cache[d] # 0
          BY <2>1, <3>1 DEF TaskInv, AsyncTypeOK
        <4>2. cache[d] \in Creations /\ ~Unanswered(cache[d])
          BY <4>1, AsyncBounds DEF TaskInv, CacheAnswered, Creations
        <4>3. cache[d] # h
          BY <4>2 DEF Unanswered
        <4> QED
          BY <3>1, <4>2, <4>3 DEF Unanswered
      <3>2. CASE cache'[d] = h /\ ~Unanswered(h)'
        BY <3>2 DEF Unanswered
      <3> QED
        BY <2>1, <3>1, <3>2
    <2> QED
      BY <2>1 DEF CacheAnswered
  <1>3. CalledAtMostOnce'
    BY DEF TaskInv, CalledAtMostOnce
  <1>4. RefsAreHeld'
    <2>1. ASSUME NEW p \in Creations PROVE refs'[p] = appRefs'[p] + WorkerRef(p)' + TaskRef(p)'
      <3>1. WorkerRef(p)' = WorkerRef(p)
        BY DEF WorkerRef
      <3>2. refs[p] = appRefs[p] + WorkerRef(p) + TaskRef(p)
        BY DEF TaskInv, RefsAreHeld
      <3>3. /\ refs[p] \in Nat /\ appRefs[p] \in Nat /\ WorkerRef(p) \in {0, 1} /\ TaskRef(p) \in {0, 1}
            /\ refs'[p] \in Nat /\ appRefs'[p] \in Nat /\ TaskRef(p)' \in {0, 1}
        BY DEF TaskInv, AsyncTypeOK, WorkerRef, TaskRef
      <3> QED
        BY <3>1, <3>2, <3>3
    <2> QED
      BY <2>1 DEF RefsAreHeld
  <1> QED
    BY <1>1, <1>2, <1>3, <1>4 DEF TaskInv

LEMMA TaskFinish ==
    ASSUME TaskInv, FinishTask
    PROVE  TaskInv'
  <1> USE DEF taskVars
  <1> DEFINE f == [Top EXCEPT !.at = "Callback", !.tasks = Tail(@)]
  <1>a. CASE Halt("NullManager") \/ Halt("RefCount")
    BY <1>a, HaltStep DEF FinishTask, InFrame
  <1> SUFFICES ASSUME ~(Halt("NullManager") \/ Halt("RefCount")) PROVE TaskInv'
    BY <1>a
  <1>0. /\ AsyncTypeOK /\ TasksApart /\ halted = "None" /\ frames # <<>> /\ frames \in Seq(Frame)
        /\ Top.tasks # <<>> /\ SetTop(f) /\ RefsAreHeld /\ Finish(Head(Top.tasks))
        /\ UNCHANGED <<mState, descriptor, initialized, worker, mPendingTasks, mCallbackTaskQueue,
                       tickNeeded, halted>>
    BY DEF TaskInv, AsyncTypeOK, FinishTask, InFrame
  <1>1. PICK h \in Creations : /\ h = Head(Top.tasks)
                               /\ TaskWaits(h) /\ ~TaskKept(h) /\ answer[h] = "Waiting" /\ ~Unposted(h)
    BY <1>0, HeadTask
  <1> DEFINE c == cache[descriptor[h]]
  <1>2. f \in Frame /\ f.tasks = Tail(Top.tasks) /\ f.call = Top.call /\ f.at = "Callback"
        /\ f.held = Top.held
    <2>1. Top \in Frame /\ Tail(Top.tasks) \in Seq(Creations)
      BY <1>0, TopType, HeadTailProperties
    <2> QED
      BY <2>1 DEF Frame
  <1>3. frames' \in Seq(Frame) /\ Len(frames') <= MaxDepth
    BY <1>0, <1>2, TypeSetTop
  <1>4. /\ TasksApart' /\ \A p : TaskWaits(p)' <=> TaskWaits(p) /\ p # h
        /\ \A p : TaskKept(p)' <=> TaskKept(p)
    BY <1>0, <1>1, <1>2, PlacesRun DEF SetTop
  <1>5. TaskRef(h) = 1 /\ TaskRef(h)' = 0 /\ \A p \in Creations : p # h => TaskRef(p)' = TaskRef(p)
    BY <1>1, <1>4 DEF TaskRef
  <1>7. CASE c = 0
    <2>1. /\ cache' = [cache EXCEPT ![descriptor[h]] = h]
          /\ mIsCachedReference' = [mIsCachedReference EXCEPT ![h] = TRUE]
          /\ appRefs' = [appRefs EXCEPT ![h] = @ + 1] /\ answer' = [answer EXCEPT ![h] = "Success"]
          /\ UNCHANGED <<refs, tracked>>
      BY <1>0, <1>1, <1>7 DEF Finish, Answer
    <2>2. AsyncTypeOK'
      <3>1. appRefs[h] + 1 \in Nat /\ h \in 0..MaxCreations /\ answer' \in [Creations -> Answers]
        BY <1>0, <1>1, <2>1, AsyncBounds DEF AsyncTypeOK, Creations, Answers
      <3>2. /\ cache' \in [Descriptors -> 0..MaxCreations] /\ appRefs' \in [Creations -> Nat]
            /\ mIsCachedReference' \in [Creations -> BOOLEAN]
        BY <1>0, <2>1, <3>1 DEF AsyncTypeOK
      <3> QED
        BY <1>0, <1>3, <2>1, <3>1, <3>2 DEF AsyncTypeOK
    <2>3. /\ answer'[h] = "Success" /\ ~Unanswered(h)' /\ appRefs'[h] = appRefs[h] + 1
          /\ \A p \in Creations : p # h => answer'[p] = answer[p] /\ appRefs'[p] = appRefs[p]
          /\ \A d \in Descriptors : cache'[d] = cache[d] \/ cache'[d] = h
      BY <1>0, <1>1, <2>1 DEF AsyncTypeOK, Unanswered
    <2>4. ASSUME NEW p \in Creations
          PROVE  refs'[p] - appRefs'[p] - TaskRef(p)' = refs[p] - appRefs[p] - TaskRef(p)
      <3>1. refs'[p] = refs[p] /\ refs[p] \in Nat /\ appRefs[p] \in Nat /\ TaskRef(p) \in {0, 1}
        BY <1>0, <2>1, RefCounts
      <3>2. CASE p = h
        BY <1>5, <2>3, <3>1, <3>2
      <3>3. CASE p # h
        <4>1. appRefs'[p] = appRefs[p] /\ TaskRef(p)' = TaskRef(p)
          BY <1>5, <2>3, <3>3
        <4> QED
          BY <3>1, <4>1
      <3> QED
        BY <3>2, <3>3
    <2> QED
      BY <1>0, <1>1, <1>4, <2>1, <2>2, <2>3, <2>4, TaskAnswered
  <1>8. CASE c # 0
    <2>1. c \in Creations /\ c # h /\ ~Unanswered(c)
      <3>1. c \in 1..MaxCreations /\ ~Unanswered(c)
        BY <1>1, <1>8, CachedType
      <3> QED
        BY <1>1, <3>1 DEF Creations, Unanswered
    <2>2. /\ appRefs' = [appRefs EXCEPT ![c] = @ + 1]
          /\ refs' = [[refs EXCEPT ![c] = @ + 1] EXCEPT ![h] = @ - 1]
          /\ answer' = [answer EXCEPT ![h] = "Success"]
          /\ tracked' \in [Creations -> BOOLEAN] /\ \E dead : cache' = Uncached(dead)
          /\ UNCHANGED mIsCachedReference
      BY <1>0, <1>1, <1>8 DEF Finish, Answer, Release, AsyncTypeOK
    <2>3. refs[h] >= 1 /\ refs[h] \in Nat
      BY <1>0, <1>1, <1>5, RefCounts DEF RefsAreHeld
    <2>4. /\ refs'[h] = refs[h] - 1 /\ refs'[c] = refs[c] + 1 /\ appRefs'[c] = appRefs[c] + 1
          /\ appRefs'[h] = appRefs[h]
          /\ \A p \in Creations : p # h /\ p # c => refs'[p] = refs[p] /\ appRefs'[p] = appRefs[p]
      BY <1>0, <1>1, <2>1, <2>2 DEF AsyncTypeOK
    <2>5. AsyncTypeOK'
      <3> DEFINE r == [refs EXCEPT ![c] = @ + 1]
      <3>a. /\ refs[c] + 1 \in Nat /\ appRefs[c] + 1 \in Nat /\ refs[h] - 1 \in Nat
            /\ refs \in [Creations -> Nat] /\ appRefs \in [Creations -> Nat]
        BY <1>0, <2>1, <2>3 DEF AsyncTypeOK
      <3>b. r \in [Creations -> Nat] /\ r[h] = refs[h] /\ appRefs' \in [Creations -> Nat]
        BY <1>1, <2>1, <2>2, <3>a
      <3>1. refs' \in [Creations -> Nat] /\ appRefs' \in [Creations -> Nat]
        <4> HIDE DEF r
        <4>1. [r EXCEPT ![h] = @ - 1] \in [Creations -> Nat]
          BY <3>a, <3>b
        <4> QED
          BY <2>2, <3>b, <4>1 DEF r
      <3>2. cache' \in [Descriptors -> 0..MaxCreations] /\ answer' \in [Creations -> Answers]
        BY <1>0, <2>2, UncachedType DEF AsyncTypeOK, Answers
      <3> QED
        BY <1>0, <1>3, <2>2, <3>1, <3>2 DEF AsyncTypeOK
    <2>6. /\ answer'[h] = "Success"
          /\ \A p \in Creations : /\ p # h => answer'[p] = answer[p]
                                  /\ answer[p] = "None" => appRefs'[p] = appRefs[p]
          /\ \A d \in Descriptors : cache'[d] \in {0, cache[d]}
      BY <1>0, <1>1, <2>1, <2>2, <2>4, UncachedType DEF AsyncTypeOK, Unanswered
    <2>7. \A p \in Creations : refs'[p] - appRefs'[p] - TaskRef(p)' = refs[p] - appRefs[p] - TaskRef(p)
      <3> SUFFICES ASSUME NEW p \in Creations
                   PROVE  refs'[p] - appRefs'[p] - TaskRef(p)' = refs[p] - appRefs[p] - TaskRef(p)
        OBVIOUS
      <3>1. refs[p] \in Nat /\ appRefs[p] \in Nat /\ TaskRef(p) \in {0, 1} /\ TaskRef(p)' \in {0, 1}
        BY <1>0, RefCounts DEF TaskRef
      <3>2. CASE p = h
        BY <1>5, <2>4, <3>1, <3>2
      <3>3. CASE p = c
        BY <1>5, <2>1, <2>4, <3>1, <3>3
      <3>4. CASE p # h /\ p # c
        BY <1>5, <2>4, <3>1, <3>4
      <3> QED
        BY <3>2, <3>3, <3>4
    <2>8. ~Unanswered(h)' /\ worker' = worker /\ halted' = "None"
      BY <1>0, <2>2, <2>6 DEF Unanswered
    <2> QED
      BY <1>0, <1>1, <1>4, <2>5, <2>6, <2>7, <2>8, TaskAnswered
  <1> QED
    BY <1>7, <1>8

LEMMA TaskClose ==
    ASSUME TaskInv, CloseTask
    PROVE  TaskInv'
  <1> USE DEF taskVars, pipelineVars
  <1> DEFINE f == [Top EXCEPT !.at = "Callback", !.tasks = Tail(@), !.held = @ \cup {Head(Top.tasks)}]
  <1>0. /\ AsyncTypeOK /\ TasksApart /\ halted = "None" /\ frames # <<>> /\ frames \in Seq(Frame)
        /\ Top.tasks # <<>> /\ SetTop(f) /\ Top.call \in {"Lose", "Destroy"}
        /\ UNCHANGED <<mState, pipelineVars, worker, taskVars, tickNeeded, halted>>
    BY DEF TaskInv, AsyncTypeOK, CloseTask, InFrame
  <1>1. PICK h \in Creations : /\ h = Head(Top.tasks)
                               /\ TaskWaits(h) /\ ~TaskKept(h) /\ answer[h] = "Waiting" /\ ~Unposted(h)
    BY <1>0, HeadTask
  <1>2. f \in Frame /\ f.tasks = Tail(Top.tasks) /\ f.call = Top.call /\ f.at = "Callback"
        /\ f.held = Top.held \cup {h}
    <2>1. Top \in Frame /\ Tail(Top.tasks) \in Seq(Creations)
      BY <1>0, TopType, HeadTailProperties
    <2> QED
      BY <1>1, <2>1 DEF Frame
  <1>3. frames' \in Seq(Frame) /\ Len(frames') <= MaxDepth
    BY <1>0, <1>2, TypeSetTop
  <1>4. /\ TasksApart' /\ \A p : TaskWaits(p)' <=> TaskWaits(p) /\ p # h
        /\ \A p : TaskKept(p)' <=> TaskKept(p) \/ p = h
    BY <1>0, <1>1, <1>2, PlacesRun DEF SetTop
  <1>5. /\ answer'[h] \in {"DeviceLost", "DeviceDestroyed"} /\ ~Unanswered(h)'
        /\ answer' \in [Creations -> Answers]
        /\ \A p \in Creations : p # h => answer'[p] = answer[p]
    BY <1>0, <1>1 DEF CloseTask, Answer, AsyncTypeOK, Answers, Unanswered
  <1>6. AsyncTypeOK'
    BY <1>0, <1>3, <1>5 DEF AsyncTypeOK
  <1>7. \A p \in Creations : TaskRef(p)' = TaskRef(p)
    BY <1>1, <1>4 DEF TaskRef
  <1> QED
    BY <1>0, <1>1, <1>4, <1>5, <1>6, <1>7, TaskAnswered

(* A call drops the tasks it has kept, with their references.              *)
LEMMA TaskDropped ==
    ASSUME TaskInv, TasksApart', frames' \in Seq(Frame), Len(frames') <= MaxDepth,
           \A p : /\ TaskWaits(p)' <=> TaskWaits(p)
                  /\ TaskKept(p)' <=> TaskKept(p) /\ p \notin Top.held
                  /\ p \in Top.held => TaskKept(p),
           refs' = DropHeld, tracked' \in [Creations -> BOOLEAN],
           cache' \in [Descriptors -> 0..MaxCreations],
           \A d \in Descriptors : cache'[d] \in {0, cache[d]},
           halted' \in {"None", "NullManager"}, tickNeeded' \in BOOLEAN,
           mState' \in {mState, "Destroyed"},
           UNCHANGED <<descriptor, initialized, appRefs, mIsCachedReference, answer, worker,
                       mPendingTasks, mCallbackTaskQueue>>
    PROVE  TaskInv'
  <1>0. AsyncTypeOK /\ RefsAreHeld
    BY DEF TaskInv
  <1>1. /\ TasksWait /\ CacheAnswered /\ CalledAtMostOnce
        /\ answer' = answer /\ worker' = worker /\ appRefs' = appRefs
        /\ \A p : TaskWaits(p)' <=> TaskWaits(p)
        /\ \A p : TaskKept(p)' <=> TaskKept(p) /\ p \notin Top.held
        /\ \A p : p \in Top.held => TaskKept(p)
    BY DEF TaskInv
  <1>3. \A p \in Creations : p \in Top.held => ~TaskWaits(p)
    BY <1>1 DEF TasksWait, Unanswered
  <1>4. \A p \in Creations : /\ p \in Top.held => TaskRef(p) = 1 /\ TaskRef(p)' = 0
                             /\ p \notin Top.held => TaskRef(p)' = TaskRef(p)
    BY <1>1, <1>3 DEF TaskRef
  <1>6. \A p \in Creations : refs[p] = appRefs[p] + WorkerRef(p) + TaskRef(p) /\ WorkerRef(p)' = WorkerRef(p)
    BY <1>0 DEF RefsAreHeld, WorkerRef
  <1>7. refs' \in [Creations -> Nat]
    <2>1. \A p \in Creations : p \in Top.held => refs[p] - 1 \in Nat
      BY <1>0, <1>4, <1>6, RefCounts
    <2> QED
      BY <1>0, <2>1 DEF DropHeld, AsyncTypeOK
  <1>9. AsyncTypeOK'
    BY <1>0, <1>7 DEF AsyncTypeOK
  <1>10. TasksWait' /\ CacheAnswered' /\ CalledAtMostOnce'
    <2>1. TasksWait'
      BY <1>1 DEF TasksWait, Unposted, Unanswered
    <2>2. CacheAnswered' /\ CalledAtMostOnce'
      BY <1>1 DEF CacheAnswered, CalledAtMostOnce, Unanswered
    <2> QED
      BY <2>1, <2>2
  <1>11. RefsAreHeld'
    <2>1. ASSUME NEW p \in Creations PROVE refs'[p] = appRefs'[p] + WorkerRef(p)' + TaskRef(p)'
      <3>1. refs'[p] = IF p \in Top.held THEN refs[p] - 1 ELSE refs[p]
        BY DEF DropHeld
      <3> QED
        BY <1>0, <1>4, <1>6, <3>1, RefCounts
    <2> QED
      BY <2>1 DEF RefsAreHeld
  <1> QED
    BY <1>9, <1>10, <1>11 DEF TaskInv

(* A call returns.                                                         *)
LEMMA TaskReturns ==
    ASSUME TaskInv, TickReturns \/ SetCallbackReturns \/ LoseReturns \/ DestroyReturns
    PROVE  TaskInv'
  <1> USE DEF taskVars, pipelineVars
  <1>a. CASE Halt("NullManager")
    BY <1>a, HaltStep DEF TickReturns, SetCallbackReturns, LoseReturns, DestroyReturns, InFrame
  <1> SUFFICES ASSUME ~Halt("NullManager") PROVE TaskInv'
    BY <1>a
  <1>0. /\ AsyncTypeOK /\ TasksApart /\ halted = "None" /\ frames # <<>> /\ frames \in Seq(Frame)
        /\ frames' = Front(frames) /\ frames' = Pop
        /\ UNCHANGED <<descriptor, initialized, appRefs, mIsCachedReference, answer, worker,
                       mPendingTasks, mCallbackTaskQueue>>
        /\ halted' \in {"None", "NullManager"} /\ tickNeeded' \in BOOLEAN
        /\ mState' \in {mState, "Destroyed"}
    BY DEF TaskInv, AsyncTypeOK, TickReturns, SetCallbackReturns, LoseReturns, DestroyReturns,
       InFrame, Pop
  <1>1. frames' \in Seq(Frame) /\ Len(frames') <= MaxDepth
    BY <1>0, TypePop
  <1>2. Top.tasks = <<>> /\ (Top.call \in {"Tick", "SetCallback"} \/ Top.at = "Last" => Top.held = {})
    BY <1>0, TopType DEF TasksApart, TickReturns, SetCallbackReturns, LoseReturns, DestroyReturns,
       InFrame
  <1>3. /\ TasksApart'
        /\ \A p : /\ TaskWaits(p)' <=> TaskWaits(p)
                  /\ TaskKept(p)' <=> TaskKept(p) /\ p \notin Top.held
                  /\ p \in Top.held => TaskKept(p)
    BY <1>0, <1>2, PlacesPop
  <1>4. refs' = DropHeld
    <2>1. CASE TickReturns \/ SetCallbackReturns \/ DestroyReturns
      <3>1. refs' = refs /\ Top.held = {}
        BY <1>2, <2>1 DEF TickReturns, SetCallbackReturns, DestroyReturns, InFrame
      <3> QED
        BY <1>0, <3>1 DEF DropHeld, AsyncTypeOK
    <2>2. CASE LoseReturns
      BY <2>2 DEF LoseReturns, Release
    <2> QED
      BY <2>1, <2>2
  <1>5. tracked' \in [Creations -> BOOLEAN] /\ cache' \in [Descriptors -> 0..MaxCreations]
        /\ \A d \in Descriptors : cache'[d] \in {0, cache[d]}
    <2>1. CASE TickReturns \/ SetCallbackReturns
      BY <1>0, <2>1 DEF TickReturns, SetCallbackReturns, AsyncTypeOK
    <2>2. CASE LoseReturns
      BY <1>0, <2>2, UncachedType DEF LoseReturns, Release, AsyncTypeOK
    <2>3. CASE DestroyReturns
      BY <1>0, <2>3, AsyncBounds DEF DestroyReturns, AsyncTypeOK
    <2> QED
      BY <2>1, <2>2, <2>3
  <1> QED
    BY <1>0, <1>1, <1>3, <1>4, <1>5, TaskDropped

LEMMA TaskDestroyObjects ==
    ASSUME TaskInv, DestroyObjects
    PROVE  TaskInv'
  <1> USE DEF taskVars
  <1> DEFINE f == [Top EXCEPT !.at = "Last", !.held = {}]
  <1>a. CASE Halt("Unreachable")
    BY <1>a, HaltStep DEF DestroyObjects, InFrame
  <1> SUFFICES ASSUME ~Halt("Unreachable") PROVE TaskInv'
    BY <1>a
  <1>0. /\ AsyncTypeOK /\ TasksApart /\ halted = "None" /\ frames # <<>> /\ frames \in Seq(Frame)
        /\ Top.tasks = <<>> /\ SetTop(f) /\ refs' = DropHeld
        /\ tracked' = [p \in Creations |-> FALSE] /\ cache' = [d \in Descriptors |-> 0]
        /\ UNCHANGED <<mState, descriptor, initialized, appRefs, mIsCachedReference, answer, worker,
                       mPendingTasks, mCallbackTaskQueue, tickNeeded, halted>>
    BY DEF TaskInv, AsyncTypeOK, DestroyObjects, InFrame
  <1>1. f \in Frame /\ f.tasks = <<>> /\ f.held = {} /\ f.call = Top.call
    BY <1>0, TopType DEF Frame
  <1>2. frames' \in Seq(Frame) /\ Len(frames') <= MaxDepth
    BY <1>0, <1>1, TypeSetTop
  <1>3. /\ TasksApart'
        /\ \A p : /\ TaskWaits(p)' <=> TaskWaits(p)
                  /\ TaskKept(p)' <=> TaskKept(p) /\ p \notin Top.held
                  /\ p \in Top.held => TaskKept(p)
    BY <1>0, <1>1, PlacesDrop DEF SetTop
  <1>4. /\ tracked' \in [Creations -> BOOLEAN] /\ cache' \in [Descriptors -> 0..MaxCreations]
        /\ \A d \in Descriptors : cache'[d] \in {0, cache[d]}
        /\ halted' \in {"None", "NullManager"} /\ tickNeeded' \in BOOLEAN
        /\ mState' \in {mState, "Destroyed"}
    BY <1>0, AsyncBounds DEF AsyncTypeOK
  <1> QED
    BY <1>0, <1>2, <1>3, <1>4, TaskDropped

LEMMA TaskStep == TaskInv /\ [Next]_vars => TaskInv'
  <1> SUFFICES ASSUME TaskInv, [Next]_vars PROVE TaskInv'
    OBVIOUS
  <1>1. CASE Application
    BY <1>1, TaskCreateAsync, TaskCreate, TaskRelease, TaskCall DEF Application
  <1>2. CASE StackStep
    BY <1>2, TaskGoesOn, TaskFinish, TaskClose, TaskReturns, TaskDestroyObjects DEF StackStep
  <1>3. CASE \E r \in Creations : Worker(r)
    BY <1>3, TaskWorker
  <1>4. CASE UNCHANGED vars
    BY <1>4 DEF vars, pipelineVars, taskVars, TaskInv, AsyncTypeOK, TasksApart, TasksWait, Unposted,
       Unanswered, CacheAnswered, CalledAtMostOnce, RefsAreHeld, TaskRef,
       WorkerRef, TaskWaits, TaskKept
  <1> QED
    BY <1>1, <1>2, <1>3, <1>4 DEF Next

LEMMA TaskInit == Init => TaskInv
  <1> SUFFICES ASSUME Init PROVE TaskInv
    OBVIOUS
  <1>1. frames = <<>> /\ DOMAIN frames = {} /\ mCallbackTaskQueue = <<>> /\ Len(frames) = 0
        /\ frames \in Seq(Frame) /\ mCallbackTaskQueue \in Seq(Creations)
    BY EmptySeq DEF Init
  <1>2. AsyncTypeOK
    <2>1. /\ refs \in [Creations -> Nat] /\ appRefs \in [Creations -> Nat]
          /\ initialized \in [Creations -> BOOLEAN] /\ tracked \in [Creations -> BOOLEAN]
          /\ mIsCachedReference \in [Creations -> BOOLEAN]
      BY DEF Init
    <2>2. cache \in [Descriptors -> 0..MaxCreations] /\ 0 <= MaxDepth
      BY AsyncBounds DEF Init
    <2>3. /\ answer \in [Creations -> Answers]
          /\ worker \in [Creations -> {"None", "Start", "Initialized", "Added", "Deleting",
                                       "Released", "Removed", "Complete"}]
      BY DEF Init, Answers
    <2> QED
      BY <1>1, <2>1, <2>2, <2>3 DEF Init, AsyncTypeOK
  <1>3. TasksApart /\ \A p : ~TaskWaits(p) /\ ~TaskKept(p)
    BY <1>1, EmptyFacts DEF TasksApart, TaskWaits, TaskKept
  <1>4. TasksWait /\ CacheAnswered /\ CalledAtMostOnce
    BY <1>3 DEF Init, TasksWait, CacheAnswered, CalledAtMostOnce
  <1>5. RefsAreHeld
    BY <1>3 DEF Init, RefsAreHeld, TaskRef, WorkerRef
  <1> QED
    BY <1>2, <1>3, <1>4, <1>5 DEF TaskInv

LEMMA TaskInvariant == Spec => []TaskInv
  BY TaskInit, TaskStep, PTL DEF Spec

(* The callback of CreateComputePipelineAsync is called at most once,      *)
(* whatever the application does in callbacks: tick, lose or destroy the   *)
(* device while FlushCallbackTaskQueue, HandleDeviceLoss or HandleShutDown *)
(* still has tasks to run.                                                 *)
THEOREM AnsweredOnce == Spec => []CalledAtMostOnce
  <1>1. TaskInv => CalledAtMostOnce
    BY DEF TaskInv
  <1> QED
    BY <1>1, TaskInvariant, PTL

-----------------------------------------------------------------------------
(* Shutting down: Destroy waits for every worker, and nothing is left for  *)
(* the calls made from its callbacks.                                      *)

StackInv == WorkersKnown /\ ShutDownInv

LEMMA StackSame ==
    ASSUME StackInv, UNCHANGED <<mState, frames>>, mPendingTasks' \subseteq mPendingTasks,
           \A p \in Creations : ~WorkerDone(p)' =>
              ~WorkerDone(p) /\ (p \in mPendingTasks => p \in mPendingTasks'),
           \/ mCallbackTaskQueue' = mCallbackTaskQueue
           \/ frames # <<>> => ~(frames[1].call = "Destroy" /\ frames[1].at # "Wait")
    PROVE  StackInv'
  <1>1. WorkersKnown'
    BY DEF StackInv, WorkersKnown
  <1>2. mState' = "Destroyed" => frames' = <<>> /\ \A p \in Creations : WorkerDone(p)'
    BY DEF StackInv, ShutDownInv
  <1>3. ASSUME NEW i \in DOMAIN frames
        PROVE  /\ i < Len(frames') => frames'[i].at \in {"Callback", "Last"}
               /\ frames'[i].at = "Last" => frames'[i].call = "Destroy"
               /\ frames'[i].call = "Destroy" => i = 1 /\ mPendingTasks' = {}
               /\ frames'[1].call = "Destroy" /\ frames'[1].at # "Wait" =>
                     /\ mCallbackTaskQueue' = <<>>
                     /\ i > 1 => frames'[i].tasks = <<>> /\ frames'[i].at # "Callback"
                     /\ frames'[i].waits = {}
    <2>1. frames # <<>>
      BY <1>3
    <2> QED
      BY <1>3, <2>1 DEF StackInv, ShutDownInv
  <1> QED
    BY <1>1, <1>2, <1>3 DEF StackInv, ShutDownInv

(* One of the calls that flush or drain the queue is made.                 *)
LEMMA StackPush ==
    ASSUME CalmShutDown, AsyncTypeOK, StackInv,
           NEW op \in Calls, CanCall(op), NEW at, NEW waits, NEW tasks, Push(op, at, waits, tasks),
           worker' = worker, mState # "Destroyed", mState' # "Destroyed",
           \/ /\ at = "Code" /\ waits = {} /\ tasks = mCallbackTaskQueue /\ mCallbackTaskQueue' = <<>>
              /\ mPendingTasks' = mPendingTasks /\ op # "Destroy"
           \/ /\ at = "Wait" /\ waits = mPendingTasks /\ tasks = <<>>
              /\ mCallbackTaskQueue' = mCallbackTaskQueue /\ mPendingTasks' = {}
    PROVE  StackInv'
  <1> DEFINE g == [call |-> op, at |-> at, waits |-> waits, tasks |-> tasks, held |-> {}]
             n == Len(frames) + 1
  <1>1. g \in Frame /\ frames \in Seq(Frame)
    <2>1. waits \in SUBSET Creations /\ tasks \in Seq(Creations) /\ at \in {"Wait", "Code"}
      BY EmptySeq DEF AsyncTypeOK
    <2> QED
      BY <2>1 DEF Frame, AsyncTypeOK
  <1>2. /\ DOMAIN frames' = DOMAIN frames \cup {n} /\ n \notin DOMAIN frames /\ Len(frames') = n
        /\ frames'[n] = g /\ \A i \in DOMAIN frames : frames'[i] = frames[i]
    BY <1>1, AppendLast DEF Push
  <1>3. /\ DOMAIN frames = 1..Len(frames) /\ Len(frames) \in Nat
        /\ frames = <<>> => n = 1
    BY <1>1, LenProperties
  <1>4. /\ frames # <<>> => frames[Len(frames)].at \in {"Callback", "Last"}
        /\ op = "Destroy" => frames = <<>>
    BY DEF CanCall, Top, CalmShutDown
  <1>5. WorkersKnown'
    BY <1>2 DEF StackInv, WorkersKnown, WorkerDone
  <1>6. ASSUME NEW i \in DOMAIN frames'
        PROVE  /\ i < Len(frames') => frames'[i].at \in {"Callback", "Last"}
               /\ frames'[i].at = "Last" => frames'[i].call = "Destroy"
    BY <1>2, <1>3, <1>4, <1>6 DEF StackInv, ShutDownInv
  <1>7. ASSUME NEW i \in DOMAIN frames', frames'[i].call = "Destroy" PROVE i = 1 /\ mPendingTasks' = {}
    BY <1>2, <1>3, <1>4, <1>7 DEF StackInv, ShutDownInv
  <1>8. ASSUME NEW i \in DOMAIN frames', frames'[1].call = "Destroy", frames'[1].at # "Wait"
        PROVE  /\ mCallbackTaskQueue' = <<>>
               /\ i > 1 => frames'[i].tasks = <<>> /\ frames'[i].at # "Callback"
               /\ frames'[i].waits = {}
    <2>1. op # "Destroy"
      BY <1>2, <1>3, <1>4, <1>8
    <2>2. n # 1 /\ 1 \in DOMAIN frames /\ frames[1].call = "Destroy" /\ frames[1].at # "Wait"
      BY <1>2, <1>3, <1>8, <2>1
    <2>3. /\ mPendingTasks = {} /\ mCallbackTaskQueue = <<>>
          /\ \A j \in DOMAIN frames : /\ j > 1 => frames[j].tasks = <<>> /\ frames[j].at # "Callback"
                                      /\ frames[j].waits = {}
      BY <2>2 DEF StackInv, ShutDownInv
    <2> QED
      BY <1>2, <2>3
  <1> QED
    BY <1>5, <1>6, <1>7, <1>8 DEF StackInv, ShutDownInv

(* The innermost call goes on.                                             *)
LEMMA StackSetTop ==
    ASSUME AsyncTypeOK, StackInv, frames # <<>>, NEW f \in Frame, SetTop(f), f.call = Top.call,
           f.at # "Wait", f.at = "Last" => f.call = "Destroy", Top.at = "Wait" => WaitedFor(Top.waits),
           f.waits = {} \/ (f.waits = Top.waits /\ Top.at # "Wait"),
           mCallbackTaskQueue' = <<>> \/ (mCallbackTaskQueue' = mCallbackTaskQueue /\ Top.at # "Wait"),
           \/ Top.at = "Callback" \/ Top.tasks # <<>> \/ Top.call = "Destroy"
           \/ f.at = "Code" /\ f.tasks = mCallbackTaskQueue,
           UNCHANGED <<mState, worker, mPendingTasks>>
    PROVE  StackInv'
  <1> DEFINE n == Len(frames)
  <1>1. /\ DOMAIN frames' = DOMAIN frames /\ n \in DOMAIN frames /\ Len(frames') = n
        /\ frames'[n] = f /\ \A i \in DOMAIN frames : i # n => frames'[i] = frames[i]
        /\ Top = frames[n]
    BY ExceptLast DEF SetTop, AsyncTypeOK, Top
  <1>2. DOMAIN frames = 1..n /\ n \in Nat /\ 1 \in DOMAIN frames
    BY <1>1, LenProperties DEF AsyncTypeOK
  <1>3. WorkersKnown'
    <2>1. ASSUME NEW p \in Creations, ~WorkerDone(p)
          PROVE  p \in mPendingTasks \/ \E i \in DOMAIN frames : frames'[i].at = "Wait" /\ p \in frames'[i].waits
      <3>1. CASE \E i \in DOMAIN frames : frames[i].at = "Wait" /\ p \in frames[i].waits
        BY <1>1, <2>1, <3>1 DEF WaitedFor, WorkerDone
      <3> QED
        BY <2>1, <3>1 DEF StackInv, WorkersKnown
    <2> QED
      BY <1>1, <2>1 DEF WorkersKnown, WorkerDone
  <1>4. mState' # "Destroyed"
    BY DEF StackInv, ShutDownInv
  <1>5. ASSUME NEW i \in DOMAIN frames
        PROVE  /\ i < Len(frames') => frames'[i].at \in {"Callback", "Last"}
               /\ frames'[i].at = "Last" => frames'[i].call = "Destroy"
               /\ frames'[i].call = "Destroy" => i = 1 /\ mPendingTasks' = {}
    BY <1>1, <1>2 DEF StackInv, ShutDownInv
  <1>6. ASSUME NEW i \in DOMAIN frames, frames'[1].call = "Destroy", frames'[1].at # "Wait"
        PROVE  /\ mCallbackTaskQueue' = <<>>
               /\ i > 1 => frames'[i].tasks = <<>> /\ frames'[i].at # "Callback"
               /\ frames'[i].waits = {}
    <2>1. CASE n = 1 /\ Top.at = "Wait"
      BY <1>1, <1>2, <2>1
    <2>2. CASE n > 1 \/ Top.at # "Wait"
      <3>1. frames[1].call = "Destroy" /\ frames[1].at # "Wait"
        BY <1>1, <1>2, <1>6, <2>2 DEF StackInv, ShutDownInv
      <3>2. /\ mCallbackTaskQueue = <<>>
            /\ \A j \in DOMAIN frames : /\ j > 1 => frames[j].tasks = <<>> /\ frames[j].at # "Callback"
                                        /\ frames[j].waits = {}
        BY <3>1 DEF StackInv, ShutDownInv
      <3>3. Top.call = "Destroy" => n = 1
        BY <1>1 DEF StackInv, ShutDownInv
      <3> QED
        BY <1>1, <1>2, <3>2, <3>3
    <2> QED
      BY <1>2, <2>1, <2>2
  <1> QED
    BY <1>1, <1>3, <1>4, <1>5, <1>6 DEF StackInv, ShutDownInv

(* The innermost call returns.                                             *)
LEMMA StackPop ==
    ASSUME AsyncTypeOK, StackInv, frames # <<>>, Top.at # "Wait", frames' = Pop,
           UNCHANGED <<worker, taskVars>>,
           mState' = mState \/ (mState' = "Destroyed" /\ Top.call = "Destroy")
    PROVE  StackInv'
  <1> DEFINE n == Len(frames)
  <1>1. /\ DOMAIN frames' = DOMAIN frames \ {n} /\ n \in DOMAIN frames /\ Len(frames') = n - 1
        /\ \A i \in DOMAIN frames' : frames'[i] = frames[i]
        /\ Top = frames[n] /\ frames' \in Seq(Frame)
    BY FrontFacts DEF Pop, AsyncTypeOK, Top
  <1>2. DOMAIN frames = 1..n /\ n \in Nat
    BY LenProperties DEF AsyncTypeOK
  <1>3. WorkersKnown'
    BY <1>1 DEF StackInv, WorkersKnown, WorkerDone, taskVars
  <1>4. ASSUME mState' = "Destroyed" PROVE frames' = <<>> /\ \A p \in Creations : WorkerDone(p)'
    <2>1. Top.call = "Destroy"
      BY <1>4 DEF StackInv, ShutDownInv
    <2>2. n = 1 /\ mPendingTasks = {} /\ DOMAIN frames' = {}
      BY <1>1, <1>2, <2>1 DEF StackInv, ShutDownInv
    <2>3. frames' = <<>>
      BY <1>1, <2>2, EmptySeq
    <2> QED
      BY <1>1, <1>2, <2>2, <2>3 DEF StackInv, WorkersKnown, WorkerDone
  <1>5. ASSUME NEW i \in DOMAIN frames'
        PROVE  /\ i < Len(frames') => frames'[i].at \in {"Callback", "Last"}
               /\ frames'[i].at = "Last" => frames'[i].call = "Destroy"
               /\ frames'[i].call = "Destroy" => i = 1 /\ mPendingTasks' = {}
    BY <1>1, <1>2 DEF StackInv, ShutDownInv, taskVars
  <1>6. ASSUME NEW i \in DOMAIN frames', frames'[1].call = "Destroy", frames'[1].at # "Wait"
        PROVE  /\ mCallbackTaskQueue' = <<>>
               /\ i > 1 => frames'[i].tasks = <<>> /\ frames'[i].at # "Callback"
               /\ frames'[i].waits = {}
    <2>1. 1 \in DOMAIN frames' /\ i \in DOMAIN frames
      BY <1>1, <1>2, <1>6
    <2>2. frames[1].call = "Destroy" /\ frames[1].at # "Wait"
      BY <1>1, <1>6, <2>1
    <2> QED
      BY <1>1, <1>6, <2>1, <2>2 DEF StackInv, ShutDownInv, taskVars
  <1> QED
    BY <1>3, <1>4, <1>5, <1>6 DEF StackInv, ShutDownInv

(* No worker is started while the device is being destroyed.               *)
LEMMA NoneStarted ==
    ASSUME CalmShutDown, AsyncTypeOK, StackInv, CanCall("CreateAsync")
    PROVE  \A i \in DOMAIN frames : frames[i].call # "Destroy"
  <1>1. SUFFICES ASSUME NEW i \in DOMAIN frames, frames[i].call = "Destroy" PROVE FALSE
    OBVIOUS
  <1>2. /\ frames # <<>> /\ i = 1 /\ Top.at \in {"Callback", "Last"} /\ Top = frames[Len(frames)]
        /\ Len(frames) \in DOMAIN frames /\ Top.call # "Destroy"
    BY <1>1, TopType DEF StackInv, ShutDownInv, CanCall, CalmShutDown
  <1>3. Len(frames) > 1 /\ Top.at = "Callback"
    BY <1>1, <1>2, LenProperties DEF AsyncTypeOK, StackInv, ShutDownInv
  <1>4. frames[1].at # "Wait"
    BY <1>1, <1>2, <1>3 DEF StackInv, ShutDownInv
  <1> QED
    BY <1>1, <1>2, <1>3, <1>4 DEF StackInv, ShutDownInv

LEMMA StackApplication ==
    ASSUME CalmShutDown, AsyncTypeOK, StackInv, Application
    PROVE  StackInv'
  <1> USE DEF taskVars
  <1>1. ASSUME NEW r \in Creations, CreateComputePipelineAsync(r) PROVE StackInv'
    <2>1. CASE UNCHANGED <<worker, mPendingTasks>>
      BY <1>1, <2>1, StackSame DEF CreateComputePipelineAsync, WorkerDone
    <2>2. CASE ~UNCHANGED <<worker, mPendingTasks>>
      <3>1. /\ mState = "Alive" /\ CanCall("CreateAsync") /\ PostTask(r)
            /\ UNCHANGED <<mState, mCallbackTaskQueue, frames>>
        BY <1>1, <2>2 DEF CreateComputePipelineAsync
      <3>2. \A i \in DOMAIN frames : frames[i].call # "Destroy"
        BY <3>1, NoneStarted
      <3>3. WorkersKnown'
        BY <3>1 DEF StackInv, WorkersKnown, WorkerDone, PostTask, AsyncTypeOK
      <3>4. \A i \in DOMAIN frames : 1 \in DOMAIN frames
        BY LenProperties DEF AsyncTypeOK
      <3>5. ShutDownInv'
        BY <3>1, <3>2, <3>4 DEF StackInv, ShutDownInv
      <3> QED
        BY <3>3, <3>5 DEF StackInv
    <2> QED
      BY <2>1, <2>2
  <1>2. ASSUME NEW r \in Creations, CreateComputePipeline(r) \/ ReleasePipeline(r) PROVE StackInv'
    BY <1>2, StackSame DEF CreateComputePipeline, ReleasePipeline, Halt, WorkerDone
  <1>3. CASE Tick
    <2>1. Push("Tick", "Code", {}, mCallbackTaskQueue) /\ CanCall("Tick") /\ "Tick" \in Calls
      BY <1>3 DEF Tick, Calls
    <2> QED
      BY <1>3, <2>1, StackPush DEF Tick, AcquireCallbackTasks
  <1>4. CASE SetCallback
    <2>1. Push("SetCallback", "Code", {}, mCallbackTaskQueue) /\ CanCall("SetCallback") /\ "SetCallback" \in Calls
      BY <1>4 DEF SetCallback, Calls
    <2> QED
      BY <1>4, <2>1, StackPush DEF SetCallback, AcquireCallbackTasks
  <1>5. CASE LoseDevice
    <2>1. Push("Lose", "Wait", mPendingTasks, <<>>) /\ CanCall("Lose") /\ "Lose" \in Calls
      BY <1>5 DEF LoseDevice, Calls
    <2> QED
      BY <1>5, <2>1, StackPush DEF LoseDevice
  <1>6. CASE Destroy
    <2>1. Push("Destroy", "Wait", mPendingTasks, <<>>) /\ CanCall("Destroy") /\ "Destroy" \in Calls
      BY <1>6 DEF Destroy, Calls
    <2> QED
      BY <1>6, <2>1, StackPush DEF Destroy
  <1> QED
    BY <1>1, <1>2, <1>3, <1>4, <1>5, <1>6 DEF Application

LEMMA StackStackStep ==
    ASSUME AsyncTypeOK, StackInv, StackStep
    PROVE  StackInv'
  <1> USE DEF taskVars
  <1>0. frames # <<>> /\ Top \in Frame /\ mCallbackTaskQueue \in Seq(Creations)
    <2>1. frames # <<>>
      BY DEF StackStep, WaitEnds, FinishTask, CloseTask, CallbackReturns, TickReturns,
         SetCallbackReturns, LoseReturns, DestroyObjects, DestroyReturns, InFrame
    <2> QED
      BY <2>1, TopType DEF AsyncTypeOK
  <1>a. mState # "Destroyed"
    BY <1>0 DEF StackInv, ShutDownInv
  <1>b. CASE Halt("RefCount")
    BY <1>b, StackSame DEF Halt, WorkerDone
  <1>1. CASE WaitEnds
    <2> DEFINE f == [Top EXCEPT !.at = "Code", !.waits = {}, !.tasks = mCallbackTaskQueue]
    <2>1. /\ f \in Frame /\ f.call = Top.call /\ f.at = "Code" /\ f.waits = {}
          /\ f.tasks = mCallbackTaskQueue
      BY <1>0 DEF Frame
    <2>2. SetTop(f) /\ WaitedFor(Top.waits) /\ mCallbackTaskQueue' = <<>>
          /\ UNCHANGED <<mState, worker, mPendingTasks>>
      BY <1>1 DEF WaitEnds, AcquireCallbackTasks
    <2> HIDE DEF f
    <2> QED
      BY <1>0, <2>1, <2>2, StackSetTop
  <1>2. CASE FinishTask /\ ~Halt("RefCount")
    <2> DEFINE f == [Top EXCEPT !.at = "Callback", !.tasks = Tail(@)]
    <2>1. Top.tasks # <<>> /\ Top.at = "Code" /\ SetTop(f)
          /\ UNCHANGED <<mState, worker, mPendingTasks, mCallbackTaskQueue>>
      BY <1>2, <1>a DEF FinishTask, InFrame
    <2>2. f \in Frame /\ f.call = Top.call /\ f.at = "Callback" /\ f.waits = Top.waits
      <3>1. Tail(Top.tasks) \in Seq(Creations)
        BY <1>0, <2>1, HeadTailProperties DEF Frame
      <3> QED
        BY <1>0, <3>1 DEF Frame
    <2> HIDE DEF f
    <2> QED
      BY <1>0, <2>1, <2>2, StackSetTop
  <1>3. CASE CloseTask
    <2> DEFINE f == [Top EXCEPT !.at = "Callback", !.tasks = Tail(@), !.held = @ \cup {Head(Top.tasks)}]
    <2>1. Top.tasks # <<>> /\ Top.at = "Code" /\ SetTop(f)
          /\ UNCHANGED <<mState, worker, mPendingTasks, mCallbackTaskQueue>>
      BY <1>3 DEF CloseTask, InFrame
    <2>2. f \in Frame /\ f.call = Top.call /\ f.at = "Callback" /\ f.waits = Top.waits
      <3>1. Tail(Top.tasks) \in Seq(Creations) /\ Head(Top.tasks) \in Creations
        BY <1>0, <2>1, HeadTailProperties DEF Frame
      <3> QED
        BY <1>0, <3>1 DEF Frame
    <2> HIDE DEF f
    <2> QED
      BY <1>0, <2>1, <2>2, StackSetTop
  <1>4. CASE CallbackReturns
    <2> DEFINE f == [Top EXCEPT !.at = "Code"]
    <2>1. Top.at = "Callback" /\ SetTop(f)
          /\ UNCHANGED <<mState, worker, mPendingTasks, mCallbackTaskQueue>>
      BY <1>4 DEF CallbackReturns, InFrame
    <2>2. f \in Frame /\ f.call = Top.call /\ f.at = "Code" /\ f.waits = Top.waits
      BY <1>0 DEF Frame
    <2> HIDE DEF f
    <2> QED
      BY <1>0, <2>1, <2>2, StackSetTop
  <1>5. CASE TickReturns \/ SetCallbackReturns \/ LoseReturns
    BY <1>0, <1>5, StackPop DEF TickReturns, SetCallbackReturns, LoseReturns, InFrame
  <1>6. CASE DestroyObjects
    <2> DEFINE f == [Top EXCEPT !.at = "Last", !.held = {}]
    <2>1. Top.at = "Code" /\ SetTop(f) /\ Top.call = "Destroy"
          /\ UNCHANGED <<mState, worker, mPendingTasks, mCallbackTaskQueue>>
      BY <1>6, <1>a DEF DestroyObjects, InFrame
    <2>2. f \in Frame /\ f.call = Top.call /\ f.at = "Last" /\ f.waits = Top.waits
      BY <1>0 DEF Frame
    <2> HIDE DEF f
    <2> QED
      BY <1>0, <2>1, <2>2, StackSetTop
  <1>7. CASE DestroyReturns
    <2>1. Top.at = "Last" /\ Top.call = "Destroy" /\ mState' = "Destroyed" /\ frames' = Pop
          /\ UNCHANGED <<worker, taskVars>>
      BY <1>0, <1>7, <1>a, TopType DEF DestroyReturns, InFrame, StackInv, ShutDownInv
    <2> QED
      BY <1>0, <2>1, StackPop
  <1> QED
    BY <1>1, <1>2, <1>3, <1>4, <1>5, <1>6, <1>7, <1>b DEF StackStep

LEMMA StackWorker ==
    ASSUME AsyncTypeOK, StackInv, NEW r \in Creations, Worker(r)
    PROVE  StackInv' /\ (halted' = halted \/ halted' = "NullPipeline")
  <1> USE DEF taskVars
  <1>1. /\ mState = "Destroyed" => WorkerDone(r)
        /\ \A p \in Creations : p # r => worker'[p] = worker[p]
    BY DEF StackInv, ShutDownInv, Worker, WorkerInitializes, WorkerFails, Halt, AddCallbackTask,
       WorkerReleases, WorkerDestroys, HandleTaskCompletion, MarkAsComplete, GoTo, AsyncTypeOK
  <1>2. CASE WorkerFails(r)
    BY <1>2, StackSame DEF WorkerFails, Halt, WorkerDone
  <1>3. CASE WorkerInitializes(r) \/ WorkerReleases(r) \/ WorkerDestroys(r) \/ MarkAsComplete(r)
    <2>1. /\ UNCHANGED <<mState, frames, taskVars, halted>> /\ worker'[r] # "None"
          /\ ~WorkerDone(r) \/ WorkerDone(r)'
      BY <1>3 DEF WorkerInitializes, WorkerReleases, WorkerDestroys, MarkAsComplete, At, GoTo,
         WorkerDone, AsyncTypeOK
    <2>2. \A p \in Creations : ~WorkerDone(p)' => ~WorkerDone(p)
      BY <1>1, <2>1 DEF WorkerDone
    <2> QED
      BY <2>1, <2>2, StackSame
  <1>4. CASE AddCallbackTask(r)
    <2>1. /\ worker[r] = "Initialized" /\ worker'[r] = "Added" /\ mState # "Destroyed"
          /\ UNCHANGED <<mState, frames, mPendingTasks, halted>>
      BY <1>1, <1>4 DEF AddCallbackTask, At, GoTo, AsyncTypeOK, WorkerDone
    <2>2. \A p \in Creations : ~WorkerDone(p)' => ~WorkerDone(p)
      BY <1>1, <2>1 DEF WorkerDone
    <2>3. frames # <<>> => ~(frames[1].call = "Destroy" /\ frames[1].at # "Wait")
      <3>1. SUFFICES ASSUME frames # <<>>, frames[1].call = "Destroy", frames[1].at # "Wait" PROVE FALSE
        OBVIOUS
      <3>2. 1 \in DOMAIN frames
        BY <3>1, TopType, LenProperties DEF AsyncTypeOK
      <3>3. mPendingTasks = {} /\ \A i \in DOMAIN frames : frames[i].waits = {}
        BY <3>1, <3>2 DEF StackInv, ShutDownInv
      <3> QED
        BY <2>1, <3>3 DEF StackInv, WorkersKnown, WorkerDone
    <2> QED
      BY <2>1, <2>2, <2>3, StackSame
  <1>5. CASE HandleTaskCompletion(r)
    <2>1. /\ worker'[r] = "Removed" /\ mPendingTasks' = mPendingTasks \ {r}
          /\ UNCHANGED <<mState, frames, mCallbackTaskQueue, halted>>
      BY <1>1, <1>5 DEF HandleTaskCompletion, At, GoTo, AsyncTypeOK, WorkerDone
    <2>2. \A p \in Creations : ~WorkerDone(p)' => p # r /\ ~WorkerDone(p)
      BY <1>1, <2>1 DEF WorkerDone
    <2> QED
      BY <2>1, <2>2, StackSame
  <1> QED
    BY <1>2, <1>3, <1>4, <1>5 DEF Worker

-----------------------------------------------------------------------------
(* The cache holds the living pipelines.                                   *)

PipesInv == CacheIsLive /\ PipelineInv /\ DescriptorsAgree

LEMMA PipesSame ==
    ASSUME PipesInv, UNCHANGED <<pipelineVars, worker>>, mState = "Destroyed" <=> mState' = "Destroyed",
           ObjectsGone <=> ObjectsGone', \A p \in Creations : Unanswered(p)' => Unanswered(p)
    PROVE  PipesInv'
  <1>1. PipelineInv'
    BY DEF PipesInv, PipelineInv, pipelineVars
  <1> QED
    BY <1>1 DEF PipesInv, CacheIsLive, DescriptorsAgree, pipelineVars

(* Whether DestroyObjects has run does not change with calls that are made *)
(* or go on.                                                               *)
LEMMA GoneSame ==
    ASSUME AsyncTypeOK, mState = "Destroyed" <=> mState' = "Destroyed",
           \/ frames' = frames
           \/ /\ frames # <<>> /\ Top.at # "Last"
              /\ \/ frames' = Pop
                 \/ \E f \in Frame : SetTop(f) /\ f.at # "Last"
           \/ \E f \in Frame : frames' = Append(frames, f) /\ f.at # "Last"
    PROVE  ObjectsGone <=> ObjectsGone'
  <1>0. frames \in Seq(Frame)
    BY DEF AsyncTypeOK
  <1>1. CASE frames' = frames
    BY <1>1 DEF ObjectsGone
  <1>2. CASE frames # <<>> /\ Top.at # "Last" /\ frames' = Pop
    <2>1. /\ DOMAIN frames' = DOMAIN frames \ {Len(frames)} /\ Len(frames) \in DOMAIN frames
          /\ \A i \in DOMAIN frames' : frames'[i] = frames[i]
      BY <1>0, <1>2, FrontFacts DEF Pop
    <2> QED
      BY <1>2, <2>1 DEF ObjectsGone, Top
  <1>3. ASSUME frames # <<>>, Top.at # "Last", NEW f \in Frame, SetTop(f), f.at # "Last"
        PROVE  ObjectsGone <=> ObjectsGone'
    <2>1. /\ DOMAIN frames' = DOMAIN frames /\ Len(frames) \in DOMAIN frames
          /\ frames'[Len(frames)] = f /\ \A i \in DOMAIN frames : i # Len(frames) => frames'[i] = frames[i]
      BY <1>0, <1>3, ExceptLast DEF SetTop
    <2> QED
      BY <1>3, <2>1 DEF ObjectsGone, Top
  <1>4. ASSUME NEW f \in Frame, frames' = Append(frames, f), f.at # "Last"
        PROVE  ObjectsGone <=> ObjectsGone'
    <2>1. /\ DOMAIN frames' = DOMAIN frames \cup {Len(frames) + 1}
          /\ frames'[Len(frames) + 1] = f /\ \A i \in DOMAIN frames : frames'[i] = frames[i]
      BY <1>0, <1>4, AppendLast
    <2> QED
      BY <1>4, <2>1 DEF ObjectsGone
  <1> QED
    BY <1>1, <1>2, <1>3, <1>4

(* The process stops.                                                      *)
LEMMA PipesHalt ==
    ASSUME AsyncTypeOK, PipesInv, NEW why, Halt(why)
    PROVE  PipesInv'
  <1>1. ObjectsGone <=> ObjectsGone'
    BY GoneSame DEF Halt
  <1> QED
    BY <1>1, PipesSame DEF Halt, Unanswered

(* What the cache has is a pipeline with references, or one its worker is  *)
(* about to take out.                                                      *)
LEMMA Cached ==
    ASSUME AsyncTypeOK, PipesInv, NEW d \in Descriptors, cache[d] # 0
    PROVE  /\ cache[d] \in Creations /\ refs[cache[d]] \in Nat
           /\ refs[cache[d]] > 0 \/ worker[cache[d]] = "Deleting"
           /\ descriptor[cache[d]] = d /\ mIsCachedReference[cache[d]] /\ tracked[cache[d]]
           /\ initialized[cache[d]]
  <1>1. cache[d] \in Creations
    BY AsyncBounds DEF AsyncTypeOK, Creations
  <1> QED
    BY <1>1 DEF AsyncTypeOK, PipesInv, CacheIsLive, DescriptorsAgree

(* One more reference to a pipeline that has some.                         *)
LEMMA PipesReference ==
    ASSUME AsyncTypeOK, PipesInv, NEW c \in Creations, refs[c] > 0,
           refs' = [refs EXCEPT ![c] = @ + 1], appRefs' = [appRefs EXCEPT ![c] = @ + 1],
           UNCHANGED <<mState, frames, descriptor, initialized, tracked, mIsCachedReference, cache,
                       worker>>,
           \A p \in Creations : Unanswered(p)' => Unanswered(p)
    PROVE  PipesInv'
  <1>0. ObjectsGone <=> ObjectsGone'
    BY GoneSame
  <1>1. /\ \A p \in Creations : /\ refs'[p] > 0 <=> refs[p] > 0
                                /\ refs[p] = 0 => refs'[p] = 0
    BY DEF AsyncTypeOK
  <1>2. PipelineInv'
    BY <1>0, <1>1 DEF PipesInv, PipelineInv
  <1>3. CacheIsLive'
    <2>1. ASSUME NEW d \in Descriptors, cache[d] # 0
          PROVE  refs'[cache[d]] > 0 \/ worker[cache[d]] = "Deleting"
      BY <1>1, <2>1, Cached
    <2> QED
      BY <1>0, <1>1, <2>1 DEF PipesInv, CacheIsLive
  <1> QED
    BY <1>2, <1>3 DEF PipesInv, DescriptorsAgree

(* References are given back, and the pipelines that have none any more    *)
(* leave the cache.                                                        *)
LEMMA PipesRelease ==
    ASSUME AsyncTypeOK, AsyncTypeOK', PipesInv, NEW newRefs, Release(newRefs),
           \A p \in Creations : refs'[p] > 0 => refs[p] > 0,
           UNCHANGED <<mState, descriptor, initialized, mIsCachedReference, worker>>,
           ObjectsGone <=> ObjectsGone', \A p \in Creations : Unanswered(p)' => Unanswered(p)
    PROVE  PipesInv'
  <1> DEFINE dead == {p \in Creations : refs[p] > 0 /\ newRefs[p] = 0}
  <1>1. /\ refs' = newRefs /\ cache' = Uncached(dead)
        /\ tracked' = [p \in Creations |-> tracked[p] /\ p \notin dead]
    BY DEF Release
  <1>2. \A p \in Creations : refs[p] \in Nat /\ refs'[p] \in Nat
    BY DEF AsyncTypeOK
  <1>3. \A p \in Creations : /\ p \in dead <=> refs[p] > 0 /\ ~(refs'[p] > 0)
                             /\ tracked'[p] <=> tracked[p] /\ p \notin dead
    <2>1. \A p \in Creations : p \in dead <=> refs[p] > 0 /\ ~(refs'[p] > 0)
      BY <1>1, <1>2
    <2>2. \A p \in Creations : tracked'[p] <=> tracked[p] /\ p \notin dead
      BY <1>1, Zenon
    <2> QED
      BY <2>1, <2>2
  <1>4. \A d \in Descriptors : cache'[d] = IF cache[d] # 0 /\ cache[d] \in dead THEN 0 ELSE cache[d]
    <2>1. \A d \in Descriptors : cache[d] # 0 => /\ cache[d] \in Creations
                                                /\ mIsCachedReference[cache[d]] /\ tracked[cache[d]]
      BY Cached
    <2>2. 0 \notin Creations
      BY AsyncBounds DEF Creations
    <2> QED
      BY <1>1, <2>1, <2>2 DEF Uncached
  <1> HIDE DEF dead
  <1>5. PipelineInv'
    <2> SUFFICES ASSUME NEW p \in Creations
                 PROVE  /\ refs'[p] > 0 /\ ~ObjectsGone' => tracked'[p]
                        /\ ObjectsGone' /\ tracked'[p] => worker'[p] = "None"
                        /\ worker'[p] \notin {"None", "Start"} => initialized'[p]
                        /\ Unanswered(p)' => ~mIsCachedReference'[p]
                        /\ worker'[p] = "Deleting" => refs'[p] = 0
      BY DEF PipelineInv
    <2> QED
      BY <1>2, <1>3 DEF PipesInv, PipelineInv
  <1>6. CacheIsLive'
    <2>1. ASSUME NEW d \in Descriptors, cache'[d] # 0
          PROVE  /\ refs'[cache'[d]] > 0 \/ worker'[cache'[d]] = "Deleting"
                 /\ initialized'[cache'[d]] /\ mIsCachedReference'[cache'[d]] /\ tracked'[cache'[d]]
      <3>1. cache'[d] = cache[d] /\ cache[d] # 0 /\ cache[d] \notin dead
        BY <1>4, <2>1
      <3> QED
        <4>1. cache[d] \in Creations /\ (refs[cache[d]] > 0 \/ worker[cache[d]] = "Deleting")
              /\ initialized[cache[d]] /\ mIsCachedReference[cache[d]] /\ tracked[cache[d]]
          BY <3>1, Cached
        <4> QED
          BY <1>3, <3>1, <4>1
    <2>2. ASSUME NEW p \in Creations, refs'[p] > 0, mIsCachedReference'[p], mState' # "Destroyed",
                 ObjectsGone' => tracked'[p]
          PROVE  cache'[descriptor'[p]] = p
      <3>1. cache[descriptor[p]] = p /\ p \notin dead /\ descriptor[p] \in Descriptors
        BY <1>3, <2>2 DEF PipesInv, CacheIsLive, AsyncTypeOK
      <3> QED
        BY <1>4, <3>1
    <2> QED
      BY <2>1, <2>2 DEF CacheIsLive
  <1>7. DescriptorsAgree'
    BY <1>4 DEF PipesInv, DescriptorsAgree
  <1> QED
    BY <1>5, <1>6, <1>7 DEF PipesInv

(* A pipeline goes into the cache, which has none for its descriptor.      *)
LEMMA PipesCache ==
    ASSUME AsyncTypeOK, AsyncTypeOK', PipesInv, NEW h \in Creations, cache[descriptor[h]] = 0,
           mState # "Destroyed", UNCHANGED <<mState, descriptor, worker>>,
           ObjectsGone <=> ObjectsGone', ObjectsGone => worker[h] = "None",
           cache' = [cache EXCEPT ![descriptor[h]] = h],
           mIsCachedReference' = [mIsCachedReference EXCEPT ![h] = TRUE],
           \A p \in Creations : /\ p # h => /\ refs'[p] = refs[p] /\ appRefs'[p] = appRefs[p]
                                            /\ tracked'[p] = tracked[p]
                                            /\ initialized'[p] = initialized[p]
                                /\ Unanswered(p)' => Unanswered(p),
           refs'[h] > 0, appRefs'[h] > 0, tracked'[h], initialized'[h], ~Unanswered(h)',
           worker[h] # "Deleting"
    PROVE  PipesInv'
  <1>1. /\ descriptor[h] \in Descriptors /\ h # 0
        /\ mIsCachedReference'[h]
        /\ \A p \in Creations : p # h => mIsCachedReference'[p] = mIsCachedReference[p]
        /\ cache'[descriptor[h]] = h
        /\ \A d \in Descriptors : d # descriptor[h] => cache'[d] = cache[d]
    BY AsyncBounds DEF AsyncTypeOK, Creations
  <1>2. PipelineInv'
    <2> SUFFICES ASSUME NEW p \in Creations
                 PROVE  /\ refs'[p] > 0 /\ ~ObjectsGone' => tracked'[p]
                        /\ ObjectsGone' /\ tracked'[p] => worker'[p] = "None"
                        /\ worker'[p] \notin {"None", "Start"} => initialized'[p]
                        /\ Unanswered(p)' => ~mIsCachedReference'[p]
                        /\ worker'[p] = "Deleting" => refs'[p] = 0
      BY DEF PipelineInv
    <2>1. CASE p = h
      BY <1>1, <2>1
    <2>2. CASE p # h
      BY <1>1, <2>2 DEF PipesInv, PipelineInv
    <2> QED
      BY <2>1, <2>2
  <1>3. CacheIsLive'
    <2>1. ASSUME NEW d \in Descriptors, cache'[d] # 0
          PROVE  /\ refs'[cache'[d]] > 0 \/ worker'[cache'[d]] = "Deleting"
                 /\ initialized'[cache'[d]] /\ mIsCachedReference'[cache'[d]] /\ tracked'[cache'[d]]
      <3>1. CASE d = descriptor[h]
        BY <1>1, <3>1
      <3>2. CASE d # descriptor[h]
        <4>1. cache'[d] = cache[d]
          BY <1>1, <3>2
        <4>2. cache[d] \in Creations /\ cache[d] # h
          BY <2>1, <3>2, <4>1, Cached
        <4> QED
          BY <1>1, <2>1, <4>1, <4>2, Cached
      <3> QED
        BY <3>1, <3>2
    <2>2. ASSUME NEW p \in Creations, refs'[p] > 0, mIsCachedReference'[p], mState' # "Destroyed",
                 ObjectsGone' => tracked'[p]
          PROVE  cache'[descriptor'[p]] = p
      <3>1. CASE p = h
        BY <1>1, <3>1
      <3>2. CASE p # h
        <4>1. cache[descriptor[p]] = p /\ descriptor[p] \in Descriptors /\ p # 0
          <5>1. refs[p] > 0 /\ mIsCachedReference[p] /\ mState # "Destroyed" /\ (ObjectsGone => tracked[p])
            BY <1>1, <2>2, <3>2
          <5> QED
            BY <5>1, AsyncBounds DEF PipesInv, CacheIsLive, AsyncTypeOK, Creations
        <4> QED
          BY <1>1, <4>1
      <3> QED
        BY <3>1, <3>2
    <2> QED
      BY <2>1, <2>2 DEF CacheIsLive
  <1>4. DescriptorsAgree'
    BY <1>1 DEF PipesInv, DescriptorsAgree
  <1> QED
    BY <1>2, <1>3, <1>4 DEF PipesInv

(* A pipeline found in the cache is given, or stops the process.           *)
LEMMA PipesGiveCached ==
    ASSUME AsyncTypeOK, PipesInv, halted = "None", NEW r \in Creations, NEW d \in Descriptors,
           cache[d] # 0, GiveCached(r, cache[d]),
           UNCHANGED <<mState, frames, descriptor, initialized, tracked, mIsCachedReference, cache,
                       worker>>
    PROVE  PipesInv' /\ HaltsAreKnown'
  <1> DEFINE c == cache[d]
  <1>0. c \in Creations /\ refs[c] \in Nat /\ (refs[c] > 0 \/ worker[c] = "Deleting")
    BY Cached
  <1>1. ObjectsGone <=> ObjectsGone'
    BY GoneSame
  <1>2. CASE refs[c] = 0
    <2>1. halted' = "RefCount" /\ UNCHANGED <<refs, appRefs, answer>> /\ worker'[c] = "Deleting"
      BY <1>0, <1>2 DEF GiveCached
    <2>2. \A p \in Creations : Unanswered(p)' => Unanswered(p)
      BY <2>1 DEF Unanswered
    <2> QED
      BY <1>0, <1>1, <2>1, <2>2, PipesSame DEF HaltsAreKnown, pipelineVars
  <1>3. CASE refs[c] # 0
    <2>1. /\ refs' = [refs EXCEPT ![c] = @ + 1] /\ appRefs' = [appRefs EXCEPT ![c] = @ + 1]
          /\ answer' = [answer EXCEPT ![r] = "Success"] /\ halted' = halted /\ refs[c] > 0
      BY <1>0, <1>3 DEF GiveCached
    <2>2. \A p \in Creations : Unanswered(p)' => Unanswered(p)
      BY <2>1 DEF Unanswered, AsyncTypeOK
    <2> HIDE DEF c
    <2> QED
      BY <1>0, <2>1, <2>2, PipesReference DEF HaltsAreKnown
  <1> QED
    BY <1>2, <1>3

LEMMA PipesCreateAsync ==
    ASSUME CalmShutDown, TaskInv, TaskInv', PipesInv, StackInv, NEW r \in Creations,
           CreateComputePipelineAsync(r)
    PROVE  PipesInv' /\ HaltsAreKnown'
  <1> DEFINE c == cache[descriptor[r]]
  <1>0. /\ AsyncTypeOK /\ AsyncTypeOK' /\ answer[r] = "None" /\ descriptor[r] \in Descriptors
        /\ worker[r] = "None" /\ halted = "None"
        /\ UNCHANGED <<mState, frames, descriptor, initialized, mIsCachedReference, cache>>
    BY DEF TaskInv, CreateComputePipelineAsync, NextCreation, AsyncTypeOK, TasksWait, CanCall
  <1>a. ObjectsGone <=> ObjectsGone'
    BY <1>0, GoneSame
  <1>1. CASE mState # "Alive"
    <2>1. /\ UNCHANGED <<refs, appRefs, tracked, worker, halted>>
          /\ answer' = [answer EXCEPT ![r] = "Error"]
      BY <1>1 DEF CreateComputePipelineAsync
    <2>2. \A p \in Creations : Unanswered(p)' => Unanswered(p)
      BY <1>0, <2>1 DEF Unanswered, AsyncTypeOK
    <2> QED
      BY <1>0, <1>a, <2>1, <2>2, PipesSame DEF pipelineVars, HaltsAreKnown
  <1>2. CASE mState = "Alive" /\ c # 0
    <2>1. GiveCached(r, c) /\ UNCHANGED <<tracked, worker>>
      BY <1>2 DEF CreateComputePipelineAsync
    <2> QED
      BY <1>0, <1>2, <2>1, PipesGiveCached
  <1>3. CASE mState = "Alive" /\ c = 0
    <2>1. /\ answer' = [answer EXCEPT ![r] = "Waiting"] /\ refs' = [refs EXCEPT ![r] = 1]
          /\ tracked' = [tracked EXCEPT ![r] = TRUE] /\ worker' = [worker EXCEPT ![r] = "Start"]
          /\ UNCHANGED <<appRefs, halted>>
      BY <1>3 DEF CreateComputePipelineAsync, PostTask
    <2>2. /\ answer'[r] = "Waiting" /\ refs'[r] = 1 /\ tracked'[r] /\ worker'[r] = "Start"
          /\ \A p \in Creations : p # r =>
                /\ answer'[p] = answer[p] /\ refs'[p] = refs[p] /\ tracked'[p] = tracked[p]
                /\ worker'[p] = worker[p]
      BY <1>0, <2>1 DEF AsyncTypeOK
    <2>3. ~mIsCachedReference[r] /\ Unanswered(r)
      BY <1>0 DEF PipesInv, PipelineInv, Unanswered
    <2>a. ~ObjectsGone
      <3>1. CanCall("CreateAsync")
        BY DEF CreateComputePipelineAsync
      <3> QED
        BY <1>0, <1>3, <3>1, NoneStarted DEF ObjectsGone, StackInv, ShutDownInv
    <2>4. PipelineInv'
      <3> SUFFICES ASSUME NEW p \in Creations
                   PROVE  /\ refs'[p] > 0 /\ ~ObjectsGone' => tracked'[p]
                          /\ ObjectsGone' /\ tracked'[p] => worker'[p] = "None"
                          /\ worker'[p] \notin {"None", "Start"} => initialized'[p]
                          /\ Unanswered(p)' => ~mIsCachedReference'[p]
                          /\ worker'[p] = "Deleting" => refs'[p] = 0
        BY DEF PipelineInv
      <3>1. CASE p = r
        BY <1>0, <1>a, <2>2, <2>3, <2>a, <3>1
      <3>2. CASE p # r
        BY <1>0, <1>a, <2>1, <2>2, <3>2 DEF PipesInv, PipelineInv, Unanswered
      <3> QED
        BY <3>1, <3>2
    <2>5. CacheIsLive'
      <3>1. ASSUME NEW d \in Descriptors, cache[d] # 0
            PROVE  /\ refs'[cache[d]] > 0 \/ worker'[cache[d]] = "Deleting"
                   /\ tracked'[cache[d]]
        <4>1. cache[d] \in Creations /\ cache[d] # r
          BY <2>3, <3>1, Cached, <1>0
        <4> QED
          BY <1>0, <2>2, <3>1, <4>1, Cached
      <3> QED
        BY <1>0, <1>a, <2>2, <2>3, <2>a, <3>1 DEF PipesInv, CacheIsLive, PipelineInv
    <2> QED
      BY <1>0, <2>1, <2>4, <2>5 DEF PipesInv, DescriptorsAgree, HaltsAreKnown
  <1> QED
    BY <1>1, <1>2, <1>3

LEMMA PipesCreate ==
    ASSUME TaskInv, TaskInv', PipesInv, NEW r \in Creations, CreateComputePipeline(r)
    PROVE  PipesInv' /\ HaltsAreKnown'
  <1> DEFINE c == cache[descriptor[r]]
  <1>0. /\ AsyncTypeOK /\ AsyncTypeOK' /\ answer[r] = "None" /\ descriptor[r] \in Descriptors
        /\ worker[r] = "None" /\ halted = "None" /\ UNCHANGED <<mState, frames, worker>>
    BY DEF TaskInv, CreateComputePipeline, NextCreation, AsyncTypeOK, TasksWait, CanCall
  <1>a. ObjectsGone <=> ObjectsGone'
    BY <1>0, GoneSame
  <1>1. ASSUME answer' = [answer EXCEPT ![r] = "Error"] \/ answer' = [answer EXCEPT ![r] = "Success"]
        PROVE  (\A p \in Creations : Unanswered(p)' => Unanswered(p)) /\ ~Unanswered(r)'
    BY <1>0, <1>1 DEF Unanswered, AsyncTypeOK
  <1>2. CASE answer' = [answer EXCEPT ![r] = "Error"] /\ UNCHANGED <<pipelineVars, halted>>
    BY <1>0, <1>1, <1>2, <1>a, PipesSame DEF HaltsAreKnown
  <1>3. CASE /\ mState = "Alive" /\ c = 0 /\ answer' = [answer EXCEPT ![r] = "Success"]
             /\ initialized' = [initialized EXCEPT ![r] = TRUE]
             /\ refs' = [refs EXCEPT ![r] = 1] /\ appRefs' = [appRefs EXCEPT ![r] = 1]
             /\ tracked' = [tracked EXCEPT ![r] = TRUE]
             /\ mIsCachedReference' = [mIsCachedReference EXCEPT ![r] = TRUE]
             /\ cache' = [cache EXCEPT ![descriptor[r]] = r]
             /\ UNCHANGED <<descriptor, halted>>
    <2>1. /\ refs'[r] > 0 /\ appRefs'[r] > 0 /\ tracked'[r] /\ initialized'[r]
          /\ \A p \in Creations : p # r => /\ refs'[p] = refs[p] /\ appRefs'[p] = appRefs[p]
                                           /\ tracked'[p] = tracked[p]
                                           /\ initialized'[p] = initialized[p]
      BY <1>0, <1>3 DEF AsyncTypeOK
    <2> QED
      BY <1>0, <1>1, <1>3, <1>a, <2>1, PipesCache DEF HaltsAreKnown
  <1>4. CASE /\ mState = "Alive" /\ c # 0 /\ GiveCached(r, c)
             /\ UNCHANGED <<descriptor, initialized, tracked, mIsCachedReference, cache>>
    <2>1. UNCHANGED <<mState, frames, descriptor, initialized, tracked, mIsCachedReference, cache, worker>>
      BY <1>0, <1>4
    <2> QED
      BY <1>0, <1>4, <2>1, PipesGiveCached
  <1> QED
    BY <1>2, <1>3, <1>4 DEF CreateComputePipeline

(* The application's references are some of those counted.                 *)
LEMMA PipesReleasePipeline ==
    ASSUME TaskInv, TaskInv', PipesInv, NEW r \in Creations, ReleasePipeline(r)
    PROVE  PipesInv' /\ HaltsAreKnown'
  <1>0. AsyncTypeOK /\ AsyncTypeOK' /\ appRefs[r] > 0 /\ RefsAreHeld /\ halted = "None"
    BY DEF TaskInv, ReleasePipeline, CanCall
  <1>a. CASE NeedsCaches(r)
    <2>1. Halt("NullCaches") /\ tracked[r] /\ worker[r] = "None"
      BY <1>a DEF ReleasePipeline, NeedsCaches, ObjectsGone, PipesInv, PipelineInv
    <2>2. HaltsAreKnown'
      BY <2>1 DEF Halt, HaltsAreKnown, pipelineVars
    <2> QED
      BY <1>0, <2>1, <2>2, PipesHalt
  <1> SUFFICES ASSUME ~NeedsCaches(r) PROVE PipesInv' /\ HaltsAreKnown'
    BY <1>a
  <1>1. /\ appRefs' = [appRefs EXCEPT ![r] = @ - 1] /\ Release([refs EXCEPT ![r] = @ - 1])
        /\ UNCHANGED <<mState, frames, descriptor, initialized, mIsCachedReference, answer, worker,
                       halted>>
    BY DEF ReleasePipeline
  <1>2. refs[r] > 0 /\ refs' = [refs EXCEPT ![r] = @ - 1]
    <2>1. refs[r] = appRefs[r] + WorkerRef(r) + TaskRef(r)
      BY <1>0 DEF RefsAreHeld
    <2> QED
      BY <1>0, <1>1, <2>1, RefCounts DEF Release
  <1>3. \A p \in Creations : refs'[p] > 0 => refs[p] > 0
    BY <1>0, <1>2 DEF AsyncTypeOK
  <1>4. ObjectsGone <=> ObjectsGone'
    BY <1>0, <1>1, GoneSame
  <1>5. \A p \in Creations : Unanswered(p)' => Unanswered(p)
    BY <1>1 DEF Unanswered
  <1> QED
    BY <1>0, <1>1, <1>3, <1>4, <1>5, PipesRelease DEF HaltsAreKnown

LEMMA PipesFinish ==
    ASSUME TaskInv, TaskInv', PipesInv, StackInv, FinishTask
    PROVE  PipesInv' /\ HaltsAreKnown'
  <1> DEFINE f == [Top EXCEPT !.at = "Callback", !.tasks = Tail(@)]
  <1>a. /\ AsyncTypeOK /\ AsyncTypeOK' /\ TasksApart /\ halted = "None" /\ frames # <<>>
        /\ Top.tasks # <<>> /\ RefsAreHeld /\ frames \in Seq(Frame) /\ Top.at = "Code"
        /\ mState # "Destroyed"
    BY DEF TaskInv, AsyncTypeOK, FinishTask, InFrame, StackInv, ShutDownInv
  <1>b. CASE StaleInCache(Head(Top.tasks))
    <2>1. PICK h \in Creations : h = Head(Top.tasks)
      BY <1>a, HeadTask
    <2>2. descriptor[h] \in Descriptors /\ cache[descriptor[h]] # 0 /\ refs[cache[descriptor[h]]] = 0
      BY <1>a, <1>b, <2>1 DEF StaleInCache, AsyncTypeOK
    <2>3. cache[descriptor[h]] \in Creations /\ worker[cache[descriptor[h]]] = "Deleting"
      BY <1>a, <2>2, Cached
    <2>4. Halt("RefCount")
      BY <1>a, <1>b DEF FinishTask
    <2>5. HaltsAreKnown'
      BY <2>3, <2>4 DEF HaltsAreKnown, Halt
    <2> QED
      BY <1>a, <2>4, <2>5, PipesHalt
  <1> SUFFICES ASSUME ~StaleInCache(Head(Top.tasks)) PROVE PipesInv' /\ HaltsAreKnown'
    BY <1>b
  <1>0. /\ AsyncTypeOK /\ AsyncTypeOK' /\ TasksApart /\ halted = "None" /\ frames # <<>>
        /\ Top.tasks # <<>> /\ RefsAreHeld /\ frames \in Seq(Frame) /\ SetTop(f)
        /\ mState # "Destroyed" /\ Finish(Head(Top.tasks))
        /\ UNCHANGED <<mState, descriptor, initialized, worker, halted>>
    BY <1>a DEF FinishTask
  <1>c. ~ObjectsGone /\ ~ObjectsGone'
    <2>1. \A i \in DOMAIN frames : frames[i].at # "Last"
      <3>1. SUFFICES ASSUME NEW i \in DOMAIN frames, frames[i].at = "Last" PROVE FALSE
        OBVIOUS
      <3>2. i = 1 /\ frames[1].call = "Destroy" /\ frames[1].at # "Wait" /\ Len(frames) \in DOMAIN frames
            /\ Top = frames[Len(frames)]
        BY <1>a, <3>1, TopType DEF StackInv, ShutDownInv
      <3>3. Len(frames) > 1
        BY <1>a, <3>1, <3>2, LenProperties
      <3> QED
        BY <1>a, <3>2, <3>3 DEF StackInv, ShutDownInv
    <2>2. f \in Frame /\ f.at # "Last"
      <3>1. Top \in Frame /\ Tail(Top.tasks) \in Seq(Creations)
        BY <1>a, TopType, HeadTailProperties
      <3> QED
        BY <3>1 DEF Frame
    <2>3. ObjectsGone <=> ObjectsGone'
      BY <1>0, <1>a, <2>2, GoneSame
    <2> QED
      BY <1>0, <2>1, <2>3 DEF ObjectsGone
  <1>1. PICK h \in Creations : /\ h = Head(Top.tasks)
                               /\ TaskWaits(h) /\ ~TaskKept(h) /\ answer[h] = "Waiting" /\ ~Unposted(h)
    BY <1>0, HeadTask
  <1> DEFINE c == cache[descriptor[h]]
  <1>2. Finish(h)
    BY <1>0, <1>1
  <1>3. refs[h] > 0 /\ appRefs[h] \in Nat /\ ~mIsCachedReference[h] /\ descriptor[h] \in Descriptors
        /\ worker[h] # "Deleting" /\ initialized[h] /\ tracked[h]
    <2>1. refs[h] = appRefs[h] + WorkerRef(h) + TaskRef(h) /\ TaskRef(h) = 1
      BY <1>0, <1>1 DEF RefsAreHeld, TaskRef
    <2>2. refs[h] > 0 /\ appRefs[h] \in Nat /\ descriptor[h] \in Descriptors
      <3>1. appRefs[h] \in Nat /\ WorkerRef(h) \in {0, 1} /\ descriptor[h] \in Descriptors
        BY <1>0, RefCounts DEF AsyncTypeOK
      <3> QED
        BY <2>1, <3>1
    <2> QED
      BY <1>0, <1>1, <1>c, <2>2 DEF PipesInv, PipelineInv, Unanswered, Unposted
  <1>4. ASSUME answer' = [answer EXCEPT ![h] = "Success"]
        PROVE  (\A p \in Creations : Unanswered(p)' => Unanswered(p)) /\ ~Unanswered(h)'
    BY <1>0, <1>4 DEF Unanswered, AsyncTypeOK
  <1>5. CASE c = 0
    <2>1. /\ cache' = [cache EXCEPT ![descriptor[h]] = h]
          /\ mIsCachedReference' = [mIsCachedReference EXCEPT ![h] = TRUE]
          /\ appRefs' = [appRefs EXCEPT ![h] = @ + 1] /\ answer' = [answer EXCEPT ![h] = "Success"]
          /\ UNCHANGED <<refs, tracked>>
      BY <1>1, <1>2, <1>5 DEF Finish, Answer
    <2>2. /\ appRefs'[h] > 0 /\ refs'[h] > 0 /\ tracked'[h] /\ initialized'[h]
          /\ \A p \in Creations : p # h => /\ refs'[p] = refs[p] /\ appRefs'[p] = appRefs[p]
                                           /\ tracked'[p] = tracked[p]
                                           /\ initialized'[p] = initialized[p]
      BY <1>0, <1>3, <2>1 DEF AsyncTypeOK
    <2> QED
      BY <1>0, <1>3, <1>4, <1>5, <1>c, <2>1, <2>2, PipesCache DEF HaltsAreKnown
  <1>6. CASE c # 0
    <2>1. c \in Creations /\ refs[c] > 0 /\ mIsCachedReference[c] /\ c # h
      BY <1>0, <1>1, <1>3, <1>6, Cached DEF StaleInCache
    <2>2. /\ appRefs' = [appRefs EXCEPT ![c] = @ + 1] /\ answer' = [answer EXCEPT ![h] = "Success"]
          /\ Release([[refs EXCEPT ![c] = @ + 1] EXCEPT ![h] = @ - 1])
          /\ UNCHANGED mIsCachedReference
      BY <1>1, <1>2, <1>6, <2>1 DEF Finish, Answer
    <2>3. \A p \in Creations : refs'[p] > 0 => refs[p] > 0
      BY <1>0, <1>3, <2>1, <2>2 DEF Release, AsyncTypeOK
    <2> HIDE DEF c
    <2> QED
      BY <1>0, <1>4, <1>c, <2>2, <2>3, PipesRelease DEF HaltsAreKnown
  <1> QED
    BY <1>5, <1>6

LEMMA PipesStackStep ==
    ASSUME TaskInv, TaskInv', PipesInv, StackInv, StackStep
    PROVE  PipesInv' /\ HaltsAreKnown'
  <1> USE DEF taskVars
  <1>0. /\ AsyncTypeOK /\ AsyncTypeOK' /\ mState # "Destroyed" /\ halted = "None" /\ frames # <<>>
        /\ Top \in Frame /\ frames \in Seq(Frame)
    <2>1. AsyncTypeOK /\ AsyncTypeOK' /\ mState # "Destroyed" /\ halted = "None" /\ frames # <<>>
      BY DEF TaskInv, StackStep, WaitEnds, FinishTask, CloseTask, CallbackReturns, TickReturns,
         SetCallbackReturns, LoseReturns, DestroyObjects, DestroyReturns, InFrame, StackInv, ShutDownInv
    <2> QED
      BY <2>1, TopType DEF AsyncTypeOK
  <1>1. ASSUME Top.at # "Last", mState' = mState,
               frames' = Pop \/ \E f \in Frame : SetTop(f) /\ f.at # "Last"
        PROVE  ObjectsGone <=> ObjectsGone'
    BY <1>0, <1>1, GoneSame
  <1>2. CASE WaitEnds \/ CallbackReturns \/ TickReturns \/ SetCallbackReturns
    <2>1. UNCHANGED <<mState, pipelineVars, answer, worker, halted>> /\ Top.at # "Last"
      BY <1>0, <1>2 DEF WaitEnds, CallbackReturns, TickReturns, SetCallbackReturns, InFrame
    <2>2. \A p \in Creations : Unanswered(p)' => Unanswered(p)
      BY <2>1 DEF Unanswered
    <2>3. frames' = Pop \/ \E f \in Frame : SetTop(f) /\ f.at # "Last"
      <3>1. CASE WaitEnds
        <4>1. [Top EXCEPT !.at = "Code", !.waits = {}, !.tasks = mCallbackTaskQueue] \in Frame
          BY <1>0 DEF Frame, AsyncTypeOK
        <4> QED
          BY <1>0, <3>1, <4>1 DEF WaitEnds, Frame
      <3>2. CASE CallbackReturns
        <4>1. [Top EXCEPT !.at = "Code"] \in Frame
          BY <1>0 DEF Frame
        <4> QED
          BY <1>0, <3>2, <4>1 DEF CallbackReturns, Frame
      <3> QED
        BY <1>2, <3>1, <3>2 DEF TickReturns, SetCallbackReturns
    <2> QED
      BY <1>0, <1>1, <2>1, <2>2, <2>3, PipesSame DEF HaltsAreKnown
  <1>3. CASE FinishTask
    BY <1>3, PipesFinish
  <1>4. CASE CloseTask
    <2> DEFINE f == [Top EXCEPT !.at = "Callback", !.tasks = Tail(@), !.held = @ \cup {Head(Top.tasks)}]
    <2>1. UNCHANGED <<mState, pipelineVars, worker, halted>> /\ Top.at # "Last" /\ SetTop(f)
          /\ Top.tasks # <<>>
      BY <1>4 DEF CloseTask, InFrame
    <2>2. \A p \in Creations : Unanswered(p)' => Unanswered(p)
      BY <1>0, <1>4 DEF CloseTask, Answer, Unanswered, AsyncTypeOK
    <2>3. f \in Frame /\ f.at # "Last"
      <3>1. Tail(Top.tasks) \in Seq(Creations) /\ Head(Top.tasks) \in Creations
        BY <1>0, <2>1, HeadTailProperties DEF Frame
      <3> QED
        BY <1>0, <3>1 DEF Frame
    <2> HIDE DEF f
    <2> QED
      BY <1>0, <1>1, <2>1, <2>2, <2>3, PipesSame DEF HaltsAreKnown
  <1>5. ASSUME refs' = DropHeld
        PROVE  \A p \in Creations : refs'[p] \in Nat /\ (refs'[p] > 0 => refs[p] > 0)
    <2>1. \A p \in Creations : refs'[p] \in {refs[p], refs[p] - 1} /\ refs[p] \in Nat /\ refs'[p] \in Nat
      BY <1>0, <1>5 DEF DropHeld, AsyncTypeOK
    <2> QED
      BY <2>1
  <1>6. CASE LoseReturns
    <2>1. /\ Release(DropHeld) /\ refs' = DropHeld /\ frames' = Pop /\ Top.at # "Last"
          /\ UNCHANGED <<mState, descriptor, initialized, mIsCachedReference, answer, worker, halted>>
      BY <1>6 DEF LoseReturns, Release, InFrame
    <2>2. \A p \in Creations : Unanswered(p)' => Unanswered(p)
      BY <2>1 DEF Unanswered
    <2> QED
      BY <1>0, <1>1, <1>5, <2>1, <2>2, PipesRelease DEF HaltsAreKnown
  <1>7. CASE DestroyObjects
    <2> DEFINE f == [Top EXCEPT !.at = "Last", !.held = {}]
    <2>1. /\ refs' = DropHeld /\ SetTop(f)
          /\ (\A p \in Creations : ~tracked'[p]) /\ (\A d \in Descriptors : cache'[d] = 0)
          /\ UNCHANGED <<mState, descriptor, initialized, appRefs, mIsCachedReference, answer, worker,
                         halted>>
      BY <1>0, <1>7 DEF DestroyObjects
    <2>2. ObjectsGone'
      <3>1. DOMAIN frames' = DOMAIN frames /\ Len(frames) \in DOMAIN frames /\ frames'[Len(frames)] = f
            /\ f.at = "Last"
        <4>1. f \in Frame /\ f.at = "Last"
          BY <1>0 DEF Frame
        <4> QED
          BY <1>0, <2>1, <4>1, ExceptLast DEF SetTop
      <3> QED
        BY <3>1 DEF ObjectsGone
    <2>3. \A p \in Creations : /\ refs[p] = 0 => refs'[p] = 0
                               /\ Unanswered(p)' => Unanswered(p)
      <3>1. \A p \in Creations : refs'[p] \in Nat /\ (refs'[p] > 0 => refs[p] > 0)
        BY <1>5, <2>1
      <3> QED
        BY <2>1, <3>1 DEF Unanswered
    <2>4. PipelineInv'
      BY <2>1, <2>2, <2>3 DEF PipesInv, PipelineInv
    <2>5. CacheIsLive' /\ DescriptorsAgree'
      BY <2>1, <2>2 DEF CacheIsLive, DescriptorsAgree
    <2> QED
      BY <1>0, <2>1, <2>4, <2>5 DEF PipesInv, HaltsAreKnown
  <1>8. CASE DestroyReturns
    <2>1. /\ mState' = "Destroyed" /\ (\A d \in Descriptors : cache'[d] = 0) /\ Top.at = "Last"
          /\ UNCHANGED <<descriptor, initialized, refs, appRefs, tracked, mIsCachedReference, answer,
                         worker, halted>>
      BY <1>0, <1>8 DEF DestroyReturns, InFrame
    <2>2. ObjectsGone /\ ObjectsGone'
      BY <1>0, <2>1, TopType DEF ObjectsGone
    <2>3. PipelineInv'
      BY <2>1, <2>2 DEF PipesInv, PipelineInv, Unanswered
    <2>4. CacheIsLive' /\ DescriptorsAgree'
      BY <2>1 DEF CacheIsLive, DescriptorsAgree
    <2> QED
      BY <1>0, <2>1, <2>3, <2>4 DEF PipesInv, HaltsAreKnown
  <1> QED
    BY <1>2, <1>3, <1>4, <1>6, <1>7, <1>8 DEF StackStep

LEMMA PipesWorker ==
    ASSUME TaskInv, TaskInv', PipesInv, StackInv, NEW r \in Creations, Worker(r)
    PROVE  PipesInv'
  <1>0. AsyncTypeOK /\ AsyncTypeOK' /\ RefsAreHeld /\ (mState = "Destroyed" => WorkerDone(r))
    BY DEF TaskInv, StackInv, ShutDownInv
  <1>a. ObjectsGone <=> ObjectsGone'
    <2>1. UNCHANGED <<mState, frames>>
      BY DEF Worker, WorkerInitializes, WorkerFails, Halt, AddCallbackTask, WorkerReleases,
         WorkerDestroys, HandleTaskCompletion, MarkAsComplete
    <2> QED
      BY <1>0, <2>1, GoneSame
  <1>b. ObjectsGone => \A p \in Creations : tracked[p] => worker[p] = "None"
    BY DEF PipesInv, PipelineInv
  <1>1. /\ refs[r] = appRefs[r] + WorkerRef(r) + TaskRef(r)
        /\ refs[r] \in Nat /\ appRefs[r] \in Nat /\ TaskRef(r) \in {0, 1}
    BY <1>0, RefCounts DEF RefsAreHeld
  <1>2. \A d \in Descriptors : cache[d] # 0 => cache[d] \in Creations
    BY <1>0, Cached
  <1>3. CASE WorkerFails(r)
    BY <1>0, <1>3, PipesHalt DEF WorkerFails
  <1>4. ASSUME UNCHANGED answer PROVE \A p \in Creations : Unanswered(p)' <=> Unanswered(p)
    BY <1>4 DEF Unanswered
  <1>5. CASE HandleTaskCompletion(r) \/ MarkAsComplete(r)
    <2>1. /\ UNCHANGED <<mState, pipelineVars, answer>>
          /\ worker[r] \in {"Released", "Removed"} /\ worker'[r] \in {"Removed", "Complete"}
          /\ \A p \in Creations : p # r => worker'[p] = worker[p]
      BY <1>0, <1>5 DEF HandleTaskCompletion, MarkAsComplete, At, GoTo, AsyncTypeOK, WorkerDone
    <2>2. PipelineInv'
      BY <1>4, <1>a, <1>b, <2>1 DEF PipesInv, PipelineInv, pipelineVars
    <2>3. \A p \in Creations : worker[p] = "Deleting" => worker'[p] = "Deleting"
      BY <2>1
    <2>4. CacheIsLive'
      BY <1>2, <1>a, <2>1, <2>3 DEF PipesInv, CacheIsLive, pipelineVars
    <2> QED
      BY <2>1, <2>2, <2>4 DEF PipesInv, DescriptorsAgree, pipelineVars
  <1>6. CASE WorkerInitializes(r)
    <2>1. /\ UNCHANGED <<mState, descriptor, refs, appRefs, tracked, mIsCachedReference, cache, answer>>
          /\ worker[r] = "Start" /\ worker'[r] = "Initialized" /\ initialized'[r]
          /\ \A p \in Creations : p # r => worker'[p] = worker[p] /\ initialized'[p] = initialized[p]
      BY <1>0, <1>6 DEF WorkerInitializes, At, GoTo, AsyncTypeOK
    <2>2. PipelineInv'
      BY <1>4, <1>a, <1>b, <2>1 DEF PipesInv, PipelineInv
    <2>3. \A p \in Creations : /\ initialized[p] => initialized'[p]
                               /\ worker[p] = "Deleting" => worker'[p] = "Deleting"
      BY <2>1
    <2>4. CacheIsLive'
      BY <1>2, <1>a, <2>1, <2>3 DEF PipesInv, CacheIsLive
    <2> QED
      BY <2>1, <2>2, <2>4 DEF PipesInv, DescriptorsAgree
  <1>7. CASE AddCallbackTask(r)
    <2>1. /\ UNCHANGED <<mState, descriptor, initialized, appRefs, tracked, mIsCachedReference, cache, answer>>
          /\ worker[r] = "Initialized" /\ worker'[r] = "Added" /\ refs' = [refs EXCEPT ![r] = @ + 1]
          /\ \A p \in Creations : p # r => worker'[p] = worker[p]
      BY <1>0, <1>7 DEF AddCallbackTask, At, GoTo, AsyncTypeOK, WorkerDone, TaskRefs
    <2>2. refs[r] > 0 /\ refs'[r] > 0 /\ \A p \in Creations : p # r => refs'[p] = refs[p]
      <3>1. WorkerRef(r) = 1
        BY <2>1 DEF WorkerRef
      <3>2. refs'[r] = refs[r] + 1 /\ \A p \in Creations : p # r => refs'[p] = refs[p]
        BY <1>0, <2>1 DEF AsyncTypeOK
      <3> QED
        BY <1>1, <3>1, <3>2
    <2>3. ~mIsCachedReference[r] /\ initialized[r]
      BY <2>1 DEF TaskInv, TasksWait, PipesInv, PipelineInv, Unanswered
    <2>4. PipelineInv'
      BY <1>4, <1>a, <1>b, <2>1, <2>2, <2>3 DEF PipesInv, PipelineInv
    <2>5. \A p \in Creations : /\ refs'[p] > 0 <=> refs[p] > 0
                               /\ worker[p] = "Deleting" => worker'[p] = "Deleting"
      BY <2>1, <2>2
    <2>6. CacheIsLive'
      BY <1>2, <1>a, <2>1, <2>5 DEF PipesInv, CacheIsLive
    <2> QED
      BY <2>1, <2>4, <2>6 DEF PipesInv, DescriptorsAgree
  <1>8. CASE WorkerReleases(r)
    <2>1. /\ UNCHANGED <<mState, descriptor, initialized, appRefs, tracked, mIsCachedReference, cache, answer>>
          /\ worker[r] = "Added" /\ refs' = [refs EXCEPT ![r] = @ - 1]
          /\ worker'[r] = IF refs[r] = 1 THEN "Deleting" ELSE "Released"
          /\ \A p \in Creations : p # r => worker'[p] = worker[p]
      BY <1>0, <1>8 DEF WorkerReleases, At, GoTo, AsyncTypeOK
    <2>2. /\ refs[r] > 0 /\ refs'[r] = refs[r] - 1 /\ initialized[r]
          /\ refs'[r] > 0 \/ worker'[r] = "Deleting"
          /\ \A p \in Creations : p # r => refs'[p] = refs[p]
      <3>2. refs'[r] = refs[r] - 1 /\ (\A p \in Creations : p # r => refs'[p] = refs[p]) /\ WorkerRef(r) = 1
        BY <1>0, <2>1 DEF AsyncTypeOK, WorkerRef
      <3>3. initialized[r]
        BY <2>1 DEF PipesInv, PipelineInv
      <3> QED
        BY <1>1, <2>1, <3>2, <3>3
    <2>3. \A p \in Creations : refs'[p] > 0 => refs[p] > 0
      BY <1>1, <2>2
    <2>4. PipelineInv'
      <3> SUFFICES ASSUME NEW p \in Creations
                   PROVE  /\ refs'[p] > 0 /\ ~ObjectsGone' => tracked'[p]
                          /\ ObjectsGone' /\ tracked'[p] => worker'[p] = "None"
                          /\ worker'[p] \notin {"None", "Start"} => initialized'[p]
                          /\ Unanswered(p)' => ~mIsCachedReference'[p]
                          /\ worker'[p] = "Deleting" => refs'[p] = 0
        BY DEF PipelineInv
      <3>1. CASE p = r
        BY <1>1, <1>4, <1>a, <1>b, <2>1, <2>2, <3>1 DEF PipesInv, PipelineInv
      <3>2. CASE p # r
        BY <1>4, <1>a, <2>1, <2>2, <3>2 DEF PipesInv, PipelineInv
      <3> QED
        BY <3>1, <3>2
    <2>5. CacheIsLive'
      <3>1. ASSUME NEW d \in Descriptors, cache[d] # 0
            PROVE  refs'[cache[d]] > 0 \/ worker'[cache[d]] = "Deleting"
        BY <1>0, <2>1, <2>2, <3>1, Cached
      <3> QED
        BY <1>a, <2>1, <2>3, <3>1 DEF PipesInv, CacheIsLive
    <2> QED
      BY <2>1, <2>4, <2>5 DEF PipesInv, DescriptorsAgree
  <1>9. CASE WorkerDestroys(r)
    <2>1. /\ UNCHANGED <<mState, descriptor, initialized, refs, appRefs, mIsCachedReference, answer>>
          /\ worker[r] = "Deleting" /\ worker'[r] = "Released" /\ cache' = Uncached({r}) /\ ~tracked'[r]
          /\ \A p \in Creations : p # r => worker'[p] = worker[p] /\ tracked'[p] = tracked[p]
      BY <1>0, <1>9 DEF WorkerDestroys, At, GoTo, AsyncTypeOK
    <2>2. refs[r] = 0
      BY <2>1 DEF PipesInv, PipelineInv
    <2>3. \A d \in Descriptors : cache'[d] = IF cache[d] = r THEN 0 ELSE cache[d]
      <3>1. r # 0
        BY AsyncBounds DEF Creations
      <3>2. ASSUME NEW d \in Descriptors, cache[d] = r PROVE tracked[r] /\ mIsCachedReference[r]
        BY <1>0, <3>1, <3>2, Cached
      <3> QED
        BY <2>1, <3>2 DEF Uncached
    <2>5. PipelineInv'
      BY <1>4, <1>a, <1>b, <2>1, <2>2 DEF PipesInv, PipelineInv
    <2>6. CacheIsLive'
      <3>1. ASSUME NEW d \in Descriptors, cache'[d] # 0
            PROVE  /\ refs'[cache'[d]] > 0 \/ worker'[cache'[d]] = "Deleting"
                   /\ initialized'[cache'[d]] /\ mIsCachedReference'[cache'[d]] /\ tracked'[cache'[d]]
        <4>1. cache'[d] = cache[d] /\ cache[d] # r /\ cache[d] # 0
          BY <2>3, <3>1
        <4> QED
          BY <1>0, <2>1, <4>1, Cached
      <3>2. ASSUME NEW p \in Creations, refs'[p] > 0, mIsCachedReference'[p], mState' # "Destroyed",
                   ObjectsGone' => tracked'[p]
            PROVE  cache'[descriptor'[p]] = p
        <4>1. p # r /\ descriptor[p] \in Descriptors
          BY <1>0, <2>1, <2>2, <3>2 DEF AsyncTypeOK
        <4>2. cache[descriptor[p]] = p
          BY <1>a, <2>1, <3>2, <4>1 DEF PipesInv, CacheIsLive
        <4> QED
          BY <2>1, <2>3, <4>1, <4>2
      <3> QED
        BY <3>1, <3>2 DEF CacheIsLive
    <2> QED
      BY <2>1, <2>3, <2>5, <2>6 DEF PipesInv, DescriptorsAgree
  <1> QED
    BY <1>3, <1>5, <1>6, <1>7, <1>8, <1>9 DEF Worker

-----------------------------------------------------------------------------
(* All together.                                                           *)

LEMMA CalmInit == Init => CalmInv
  <1> SUFFICES ASSUME Init PROVE CalmInv
    OBVIOUS
  <1>1. frames = <<>> /\ DOMAIN frames = {}
    BY DEF Init
  <1>2. HaltsAreKnown /\ CacheIsLive /\ DescriptorsAgree
    BY DEF Init, HaltsAreKnown, CacheIsLive, DescriptorsAgree
  <1>3. PipelineInv
    BY DEF Init, PipelineInv
  <1>4. WorkersKnown /\ ShutDownInv
    BY <1>1 DEF Init, WorkersKnown, WorkerDone, ShutDownInv
  <1> QED
    BY <1>2, <1>3, <1>4 DEF CalmInv

LEMMA CalmStep == CalmShutDown /\ TaskInv /\ TaskInv' /\ CalmInv /\ [Next]_vars => CalmInv'
  <1> SUFFICES ASSUME CalmShutDown, TaskInv, TaskInv', HaltsAreKnown, PipesInv, StackInv,
                      [Next]_vars
               PROVE  HaltsAreKnown' /\ PipesInv' /\ StackInv'
    BY DEF CalmInv, PipesInv, StackInv
  <1>0. AsyncTypeOK
    BY DEF TaskInv
  <1>1. CASE Application
    <2>1. StackInv'
      BY <1>0, <1>1, StackApplication
    <2>2. ASSUME Tick \/ SetCallback \/ LoseDevice \/ Destroy PROVE PipesInv' /\ HaltsAreKnown'
      <3>1. /\ UNCHANGED <<pipelineVars, answer, worker, halted>> /\ halted = "None"
            /\ mState = "Destroyed" <=> mState' = "Destroyed"
        BY <2>2 DEF Tick, SetCallback, LoseDevice, Destroy, CanCall
      <3>2. \A p \in Creations : Unanswered(p)' => Unanswered(p)
        BY <3>1 DEF Unanswered
      <3>3. \E f \in Frame : frames' = Append(frames, f) /\ f.at # "Last"
        <4>1. PICK call \in Calls, at \in {"Code", "Wait"}, waits \in SUBSET Creations,
                   tasks \in Seq(Creations) : Push(call, at, waits, tasks)
          BY <1>0, <2>2, EmptySeq DEF Tick, SetCallback, LoseDevice, Destroy, AsyncTypeOK, Calls
        <4> DEFINE f == [call |-> call, at |-> at, waits |-> waits, tasks |-> tasks, held |-> {}]
        <4>2. f \in Frame /\ f.at # "Last"
          BY DEF Frame
        <4> QED
          BY <4>1, <4>2 DEF Push
      <3>4. ObjectsGone <=> ObjectsGone'
        BY <1>0, <3>1, <3>3, GoneSame
      <3> QED
        BY <3>1, <3>2, <3>4, PipesSame DEF HaltsAreKnown
    <2>3. PipesInv' /\ HaltsAreKnown'
      BY <1>1, <2>2, PipesCreateAsync, PipesCreate, PipesReleasePipeline DEF Application
    <2> QED
      BY <2>1, <2>3
  <1>2. CASE StackStep
    BY <1>0, <1>2, StackStackStep, PipesStackStep
  <1>3. ASSUME NEW r \in Creations, Worker(r)
        PROVE  HaltsAreKnown' /\ PipesInv' /\ StackInv'
    <2>1. halted = "None"
      BY <1>3 DEF Worker, WorkerInitializes, WorkerFails, AddCallbackTask, WorkerReleases,
         WorkerDestroys, HandleTaskCompletion, MarkAsComplete, At
    <2> QED
      BY <1>0, <1>3, <2>1, StackWorker, PipesWorker DEF HaltsAreKnown
  <1>4. CASE UNCHANGED vars
    <2>1. PipesInv'
      <3>1. ObjectsGone <=> ObjectsGone'
        BY <1>0, <1>4, GoneSame DEF vars
      <3> QED
        BY <1>4, <3>1, PipesSame DEF vars, pipelineVars, Unanswered
    <2>2. StackInv'
      BY <1>4, StackSame DEF vars, taskVars, WorkerDone
    <2> QED
      BY <1>4, <2>1, <2>2 DEF vars, pipelineVars, HaltsAreKnown
  <1> QED
    BY <1>1, <1>2, <1>3, <1>4 DEF Next

LEMMA CalmInvariant == CalmShutDown => (Spec => []CalmInv)
  <1> SUFFICES ASSUME CalmShutDown PROVE Spec => []CalmInv
    OBVIOUS
  <1>1. TaskInv /\ TaskInv' /\ CalmInv /\ [Next]_vars => CalmInv'
    BY CalmStep
  <1> QED
    BY <1>1, CalmInit, TaskInvariant, PTL DEF Spec

(* What stops the process is a failed Initialize on a worker, the window   *)
(* between a worker's last Release and its removal from the cache, or the  *)
(* release, after Destroy, of a pipeline created at once in the callbacks  *)
(* that Destroy ran last.  No thread uses a manager that Destroy has       *)
(* deleted, and no cached pipeline is referenced after its last reference  *)
(* has gone outside that window, for every schedule of the workers, if no  *)
(* callback destroys the device and none that Destroy runs starts a        *)
(* worker.                                                                 *)
THEOREM StopsAreKnown == CalmShutDown => (Spec => []HaltsAreKnown)
  <1>1. CalmInv => HaltsAreKnown
    BY DEF CalmInv
  <1> QED
    BY <1>1, CalmInvariant, PTL

(* For the same applications, and again for every schedule of the workers, *)
(* every reference count is the number of the holders on both threads, and *)
(* the cache holds the living pipelines that it should, and no other but   *)
(* one that its worker is about to take out.                               *)
THEOREM CacheMatchesReferences == CalmShutDown => (Spec => []AsyncInv)
  <1>1. TaskInv /\ CalmInv => AsyncInv
    BY DEF TaskInv, CalmInv, AsyncInv
  <1> QED
    BY <1>1, TaskInvariant, CalmInvariant, PTL
=============================================================================
