--------------------------- MODULE WireDeviceProofs ---------------------------
(***************************************************************************)
(* Proofs about WireDevice.                                                *)
(***************************************************************************)
EXTENDS WireDevice, SequenceTheorems, FiniteSetTheorems, TLAPS

-----------------------------------------------------------------------------
(* Sequences                                                               *)

(* A sequence with an element appended.                                    *)
LEMMA Added ==
    ASSUME NEW S, NEW s \in Seq(S), NEW e \in S
    PROVE  /\ Append(s, e) \in Seq(S) /\ Len(s) \in Nat /\ Len(Append(s, e)) = Len(s) + 1
           /\ DOMAIN s = 1..Len(s) /\ DOMAIN Append(s, e) = 1..(Len(s) + 1)
           /\ Append(s, e)[Len(s) + 1] = e /\ \A j \in DOMAIN s : Append(s, e)[j] = s[j]
           /\ \A j \in DOMAIN Append(s, e) : j \in DOMAIN s \/ j = Len(s) + 1
           /\ \A j \in DOMAIN s : j \in DOMAIN Append(s, e) /\ j # Len(s) + 1 /\ j \in Nat
           /\ Len(s) + 1 \in DOMAIN Append(s, e)
  <1>1. DOMAIN s = 1..Len(s) /\ Len(s) \in Nat
    BY LenProperties
  <1>2. Append(s, e) \in Seq(S) /\ Len(Append(s, e)) = Len(s) + 1
    BY AppendProperties
  <1>3. DOMAIN Append(s, e) = 1..(Len(s) + 1)
    BY <1>2, LenProperties
  <1>4. Append(s, e)[Len(s) + 1] = e /\ \A j \in 1..Len(s) : Append(s, e)[j] = s[j]
    BY AppendProperties
  <1> QED
    BY <1>1, <1>2, <1>3, <1>4

(* Two sequences in a row.                                                 *)
LEMMA Joined ==
    ASSUME NEW S, NEW s \in Seq(S), NEW c \in Seq(S)
    PROVE  /\ s \o c \in Seq(S) /\ DOMAIN (s \o c) = 1..(Len(s) + Len(c))
           /\ Len(s) \in Nat /\ Len(c) \in Nat
           /\ \A j \in DOMAIN s : j \in DOMAIN (s \o c) /\ (s \o c)[j] = s[j]
           /\ \A j \in DOMAIN (s \o c) :
                 \/ j \in DOMAIN s
                 \/ j > Len(s) /\ j - Len(s) \in DOMAIN c /\ (s \o c)[j] = c[j - Len(s)]
           /\ \A i \in DOMAIN c : Len(s) + i \in DOMAIN (s \o c) /\ (s \o c)[Len(s) + i] = c[i]
  <1>1. s \o c \in Seq(S) /\ Len(s \o c) = Len(s) + Len(c) /\ Len(s) \in Nat /\ Len(c) \in Nat
    BY ConcatProperties, LenProperties
  <1>2. DOMAIN s = 1..Len(s) /\ DOMAIN c = 1..Len(c) /\ DOMAIN (s \o c) = 1..(Len(s) + Len(c))
    BY <1>1, LenProperties
  <1>3. \A j \in 1..(Len(s) + Len(c)) : (s \o c)[j] = IF j <= Len(s) THEN s[j] ELSE c[j - Len(s)]
    BY <1>1, ConcatProperties
  <1> QED
    BY <1>1, <1>2, <1>3

(* A sequence without its head.                                            *)
LEMMA Beheaded ==
    ASSUME NEW S, NEW s \in Seq(S), s # <<>>
    PROVE  /\ Tail(s) \in Seq(S) /\ Len(s) \in Nat \ {0} /\ Len(Tail(s)) = Len(s) - 1
           /\ DOMAIN s = 1..Len(s) /\ DOMAIN Tail(s) = 1..(Len(s) - 1)
           /\ 1 \in DOMAIN s /\ Head(s) = s[1] /\ s[1] \in S
           /\ \A j \in DOMAIN Tail(s) : j \in Nat /\ j >= 1 /\ j + 1 \in DOMAIN s
                                        /\ Tail(s)[j] = s[j + 1]
           /\ \A j \in DOMAIN s : j \in Nat /\ j >= 1
                 /\ (j # 1 => j - 1 \in DOMAIN Tail(s) /\ Tail(s)[j - 1] = s[j])
  <1>1. Len(s) \in Nat /\ DOMAIN s = 1..Len(s) /\ Len(s) >= 1
    BY EmptySeq, LenProperties
  <1>2. Head(s) = s[1] /\ Tail(s) \in Seq(S) /\ Len(Tail(s)) = Len(s) - 1
    BY <1>1, HeadTailProperties
  <1>3. \A j \in 1..Len(Tail(s)) : Tail(s)[j] = s[j + 1]
    BY <1>1, HeadTailProperties
  <1>4. DOMAIN Tail(s) = 1..(Len(s) - 1)
    BY <1>1, <1>2, LenProperties
  <1>5. s[1] \in S
    BY <1>1, ElementOfSeq
  <1> QED
    BY <1>1, <1>2, <1>3, <1>4, <1>5

(* A sequence without its last element.                                    *)
LEMMA Cut ==
    ASSUME NEW S, NEW s \in Seq(S), s # <<>>
    PROVE  /\ Front(s) \in Seq(S) /\ Len(s) \in Nat \ {0} /\ Len(Front(s)) = Len(s) - 1
           /\ DOMAIN s = 1..Len(s) /\ DOMAIN Front(s) = 1..(Len(s) - 1)
           /\ Len(s) \in DOMAIN s /\ Last(s) = s[Len(s)] /\ Last(s) \in S
           /\ \A j \in DOMAIN Front(s) : j \in DOMAIN s /\ j # Len(s) /\ Front(s)[j] = s[j]
  <1>1. /\ DOMAIN s = 1..Len(s) /\ Len(s) \in Nat \ {0}
        /\ \A j \in 1..Len(s) : s[j] \in S
    BY EmptySeq, LenProperties, ElementOfSeq
  <1>2. /\ Front(s) \in Seq(S) /\ Len(Front(s)) = Len(s) - 1
        /\ \A j \in 1..(Len(s) - 1) : Front(s)[j] = s[j]
    BY <1>1, SubSeqProperties DEF Front
  <1>3. DOMAIN Front(s) = 1..(Len(s) - 1)
    BY <1>2, LenProperties
  <1>4. Last(s) = s[Len(s)]
    BY DEF Last
  <1> QED
    BY <1>1, <1>2, <1>3, <1>4

(* A sequence has its elements at 1..Len.                                  *)
LEMMA Indexed ==
    ASSUME NEW S, NEW s \in Seq(S)
    PROVE  /\ Len(s) \in Nat /\ DOMAIN s = 1..Len(s) /\ \A j \in DOMAIN s : s[j] \in S /\ j \in Nat /\ j >= 1
  BY LenProperties, ElementOfSeq

(* The empty sequence.                                                     *)
LEMMA Nothing ==
    /\ DOMAIN <<>> = {} /\ Len(<<>>) = 0 /\ \A S : <<>> \in Seq(S)
    /\ \A S : \A s \in Seq(S) : s \o <<>> = s
  <1>1. \A S : \A s \in Seq(S) : s \o <<>> = s
    BY ConcatEmptySeq
  <1> QED
    BY <1>1

(* A sequence of one element.                                              *)
LEMMA Single ==
    ASSUME NEW S, NEW e \in S
    PROVE  /\ <<e>> \in Seq(S) /\ DOMAIN <<e>> = {1} /\ <<e>>[1] = e /\ Len(<<e>>) = 1
  OBVIOUS

(* A function on 1..n is a sequence.                                       *)
LEMMA Listed ==
    ASSUME NEW S, NEW n \in Nat, NEW f \in [1..n -> S]
    PROVE  f \in Seq(S) /\ DOMAIN f = 1..n /\ Len(f) = n
  <1>1. f \in Seq(S)
    BY SeqDef
  <1>2. DOMAIN f = 1..n
    OBVIOUS
  <1> QED
    BY <1>1, <1>2, LenProperties

-----------------------------------------------------------------------------
(* What is on its way.                                                     *)

(* The fields of a command.                                                *)
LEMMA CommandFacts ==
    \A c \in Commands :
        /\ c.cmd \in {"Push", "Pop", "InjectError", "Work", "CreatePipeline", "DestroyPipeline",
                      "Destroy", "DestroyDevice"}
        /\ c.cmd = "Push" => c.filter \in Filters
        /\ c.cmd \in Asking => c.request \in Requests
        /\ c.cmd \in {"CreatePipeline", "DestroyPipeline"} => c.id \in Ids
        /\ c.cmd \in {"InjectError", "Work"} => c.at \in 1..MaxCalls
        /\ c.cmd = "InjectError" => c.type \in Filters
  BY DEF Commands, Asking

(* The commands the client sends.                                          *)
LEMMA CommandsMade ==
    /\ \A f \in Filters : [cmd |-> "Push", filter |-> f] \in Commands
    /\ \A r \in Requests : [cmd |-> "Pop", request |-> r] \in Commands
    /\ \A f \in Filters, e \in 1..MaxCalls :
          [cmd |-> "InjectError", type |-> f, at |-> e] \in Commands
    /\ \A r \in Requests, e \in 1..MaxCalls :
          [cmd |-> "Work", request |-> r, at |-> e] \in Commands
    /\ \A r \in Requests, i \in Ids :
          [cmd |-> "CreatePipeline", request |-> r, id |-> i] \in Commands
    /\ \A i \in Ids : [cmd |-> "DestroyPipeline", id |-> i] \in Commands
    /\ [cmd |-> "Destroy"] \in Commands /\ [cmd |-> "DestroyDevice"] \in Commands
  BY DEF Commands

(* The fields of a return command.                                         *)
LEMMA ReturnFacts ==
    \A c \in ReturnCommands :
        /\ c.ret \in {"UncapturedError", "Lost", "Pop", "Pipeline", "Work"}
        /\ c.ret = "UncapturedError" => c.error \in 1..MaxCalls
        /\ c.ret \in Telling => c.request \in Requests
        /\ c.ret = "Pop" => c.status \in {"NoError"} \cup Filters /\ c.error \in 0..MaxCalls
        /\ c.ret = "Pipeline" => c.status \in {"Success", "Error", "DeviceLost", "DeviceDestroyed"}
        /\ c.ret = "Work" => c.status \in {"Success", "DeviceLost"}
  BY DEF ReturnCommands, Telling

(* The return commands the server sends.                                   *)
LEMMA ReturnsMade ==
    /\ \A e \in 1..MaxCalls : UncapturedError(e) \in ReturnCommands
    /\ [ret |-> "Lost"] \in ReturnCommands
    /\ \A r \in Requests, s \in {"NoError"} \cup Filters, e \in 0..MaxCalls :
          [ret |-> "Pop", request |-> r, status |-> s, error |-> e] \in ReturnCommands
    /\ \A r \in Requests, s \in {"Success", "Error", "DeviceLost", "DeviceDestroyed"} :
          PipelineReply(r, s) \in ReturnCommands
    /\ \A r \in Requests, s \in {"Success", "DeviceLost"} : WorkReply(r, s) \in ReturnCommands
  BY DEF ReturnCommands, UncapturedError, PipelineReply, WorkReply

(* What log records.                                                       *)
LEMMA EventsMade ==
    /\ \A f \in Filters : [op |-> "Push", filter |-> f] \in Events
                          /\ [op |-> "Error", type |-> f] \in Events
    /\ \A r \in Requests, name \in {"Pop", "Work"} : [op |-> name, request |-> r] \in Events
  BY DEF Events

-----------------------------------------------------------------------------
(* Where requests are, by what happens to the channels.                    *)

Asks(s, r) == \E j \in DOMAIN s : s[j].cmd \in Asking /\ s[j].request = r
AskOnce(s) ==
    \A j, k \in DOMAIN s : j # k /\ s[j].cmd \in Asking /\ s[k].cmd \in Asking
        => s[j].request # s[k].request
AskKind(s, kinds) == \A j \in DOMAIN s : s[j].cmd \in Asking => kinds[s[j].request] = KindOf(s[j].cmd)
Tells(s, r) == \E j \in DOMAIN s : s[j].ret \in Telling /\ s[j].request = r
TellOnce(s) ==
    \A j, k \in DOMAIN s : j # k /\ s[j].ret \in Telling /\ s[k].ret \in Telling
        => s[j].request # s[k].request
TellKind(s, kinds) == \A j \in DOMAIN s : s[j].ret \in Telling => kinds[s[j].request] = s[j].ret

(* A command is sent: its request is asked for as well.                    *)
LEMMA AsksAdded ==
    ASSUME NEW s \in Seq(Commands), NEW c \in Commands
    PROVE  /\ \A r : Asks(Append(s, c), r) <=> Asks(s, r) \/ (c.cmd \in Asking /\ c.request = r)
           /\ AskOnce(s) /\ (c.cmd \in Asking => ~Asks(s, c.request)) => AskOnce(Append(s, c))
           /\ \A kinds : AskKind(s, kinds) /\ (c.cmd \in Asking => kinds[c.request] = KindOf(c.cmd))
                 => AskKind(Append(s, c), kinds)
  <1>0. PICK t : t = Append(s, c)
    OBVIOUS
  <1>1. /\ t[Len(s) + 1] = c /\ \A j \in DOMAIN s : t[j] = s[j]
        /\ \A j \in DOMAIN t : j \in DOMAIN s \/ j = Len(s) + 1
        /\ \A j \in DOMAIN s : j \in DOMAIN t /\ j # Len(s) + 1
        /\ Len(s) + 1 \in DOMAIN t
    BY <1>0, Added
  <1>2. PICK n : n = Len(s) + 1
    OBVIOUS
  <1>3. /\ t[n] = c /\ \A j \in DOMAIN s : t[j] = s[j]
        /\ \A j \in DOMAIN t : j \in DOMAIN s \/ j = n
        /\ \A j \in DOMAIN s : j \in DOMAIN t /\ j # n
        /\ n \in DOMAIN t
    BY <1>1, <1>2
  <1>4. \A r : Asks(t, r) <=> Asks(s, r) \/ (c.cmd \in Asking /\ c.request = r)
    BY <1>3 DEF Asks
  <1>5. AskOnce(s) /\ (c.cmd \in Asking => ~Asks(s, c.request)) => AskOnce(t)
    BY <1>3 DEF Asks, AskOnce
  <1>6. \A kinds : AskKind(s, kinds) /\ (c.cmd \in Asking => kinds[c.request] = KindOf(c.cmd))
                 => AskKind(t, kinds)
    BY <1>3 DEF AskKind
  <1> QED
    BY <1>0, <1>4, <1>5, <1>6

(* A command is handled: its request, asked for once, is no longer.        *)
LEMMA AsksTail ==
    ASSUME NEW s \in Seq(Commands), s # <<>>, AskOnce(s)
    PROVE  /\ \A r : Asks(Tail(s), r) <=> Asks(s, r) /\ ~(s[1].cmd \in Asking /\ s[1].request = r)
           /\ s[1].cmd \in Asking => Asks(s, s[1].request)
           /\ AskOnce(Tail(s))
           /\ \A kinds : AskKind(s, kinds) => /\ AskKind(Tail(s), kinds)
                                              /\ s[1].cmd \in Asking => kinds[s[1].request] = KindOf(s[1].cmd)
  <1>0. PICK t : t = Tail(s)
    OBVIOUS
  <1>1. /\ 1 \in DOMAIN s
        /\ \A j \in DOMAIN t : j \in Nat /\ j >= 1 /\ j + 1 \in DOMAIN s /\ t[j] = s[j + 1]
        /\ \A j \in DOMAIN s : j \in Nat /\ j >= 1 /\ (j # 1 => j - 1 \in DOMAIN t /\ t[j - 1] = s[j])
    BY <1>0, Beheaded
  <1>2. ASSUME NEW r PROVE Asks(t, r) <=> Asks(s, r) /\ ~(s[1].cmd \in Asking /\ s[1].request = r)
    <2>1. ASSUME Asks(t, r) PROVE Asks(s, r) /\ ~(s[1].cmd \in Asking /\ s[1].request = r)
      <3>1. PICK j \in DOMAIN t : t[j].cmd \in Asking /\ t[j].request = r
        BY <2>1 DEF Asks
      <3>2. j + 1 \in DOMAIN s /\ t[j] = s[j + 1] /\ j + 1 # 1
        BY <1>1
      <3>3. s[j + 1].cmd \in Asking /\ s[j + 1].request = r
        BY <3>1, <3>2
      <3>4. Asks(s, r)
        BY <3>2, <3>3 DEF Asks
      <3> QED
        BY <1>1, <3>2, <3>3, <3>4 DEF AskOnce
    <2>2. ASSUME Asks(s, r), ~(s[1].cmd \in Asking /\ s[1].request = r) PROVE Asks(t, r)
      <3>1. PICK j \in DOMAIN s : s[j].cmd \in Asking /\ s[j].request = r
        BY <2>2 DEF Asks
      <3>2. j # 1
        BY <2>2, <3>1
      <3>3. j - 1 \in DOMAIN t /\ t[j - 1] = s[j]
        BY <1>1, <3>2
      <3> QED
        BY <3>1, <3>3 DEF Asks
    <2> QED
      BY <2>1, <2>2
  <1>3. s[1].cmd \in Asking => Asks(s, s[1].request)
    BY <1>1 DEF Asks
  <1>4. AskOnce(t)
    <2> SUFFICES ASSUME NEW j \in DOMAIN t, NEW k \in DOMAIN t, j # k,
                        t[j].cmd \in Asking, t[k].cmd \in Asking
                 PROVE  t[j].request # t[k].request
      BY DEF AskOnce
    <2>1. j + 1 \in DOMAIN s /\ k + 1 \in DOMAIN s /\ j + 1 # k + 1 /\ t[j] = s[j + 1] /\ t[k] = s[k + 1]
      BY <1>1
    <2> QED
      BY <2>1 DEF AskOnce
  <1>5. ASSUME NEW kinds, AskKind(s, kinds)
        PROVE  AskKind(t, kinds) /\ (s[1].cmd \in Asking => kinds[s[1].request] = KindOf(s[1].cmd))
    <2>1. ASSUME NEW j \in DOMAIN t, t[j].cmd \in Asking
          PROVE  kinds[t[j].request] = KindOf(t[j].cmd)
      <3>1. j + 1 \in DOMAIN s /\ t[j] = s[j + 1]
        BY <1>1
      <3> QED
        BY <1>5, <2>1, <3>1 DEF AskKind
    <2> QED
      BY <1>1, <1>5, <2>1 DEF AskKind
  <1> QED
    BY <1>0, <1>2, <1>3, <1>4, <1>5

(* Return commands are sent: their requests are answered as well.          *)
LEMMA TellsJoined ==
    ASSUME NEW s \in Seq(ReturnCommands), NEW c \in Seq(ReturnCommands)
    PROVE  /\ \A r : Tells(s \o c, r) <=> Tells(s, r) \/ Tells(c, r)
           /\ TellOnce(s) /\ TellOnce(c) /\ (\A r \in Requests : ~(Tells(s, r) /\ Tells(c, r)))
                 => TellOnce(s \o c)
           /\ \A kinds : TellKind(s, kinds) /\ TellKind(c, kinds) => TellKind(s \o c, kinds)
  <1>0. PICK t : t = s \o c
    OBVIOUS
  <1>1. /\ Len(s) \in Nat
        /\ \A j \in DOMAIN s : j \in DOMAIN t /\ t[j] = s[j]
        /\ \A j \in DOMAIN t : j \in DOMAIN s \/ (j \in Nat /\ j - Len(s) \in DOMAIN c /\ t[j] = c[j - Len(s)])
        /\ \A i \in DOMAIN c : Len(s) + i \in DOMAIN t /\ t[Len(s) + i] = c[i]
        /\ \A j \in DOMAIN t : t[j] \in ReturnCommands
    BY <1>0, Joined, Indexed
  <1>2. \A r : Tells(t, r) <=> Tells(s, r) \/ Tells(c, r)
    <2>1. ASSUME NEW r, Tells(t, r) PROVE Tells(s, r) \/ Tells(c, r)
      BY <1>1, <2>1 DEF Tells
    <2>2. ASSUME NEW r, Tells(s, r) PROVE Tells(t, r)
      BY <1>1, <2>2 DEF Tells
    <2>3. ASSUME NEW r, Tells(c, r) PROVE Tells(t, r)
      <3>1. PICK i \in DOMAIN c : c[i].ret \in Telling /\ c[i].request = r
        BY <2>3 DEF Tells
      <3> QED
        BY <1>1, <3>1 DEF Tells
    <2> QED
      BY <2>1, <2>2, <2>3
  <1>3. ASSUME TellOnce(s), TellOnce(c), \A r \in Requests : ~(Tells(s, r) /\ Tells(c, r))
        PROVE  TellOnce(t)
    <2> SUFFICES ASSUME NEW j \in DOMAIN t, NEW k \in DOMAIN t, j # k,
                        t[j].ret \in Telling, t[k].ret \in Telling, t[j].request = t[k].request
                 PROVE  FALSE
      BY DEF TellOnce
    <2>0. t[j].request \in Requests
      BY <1>1, ReturnFacts
    <2>1. CASE j \in DOMAIN s /\ k \in DOMAIN s
      BY <1>1, <1>3, <2>1 DEF TellOnce
    <2>2. CASE j \in DOMAIN s /\ k \notin DOMAIN s
      <3>1. k - Len(s) \in DOMAIN c /\ t[k] = c[k - Len(s)]
        BY <1>1, <2>2
      <3>2. Tells(s, t[j].request) /\ Tells(c, t[j].request)
        BY <1>1, <2>2, <3>1 DEF Tells
      <3> QED
        BY <1>3, <2>0, <3>2
    <2>3. CASE j \notin DOMAIN s /\ k \in DOMAIN s
      <3>1. j - Len(s) \in DOMAIN c /\ t[j] = c[j - Len(s)]
        BY <1>1, <2>3
      <3>2. Tells(s, t[j].request) /\ Tells(c, t[j].request)
        BY <1>1, <2>3, <3>1 DEF Tells
      <3> QED
        BY <1>3, <2>0, <3>2
    <2>4. CASE j \notin DOMAIN s /\ k \notin DOMAIN s
      <3>1. /\ j - Len(s) \in DOMAIN c /\ t[j] = c[j - Len(s)] /\ j \in Nat
            /\ k - Len(s) \in DOMAIN c /\ t[k] = c[k - Len(s)] /\ k \in Nat
        BY <1>1, <2>4
      <3>2. j - Len(s) # k - Len(s)
        BY <1>1, <3>1
      <3> QED
        BY <1>3, <3>1, <3>2 DEF TellOnce
    <2> QED
      BY <2>1, <2>2, <2>3, <2>4
  <1>4. \A kinds : TellKind(s, kinds) /\ TellKind(c, kinds) => TellKind(t, kinds)
    BY <1>1 DEF TellKind
  <1> QED
    BY <1>0, <1>2, <1>3, <1>4

(* A return command is handled: its request is no longer answered.         *)
LEMMA TellsTail ==
    ASSUME NEW s \in Seq(ReturnCommands), s # <<>>, TellOnce(s)
    PROVE  /\ \A r : Tells(Tail(s), r) <=> Tells(s, r) /\ ~(s[1].ret \in Telling /\ s[1].request = r)
           /\ s[1].ret \in Telling => Tells(s, s[1].request)
           /\ TellOnce(Tail(s))
           /\ \A kinds : TellKind(s, kinds) => /\ TellKind(Tail(s), kinds)
                                               /\ s[1].ret \in Telling => kinds[s[1].request] = s[1].ret
  <1>0. PICK t : t = Tail(s)
    OBVIOUS
  <1>1. /\ 1 \in DOMAIN s
        /\ \A j \in DOMAIN t : j \in Nat /\ j >= 1 /\ j + 1 \in DOMAIN s /\ t[j] = s[j + 1]
        /\ \A j \in DOMAIN s : j \in Nat /\ j >= 1 /\ (j # 1 => j - 1 \in DOMAIN t /\ t[j - 1] = s[j])
    BY <1>0, Beheaded
  <1>2. ASSUME NEW r PROVE Tells(t, r) <=> Tells(s, r) /\ ~(s[1].ret \in Telling /\ s[1].request = r)
    <2>1. ASSUME Tells(t, r) PROVE Tells(s, r) /\ ~(s[1].ret \in Telling /\ s[1].request = r)
      <3>1. PICK j \in DOMAIN t : t[j].ret \in Telling /\ t[j].request = r
        BY <2>1 DEF Tells
      <3>2. j + 1 \in DOMAIN s /\ t[j] = s[j + 1] /\ j + 1 # 1
        BY <1>1
      <3>3. s[j + 1].ret \in Telling /\ s[j + 1].request = r
        BY <3>1, <3>2
      <3>4. Tells(s, r)
        BY <3>2, <3>3 DEF Tells
      <3> QED
        BY <1>1, <3>2, <3>3, <3>4 DEF TellOnce
    <2>2. ASSUME Tells(s, r), ~(s[1].ret \in Telling /\ s[1].request = r) PROVE Tells(t, r)
      <3>1. PICK j \in DOMAIN s : s[j].ret \in Telling /\ s[j].request = r
        BY <2>2 DEF Tells
      <3>2. j # 1
        BY <2>2, <3>1
      <3>3. j - 1 \in DOMAIN t /\ t[j - 1] = s[j]
        BY <1>1, <3>2
      <3> QED
        BY <3>1, <3>3 DEF Tells
    <2> QED
      BY <2>1, <2>2
  <1>3. s[1].ret \in Telling => Tells(s, s[1].request)
    BY <1>1 DEF Tells
  <1>4. TellOnce(t)
    <2> SUFFICES ASSUME NEW j \in DOMAIN t, NEW k \in DOMAIN t, j # k,
                        t[j].ret \in Telling, t[k].ret \in Telling
                 PROVE  t[j].request # t[k].request
      BY DEF TellOnce
    <2>1. j + 1 \in DOMAIN s /\ k + 1 \in DOMAIN s /\ j + 1 # k + 1 /\ t[j] = s[j + 1] /\ t[k] = s[k + 1]
      BY <1>1
    <2> QED
      BY <2>1 DEF TellOnce
  <1>5. ASSUME NEW kinds, TellKind(s, kinds)
        PROVE  TellKind(t, kinds) /\ (s[1].ret \in Telling => kinds[s[1].request] = s[1].ret)
    <2>1. ASSUME NEW j \in DOMAIN t, t[j].ret \in Telling
          PROVE  kinds[t[j].request] = t[j].ret
      <3>1. j + 1 \in DOMAIN s /\ t[j] = s[j + 1]
        BY <1>1
      <3> QED
        BY <1>5, <2>1, <3>1 DEF TellKind
    <2> QED
      BY <1>1, <1>5, <2>1 DEF TellKind
  <1> QED
    BY <1>0, <1>2, <1>3, <1>4, <1>5

(* Where the server has a request.                                         *)
Inside(r) == r \in creating \/ InTask(r) \/ InQueue(r)

(* The invariants about places, by channel.                                *)
LEMMA PlacesRead ==
    /\ \A r : IsSent(r) <=> Asks(toServer, r)
    /\ \A r : IsReplied(r) <=> Tells(toClient, r)
    /\ KindInv <=> /\ AskKind(toServer, reqKind) /\ TellKind(toClient, reqKind)
                   /\ \A r \in Requests : r \in creating \/ InTask(r) => reqKind[r] = "Pipeline"
                   /\ \A r \in Requests : InQueue(r) => reqKind[r] = "Work"
    /\ OnceInv => AskOnce(toServer) /\ TellOnce(toClient)
  BY DEF IsSent, IsReplied, Asks, Tells, KindInv, OnceInv, AskOnce, TellOnce, AskKind, TellKind

(* The same after a step.                                                  *)
LEMMA PlacesRead2 ==
    /\ \A r : IsSent(r)' <=> Asks(toServer', r)
    /\ \A r : IsReplied(r)' <=> Tells(toClient', r)
    /\ KindInv' <=> /\ AskKind(toServer', reqKind') /\ TellKind(toClient', reqKind')
                    /\ \A r \in Requests : r \in creating' \/ InTask(r)' => reqKind'[r] = "Pipeline"
                    /\ \A r \in Requests : InQueue(r)' => reqKind'[r] = "Work"
  BY DEF IsSent, IsReplied, Asks, Tells, KindInv, AskKind, TellKind

TaskOnce == \A j, k \in DOMAIN callbackTasks : j # k => callbackTasks[j].request # callbackTasks[k].request
WorkOnce == \A j, k \in DOMAIN tasksInFlight : j # k => tasksInFlight[j] # tasksInFlight[k]

(* What OnceInv says of one request.                                       *)
LEMMA OnceRead ==
    ASSUME OnceInv, NEW r \in Requests
    PROVE  /\ IsSent(r) => ~Inside(r) /\ ~IsReplied(r)
           /\ r \in creating => ~InTask(r)
           /\ Inside(r) => ~IsReplied(r)
           /\ TaskOnce /\ WorkOnce
  BY DEF OnceInv, Inside, TaskOnce, WorkOnce

(* What it takes for OnceInv to hold after a step.                         *)
LEMMA OnceMade ==
    ASSUME AskOnce(toServer'), TellOnce(toClient'), TaskOnce', WorkOnce',
           \A r \in Requests :
              /\ IsSent(r)' => ~Inside(r)' /\ ~IsReplied(r)'
              /\ r \in creating' => ~InTask(r)'
              /\ Inside(r)' => ~IsReplied(r)'
    PROVE  OnceInv'
  BY DEF OnceInv, Inside, TaskOnce, WorkOnce, AskOnce, TellOnce

(* A step of the server: it takes a command or none, and answers.          *)
LEMMA ServerMoves ==
    ASSUME toServer \in Seq(Commands), toClient \in Seq(ReturnCommands),
           KindInv, OnceInv, WaitInv, OwnInv,
           live' = live, mDisconnected' = mDisconnected, reqKind' = reqKind, answer' = answer,
           pipelineId' = pipelineId, held' = held, mFreeIds' = mFreeIds, mCurrentId' = mCurrentId,
           NEW cmds \in Seq(ReturnCommands), toClient' = toClient \o cmds,
           toServer' = toServer \/ (toServer # <<>> /\ toServer' = Tail(toServer)),
           \A r \in Requests :
              /\ r \in creating' =>
                    r \in creating \/ (IsSent(r) /\ ~IsSent(r)' /\ reqKind[r] = "Pipeline")
              /\ InTask(r)' => InTask(r) \/ (r \in creating /\ r \notin creating')
              /\ InQueue(r)' => InQueue(r) \/ (IsSent(r) /\ ~IsSent(r)' /\ reqKind[r] = "Work")
              /\ Tells(cmds, r) => ~Inside(r)' /\ ~IsSent(r)' /\ (Inside(r) \/ IsSent(r)),
           TellOnce(cmds), TellKind(cmds, reqKind), TaskOnce', WorkOnce'
    PROVE  KindInv' /\ OnceInv' /\ WaitInv' /\ OwnInv'
  <1>1. /\ \A r : IsSent(r)' => IsSent(r)
        /\ AskOnce(toServer') /\ AskKind(toServer', reqKind)
    <2>1. AskOnce(toServer) /\ AskKind(toServer, reqKind)
      BY PlacesRead
    <2>2. CASE toServer' = toServer
      BY <2>1, <2>2, PlacesRead, PlacesRead2
    <2>3. CASE toServer # <<>> /\ toServer' = Tail(toServer)
      <3>1. /\ \A r : Asks(Tail(toServer), r) => Asks(toServer, r)
            /\ AskOnce(Tail(toServer)) /\ AskKind(Tail(toServer), reqKind)
        BY <2>1, <2>3, AsksTail
      <3> QED
        BY <2>3, <3>1, PlacesRead, PlacesRead2
    <2> QED
      BY <2>2, <2>3
  <1>2. /\ \A r : IsReplied(r)' <=> IsReplied(r) \/ Tells(cmds, r)
        /\ TellKind(toClient', reqKind)
    <2>1. TellOnce(toClient) /\ TellKind(toClient, reqKind)
      BY PlacesRead
    <2>2. /\ \A r : Tells(toClient \o cmds, r) <=> Tells(toClient, r) \/ Tells(cmds, r)
          /\ TellKind(toClient \o cmds, reqKind)
      BY <2>1, TellsJoined
    <2> QED
      BY <2>2, PlacesRead, PlacesRead2
  <1>3. ASSUME NEW r \in Requests
        PROVE  /\ IsSent(r) => ~Inside(r) /\ ~IsReplied(r)
               /\ r \in creating => ~InTask(r)
               /\ Inside(r) => ~IsReplied(r)
    BY OnceRead
  <1>4. TellOnce(toClient')
    <2>1. ASSUME NEW r \in Requests, Tells(toClient, r), Tells(cmds, r) PROVE FALSE
      <3>1. IsReplied(r)
        BY <2>1, PlacesRead
      <3> QED
        BY <2>1, <1>3, <3>1
    <2>2. TellOnce(toClient)
      BY PlacesRead
    <2> QED
      BY <2>1, <2>2, TellsJoined
  <1>5. ASSUME NEW r \in Requests
        PROVE  /\ IsSent(r)' => ~Inside(r)' /\ ~IsReplied(r)'
               /\ r \in creating' => ~InTask(r)'
               /\ Inside(r)' => ~IsReplied(r)'
    BY <1>1, <1>2, <1>3 DEF Inside
  <1>6. OnceInv'
    BY <1>1, <1>4, <1>5, OnceMade
  <1>7. KindInv'
    <2>1. ASSUME NEW r \in Requests
          PROVE  /\ r \in creating' \/ InTask(r)' => reqKind'[r] = "Pipeline"
                 /\ InQueue(r)' => reqKind'[r] = "Work"
      <3>1. (r \in creating \/ InTask(r) => reqKind[r] = "Pipeline") /\ (InQueue(r) => reqKind[r] = "Work")
        BY DEF KindInv
      <3> QED
        BY <3>1
    <2>2. AskKind(toServer', reqKind') /\ TellKind(toClient', reqKind')
      BY <1>1, <1>2
    <2> QED
      BY <2>1, <2>2, PlacesRead2
  <1>8. ASSUME NEW r \in Requests, Somewhere(r)' PROVE Somewhere(r)
    BY <1>1, <1>2, <1>8 DEF Somewhere, Inside
  <1>9. WaitInv'
    BY <1>8 DEF WaitInv, Waiting
  <1>10. OwnInv'
    BY <1>8 DEF OwnInv
  <1> QED
    BY <1>6, <1>7, <1>9, <1>10

(* A step of the client: it sends c, or takes an answer, or neither.       *)
LEMMA ClientMoves ==
    ASSUME toServer \in Seq(Commands), toClient \in Seq(ReturnCommands),
           KindInv, OnceInv, WaitInv,
           creating' = creating, callbackTasks' = callbackTasks, tasksInFlight' = tasksInFlight,
           NEW c \in Commands,
           \/ toServer' = toServer
           \/ /\ toServer' = Append(toServer, c)
              /\ c.cmd \in Asking =>
                    /\ answer[c.request] = "None" /\ answer'[c.request] = "Waiting"
                    /\ reqKind'[c.request] = KindOf(c.cmd),
           toClient' = toClient \/ (toClient # <<>> /\ toClient' = Tail(toClient)),
           live' => live, mDisconnected' = mDisconnected,
           \A r \in Requests : answer[r] # "None" =>
              /\ reqKind'[r] = reqKind[r] /\ answer'[r] # "None"
              /\ \/ answer'[r] = answer[r]
                 \/ ~Somewhere(r)'
                 \/ ~live' /\ reqKind[r] # "Work"
    PROVE  /\ KindInv' /\ OnceInv' /\ WaitInv'
           /\ \A r \in Requests : Somewhere(r)' =>
                 Somewhere(r) \/ (toServer' # toServer /\ c.cmd \in Asking /\ c.request = r)
  <1>0. ASSUME NEW r \in Requests
        PROVE  /\ IsSent(r) => ~Inside(r) /\ ~IsReplied(r)
               /\ r \in creating => ~InTask(r)
               /\ Inside(r) => ~IsReplied(r)
               /\ answer[r] = "None" => ~Inside(r) /\ ~IsSent(r) /\ ~IsReplied(r)
    BY OnceRead DEF WaitInv, Somewhere, Inside
  <1>1. AskOnce(toServer) /\ AskKind(toServer, reqKind) /\ TellOnce(toClient) /\ TellKind(toClient, reqKind)
    BY PlacesRead
  <1>2. \A r \in Requests : (InTask(r)' <=> InTask(r)) /\ (InQueue(r)' <=> InQueue(r)) /\ (Inside(r)' <=> Inside(r))
    BY DEF InTask, InQueue, Inside
  <1>3. \A r \in Requests : IsReplied(r)' => IsReplied(r)
    <2>1. CASE toClient' = toClient
      BY <2>1, PlacesRead, PlacesRead2
    <2>2. CASE toClient # <<>> /\ toClient' = Tail(toClient)
      <3>1. \A r : Tells(Tail(toClient), r) => Tells(toClient, r)
        BY <1>1, <2>2, TellsTail
      <3> QED
        BY <2>2, <3>1, PlacesRead, PlacesRead2
    <2> QED
      BY <2>1, <2>2
  <1>4. TellOnce(toClient') /\ TellKind(toClient', reqKind)
    <2>1. CASE toClient' = toClient
      BY <1>1, <2>1
    <2>2. CASE toClient # <<>> /\ toClient' = Tail(toClient)
      BY <1>1, <2>2, TellsTail
    <2> QED
      BY <2>1, <2>2
  <1>5. TellKind(toClient', reqKind')
    <2>1. toClient' \in Seq(ReturnCommands)
      <3>1. toClient # <<>> => Tail(toClient) \in Seq(ReturnCommands)
        BY Beheaded
      <3> QED
        BY <3>1
    <2>2. ASSUME NEW j \in DOMAIN toClient', toClient'[j].ret \in Telling
          PROVE  reqKind'[toClient'[j].request] = toClient'[j].ret
      <3>1. PICK r \in Requests : r = toClient'[j].request
        BY <2>1, <2>2, Indexed, ReturnFacts
      <3>2. IsReplied(r)'
        BY <2>2, <3>1 DEF IsReplied
      <3>3. answer[r] # "None"
        BY <1>0, <1>3, <3>2
      <3>4. reqKind[r] = toClient'[j].ret
        BY <1>4, <2>2, <3>1 DEF TellKind
      <3> QED
        BY <3>1, <3>3, <3>4
    <2> QED
      BY <2>2 DEF TellKind
  <1>6. ASSUME NEW r \in Requests, answer[r] # "None" PROVE reqKind'[r] = reqKind[r]
    BY <1>6
  <1>7. /\ \A r \in Requests : IsSent(r)' =>
              IsSent(r) \/ (toServer' # toServer /\ c.cmd \in Asking /\ c.request = r /\ answer[r] = "None"
                            /\ answer'[r] = "Waiting")
        /\ AskOnce(toServer')
    <2>1. CASE toServer' = toServer
      BY <1>1, <2>1, PlacesRead, PlacesRead2
    <2>2. CASE toServer' = Append(toServer, c) /\ (c.cmd \in Asking =>
              /\ answer[c.request] = "None" /\ answer'[c.request] = "Waiting"
              /\ reqKind'[c.request] = KindOf(c.cmd))
      <3>1. c.cmd \in Asking => ~Asks(toServer, c.request)
        BY <1>0, <2>2, CommandFacts, PlacesRead
      <3>2. /\ \A r : Asks(Append(toServer, c), r) <=> Asks(toServer, r) \/ (c.cmd \in Asking /\ c.request = r)
            /\ AskOnce(Append(toServer, c))
        BY <1>1, <3>1, AsksAdded
      <3>3. Append(toServer, c) # toServer
        <4>1. Len(Append(toServer, c)) = Len(toServer) + 1 /\ Len(toServer) \in Nat
          BY Added
        <4> QED
          BY <4>1
      <3> QED
        BY <2>2, <3>2, <3>3, PlacesRead, PlacesRead2
    <2> QED
      BY <2>1, <2>2
  <1>8. AskKind(toServer', reqKind')
    <2>0. AskKind(toServer, reqKind')
      <3> SUFFICES ASSUME NEW j \in DOMAIN toServer, toServer[j].cmd \in Asking
                   PROVE  reqKind'[toServer[j].request] = KindOf(toServer[j].cmd)
        BY DEF AskKind
      <3>1. PICK r \in Requests : r = toServer[j].request
        BY Indexed, CommandFacts
      <3>2. IsSent(r)
        BY <3>1 DEF IsSent
      <3>3. reqKind'[r] = reqKind[r]
        BY <1>0, <1>6, <3>2
      <3> QED
        BY <1>1, <3>1, <3>3 DEF AskKind
    <2>1. CASE toServer' = toServer
      BY <2>0, <2>1
    <2>2. CASE toServer' = Append(toServer, c) /\ (c.cmd \in Asking =>
              /\ answer[c.request] = "None" /\ answer'[c.request] = "Waiting"
              /\ reqKind'[c.request] = KindOf(c.cmd))
      <3>1. PICK kinds : kinds = reqKind'
        OBVIOUS
      <3>2. AskKind(Append(toServer, c), kinds)
        BY <2>0, <2>2, <3>1, AsksAdded
      <3> QED
        BY <2>2, <3>1, <3>2
    <2> QED
      BY <2>1, <2>2
  <1>9. KindInv'
    <2>1. ASSUME NEW r \in Requests
          PROVE  /\ r \in creating' \/ InTask(r)' => reqKind'[r] = "Pipeline"
                 /\ InQueue(r)' => reqKind'[r] = "Work"
      <3>1. (r \in creating \/ InTask(r) => reqKind[r] = "Pipeline") /\ (InQueue(r) => reqKind[r] = "Work")
        BY DEF KindInv
      <3>2. Inside(r) => reqKind'[r] = reqKind[r]
        BY <1>0, <1>6
      <3> QED
        BY <1>2, <3>1, <3>2 DEF Inside
    <2> QED
      BY <1>5, <1>8, <2>1, PlacesRead2
  <1>10. OnceInv'
    <2>1. TaskOnce' /\ WorkOnce'
      BY DEF OnceInv, TaskOnce, WorkOnce
    <2>2. ASSUME NEW r \in Requests
          PROVE  /\ IsSent(r)' => ~Inside(r)' /\ ~IsReplied(r)'
                 /\ r \in creating' => ~InTask(r)'
                 /\ Inside(r)' => ~IsReplied(r)'
      BY <1>0, <1>2, <1>3, <1>7
    <2> QED
      BY <1>4, <1>7, <2>1, <2>2, OnceMade
  <1>11. ASSUME NEW r \in Requests, Somewhere(r)'
         PROVE  \/ Somewhere(r) /\ answer[r] # "None"
                \/ toServer' # toServer /\ c.cmd \in Asking /\ c.request = r /\ answer'[r] = "Waiting"
    <2>1. Somewhere(r)' <=> IsSent(r)' \/ Inside(r)' \/ IsReplied(r)'
      BY DEF Somewhere, Inside
    <2>2. Somewhere(r) <=> IsSent(r) \/ Inside(r) \/ IsReplied(r)
      BY DEF Somewhere, Inside
    <2> QED
      BY <1>0, <1>2, <1>3, <1>7, <1>11, <2>1, <2>2
  <1>12. WaitInv'
    <2> SUFFICES ASSUME NEW r \in Requests, Somewhere(r)'
                 PROVE  /\ answer'[r] # "None"
                        /\ ~mDisconnected' /\ (live' \/ reqKind'[r] = "Work") => answer'[r] = "Waiting"
      BY DEF WaitInv, Waiting
    <2>1. CASE Somewhere(r) /\ answer[r] # "None"
      <3>1. ~mDisconnected /\ (live \/ reqKind[r] = "Work") => answer[r] = "Waiting"
        BY <2>1 DEF WaitInv, Waiting
      <3> QED
        BY <2>1, <3>1
    <2> QED
      BY <1>11, <2>1
  <1> QED
    BY <1>9, <1>10, <1>11, <1>12

-----------------------------------------------------------------------------
(* What the server's entries are, by what happens to the channels.         *)

KnownInv ==
    ReservedUntilSettled /\ HeldIsKnown /\ PipelineCommandInv /\ PipelineReplyInv /\ FreeIdInv
    /\ NumberInv

Allocate(r) == [state |-> "Allocated", request |-> r]
Ahead(s, j, name, i) == \E k \in 1..(j - 1) : s[k].cmd = name /\ s[k].id = i
CommandOK(s, j, ids, entries) ==
    /\ s[j].cmd = "CreatePipeline" =>
          /\ s[j].id = ids[s[j].request]
          /\ entries[s[j].id].state = "Free" \/ Ahead(s, j, "DestroyPipeline", s[j].id)
    /\ s[j].cmd = "DestroyPipeline" =>
          /\ entries[s[j].id].state = "Allocated"
          /\ ~Ahead(s, j, "DestroyPipeline", s[j].id) /\ ~Ahead(s, j, "CreatePipeline", s[j].id)
          /\ \A r \in Requests : ids[r] = s[j].id => Asks(s, r)
ReplyOK(m, ids, entries) ==
    m.ret = "Pipeline" =>
        IF m.status = "Success" THEN entries[ids[m.request]] = Allocate(m.request)
                                ELSE entries[ids[m.request]].state = "Free"
NumberOK(s, j, size) ==
    s[j].cmd = "CreatePipeline" => \A i \in size..(s[j].id - 1) : Ahead(s, j, "CreatePipeline", i)

(* The entries match the ids the client and the server's tasks use.        *)
EntriesOK ==
    /\ \A r \in Requests : r \in creating \/ InTask(r) => known[pipelineId[r]] = Reserve(r)
    /\ \A r \in Requests : live /\ ~mDisconnected /\ held[r] => known[pipelineId[r]] = Allocate(r)
    /\ live => \A j \in DOMAIN toClient : ReplyOK(toClient[j], pipelineId, known)
    /\ live /\ ~mDisconnected => \A i \in Ids : i >= mCurrentId => known[i].state = "Free"
FreeOK ==
    live /\ ~mDisconnected => \A j \in DOMAIN mFreeIds :
        \/ known[mFreeIds[j]].state = "Free"
        \/ Ahead(toServer, Len(toServer) + 1, "DestroyPipeline", mFreeIds[j])
LastOK ==
    live /\ ~mDisconnected => \A i \in knownSize..(mCurrentId - 1) :
        Ahead(toServer, Len(toServer) + 1, "CreatePipeline", i)

Tasks == [request : Requests, status : {"Success", "Error"}]

(* The fields of the callback tasks.                                       *)
LEMMA TaskFacts ==
    ASSUME NEW s \in Seq(Tasks)
    PROVE  \A j \in DOMAIN s : s[j] \in Tasks /\ s[j].request \in Requests
                               /\ s[j].status \in {"Success", "Error"}
  <1>1. \A j \in DOMAIN s : s[j] \in Tasks
    BY Indexed
  <1> QED
    BY <1>1 DEF Tasks

(* KnownInv by its parts.                                                  *)
LEMMA KnownRead ==
    ASSUME toServer \in Seq(Commands), creating \subseteq Requests,
           callbackTasks \in Seq(Tasks)
    PROVE  KnownInv <=> /\ EntriesOK /\ FreeOK /\ LastOK /\ knownSize <= mCurrentId
                        /\ \A j \in DOMAIN toServer : CommandOK(toServer, j, pipelineId, known)
                        /\ \A j \in DOMAIN toServer : NumberOK(toServer, j, knownSize)
  <1>1. DOMAIN toServer = 1..(Len(toServer) + 1 - 1)
    BY Indexed
  <1>2. ReservedUntilSettled <=>
            \A r \in Requests : r \in creating \/ InTask(r) => known[pipelineId[r]] = Reserve(r)
    <2>1. \A j \in DOMAIN callbackTasks : callbackTasks[j].request \in Requests
      BY TaskFacts
    <2> QED
      BY <2>1 DEF ReservedUntilSettled, InTask, Reserve, Range
  <1>3. HeldIsKnown <=>
            \A r \in Requests : live /\ ~mDisconnected /\ held[r] => known[pipelineId[r]] = Allocate(r)
    BY DEF HeldIsKnown, Allocate
  <1>4. PipelineReplyInv <=> (live => \A j \in DOMAIN toClient : ReplyOK(toClient[j], pipelineId, known))
    BY DEF PipelineReplyInv, ReplyOK, Allocate
  <1>5. PipelineCommandInv <=> \A j \in DOMAIN toServer : CommandOK(toServer, j, pipelineId, known)
    BY DEF PipelineCommandInv, CommandOK, Before, Ahead, IsSent, Asks
  <1>6. FreeIdInv <=> FreeOK /\ (live /\ ~mDisconnected => \A i \in Ids : i >= mCurrentId => known[i].state = "Free")
    BY <1>1 DEF FreeIdInv, FreeOK, OnWay, Ahead
  <1>7. NumberInv <=> /\ knownSize <= mCurrentId /\ LastOK
                      /\ \A j \in DOMAIN toServer : NumberOK(toServer, j, knownSize)
    BY <1>1 DEF NumberInv, NumberOK, LastOK, OnWay, Before, Ahead
  <1> QED
    BY <1>2, <1>3, <1>4, <1>5, <1>6, <1>7 DEF KnownInv, EntriesOK

(* What it takes for it to hold after a step.                              *)
LEMMA KnownMade ==
    ASSUME toServer' \in Seq(Commands), creating' \subseteq Requests,
           callbackTasks' \in Seq(Tasks)
    PROVE  EntriesOK' /\ FreeOK' /\ LastOK' /\ knownSize' <= mCurrentId'
             /\ (\A j \in DOMAIN toServer' : CommandOK(toServer', j, pipelineId', known'))
             /\ (\A j \in DOMAIN toServer' : NumberOK(toServer', j, knownSize'))
           => KnownInv'
  <1>1. DOMAIN toServer' = 1..(Len(toServer') + 1 - 1)
    BY Indexed
  <1>2. (\A r \in Requests : r \in creating' \/ InTask(r)' => known'[pipelineId'[r]] = Reserve(r))
          => ReservedUntilSettled'
    <2>1. \A j \in DOMAIN callbackTasks' : callbackTasks'[j].request \in Requests
      BY TaskFacts
    <2> QED
      BY <2>1 DEF ReservedUntilSettled, InTask, Reserve, Range
  <1>3. (\A r \in Requests : live' /\ ~mDisconnected' /\ held'[r] => known'[pipelineId'[r]] = Allocate(r))
          => HeldIsKnown'
    BY DEF HeldIsKnown, Allocate
  <1>4. (live' => \A j \in DOMAIN toClient' : ReplyOK(toClient'[j], pipelineId', known'))
          => PipelineReplyInv'
    BY DEF PipelineReplyInv, ReplyOK, Allocate
  <1>5. (\A j \in DOMAIN toServer' : CommandOK(toServer', j, pipelineId', known'))
          => PipelineCommandInv'
    BY DEF PipelineCommandInv, CommandOK, Before, Ahead, IsSent, Asks
  <1>6. FreeOK' /\ (live' /\ ~mDisconnected' => \A i \in Ids : i >= mCurrentId' => known'[i].state = "Free")
          => FreeIdInv'
    BY <1>1 DEF FreeIdInv, FreeOK, OnWay, Ahead
  <1>7. knownSize' <= mCurrentId' /\ LastOK' /\ (\A j \in DOMAIN toServer' : NumberOK(toServer', j, knownSize'))
          => NumberInv'
    BY <1>1 DEF NumberInv, NumberOK, LastOK, OnWay, Before, Ahead
  <1> QED
    BY <1>2, <1>3, <1>4, <1>5, <1>6, <1>7 DEF KnownInv, EntriesOK

(* What is ahead of a command stays there when another is sent.            *)
LEMMA AheadAdded ==
    ASSUME NEW s \in Seq(Commands), NEW c \in Commands
    PROVE  /\ \A j \in DOMAIN s : \A name, i : Ahead(Append(s, c), j, name, i) <=> Ahead(s, j, name, i)
           /\ \A name, i : Ahead(Append(s, c), Len(s) + 1, name, i) <=> Ahead(s, Len(s) + 1, name, i)
           /\ \A name, i : Ahead(Append(s, c), Len(Append(s, c)) + 1, name, i) <=>
                 Ahead(s, Len(s) + 1, name, i) \/ (c.cmd = name /\ c.id = i)
  <1>0. PICK t : t = Append(s, c)
    OBVIOUS
  <1>1. /\ Len(s) \in Nat /\ Len(t) = Len(s) + 1 /\ DOMAIN s = 1..Len(s)
        /\ t[Len(s) + 1] = c /\ \A j \in DOMAIN s : t[j] = s[j]
    BY <1>0, Added
  <1>2. \A j \in DOMAIN s : \A name, i : Ahead(t, j, name, i) <=> Ahead(s, j, name, i)
    BY <1>1 DEF Ahead
  <1>3. \A name, i : Ahead(t, Len(s) + 1, name, i) <=> Ahead(s, Len(s) + 1, name, i)
    BY <1>1 DEF Ahead
  <1>4. \A name, i : Ahead(t, Len(t) + 1, name, i) <=> Ahead(s, Len(s) + 1, name, i) \/ (c.cmd = name /\ c.id = i)
    <2>1. 1..(Len(t) + 1 - 1) = 1..(Len(s) + 1) /\ 1..(Len(s) + 1 - 1) = 1..Len(s)
      BY <1>1
    <2>2. \A k \in 1..(Len(s) + 1) : k \in 1..Len(s) \/ k = Len(s) + 1
      BY <1>1
    <2>3. Len(s) + 1 \in 1..(Len(s) + 1) /\ \A k \in 1..Len(s) : k \in 1..(Len(s) + 1)
      BY <1>1
    <2> QED
      BY <1>1, <2>1, <2>2, <2>3 DEF Ahead
  <1> QED
    BY <1>0, <1>2, <1>3, <1>4

(* What was ahead of a command is, but for the command handled.            *)
LEMMA AheadTail ==
    ASSUME NEW s \in Seq(Commands), s # <<>>
    PROVE  /\ \A j \in DOMAIN Tail(s) :
                 /\ j + 1 \in DOMAIN s /\ Tail(s)[j] = s[j + 1]
                 /\ \A name, i : Ahead(s, j + 1, name, i) <=>
                       Ahead(Tail(s), j, name, i) \/ (s[1].cmd = name /\ s[1].id = i)
           /\ \A name, i : ~Ahead(s, 1, name, i)
           /\ \A name, i : Ahead(s, Len(s) + 1, name, i) <=>
                 Ahead(Tail(s), Len(Tail(s)) + 1, name, i) \/ (s[1].cmd = name /\ s[1].id = i)
  <1>0. PICK t : t = Tail(s)
    OBVIOUS
  <1>1. /\ Len(s) \in Nat \ {0} /\ Len(t) = Len(s) - 1
        /\ DOMAIN s = 1..Len(s) /\ DOMAIN t = 1..(Len(s) - 1)
        /\ \A j \in DOMAIN t : j \in Nat /\ j >= 1 /\ j + 1 \in DOMAIN s /\ t[j] = s[j + 1]
        /\ \A j \in DOMAIN s : j \in Nat /\ j >= 1 /\ (j # 1 => j - 1 \in DOMAIN t /\ t[j - 1] = s[j])
    BY <1>0, Beheaded
  <1>2. ASSUME NEW j \in 1..Len(s), NEW name, NEW i
        PROVE  Ahead(s, j + 1, name, i) <=> Ahead(t, j, name, i) \/ (s[1].cmd = name /\ s[1].id = i)
    <2>0. j \in Nat /\ j >= 1 /\ j <= Len(s)
      BY <1>1
    <2>1. ASSUME Ahead(s, j + 1, name, i), ~(s[1].cmd = name /\ s[1].id = i) PROVE Ahead(t, j, name, i)
      <3>1. PICK k \in 1..(j + 1 - 1) : s[k].cmd = name /\ s[k].id = i
        BY <2>1 DEF Ahead
      <3>2. k # 1
        BY <2>1, <3>1
      <3>3. k - 1 \in 1..(j - 1) /\ k \in DOMAIN s
        BY <1>1, <2>0, <3>2
      <3>4. t[k - 1] = s[k]
        BY <1>1, <3>2, <3>3
      <3> QED
        BY <3>1, <3>3, <3>4 DEF Ahead
    <2>2. ASSUME Ahead(t, j, name, i) PROVE Ahead(s, j + 1, name, i)
      <3>1. PICK k \in 1..(j - 1) : t[k].cmd = name /\ t[k].id = i
        BY <2>2 DEF Ahead
      <3>2. k + 1 \in 1..(j + 1 - 1) /\ k \in DOMAIN t
        BY <1>1, <2>0
      <3>3. t[k] = s[k + 1]
        BY <1>1, <3>2
      <3> QED
        BY <3>1, <3>2, <3>3 DEF Ahead
    <2>3. ASSUME s[1].cmd = name, s[1].id = i PROVE Ahead(s, j + 1, name, i)
      <3>1. 1 \in 1..(j + 1 - 1)
        BY <2>0
      <3> QED
        BY <2>3, <3>1 DEF Ahead
    <2> QED
      BY <2>1, <2>2, <2>3
  <1>3. \A j \in DOMAIN t : j \in 1..Len(s)
    BY <1>1
  <1>4. Len(s) \in 1..Len(s) /\ Len(t) + 1 = Len(s)
    BY <1>1
  <1>5. \A name, i : ~Ahead(s, 1, name, i)
    BY DEF Ahead
  <1>6. \A name, i : Ahead(s, Len(s) + 1, name, i) <=>
                 Ahead(t, Len(t) + 1, name, i) \/ (s[1].cmd = name /\ s[1].id = i)
    BY <1>2, <1>4
  <1> QED
    BY <1>0, <1>1, <1>2, <1>3, <1>5, <1>6

KnownTypes ==
    /\ toServer \in Seq(Commands) /\ toClient \in Seq(ReturnCommands)
    /\ creating \subseteq Requests /\ callbackTasks \in Seq(Tasks)
    /\ known \in [Ids -> Entry] /\ knownSize \in 1..(MaxRequests + 1)
    /\ pipelineId \in [Requests -> 0..MaxRequests] /\ held \in [Requests -> BOOLEAN]
    /\ mFreeIds \in Seq(Ids) /\ mCurrentId \in 1..(MaxRequests + 1)

(* Types of the channels.                                                  *)
LEMMA SentType ==
    ASSUME toServer \in Seq(Commands), NEW c \in Commands,
           toServer' = toServer \/ toServer' = Append(toServer, c)
    PROVE  toServer' \in Seq(Commands)
  BY Added

(* The same for the channel to the client.                                 *)
LEMMA TakenType ==
    ASSUME toClient \in Seq(ReturnCommands),
           toClient' = toClient \/ (toClient # <<>> /\ toClient' = Tail(toClient))
    PROVE  toClient' \in Seq(ReturnCommands)
  <1>1. toClient # <<>> => Tail(toClient) \in Seq(ReturnCommands)
    BY Beheaded
  <1> QED
    BY <1>1

(* The answers still on their way were on it.                              *)
LEMMA RepliesLeft ==
    ASSUME toClient \in Seq(ReturnCommands),
           toClient' = toClient \/ (toClient # <<>> /\ toClient' = Tail(toClient))
    PROVE  \A j \in DOMAIN toClient' : \E k \in DOMAIN toClient : toClient'[j] = toClient[k]
  <1>1. toClient # <<>> =>
           \A j \in DOMAIN Tail(toClient) : j + 1 \in DOMAIN toClient /\ Tail(toClient)[j] = toClient[j + 1]
    BY Beheaded
  <1> QED
    BY <1>1

(* A step of the client that does not touch ids.                           *)
LEMMA QuietKnown ==
    ASSUME KnownTypes, KnownInv, NEW c \in Commands,
           c.cmd \notin {"CreatePipeline", "DestroyPipeline"},
           toServer' = toServer \/ toServer' = Append(toServer, c),
           toClient' = toClient \/ (toClient # <<>> /\ toClient' = Tail(toClient)),
           known' = known, knownSize' = knownSize, creating' = creating,
           callbackTasks' = callbackTasks, pipelineId' = pipelineId, held' = held,
           mFreeIds' = mFreeIds, mCurrentId' = mCurrentId,
           live' => live, mDisconnected' = mDisconnected
    PROVE  KnownInv'
  <1>0. toServer \in Seq(Commands) /\ toClient \in Seq(ReturnCommands) /\ creating \subseteq Requests
        /\ callbackTasks \in Seq(Tasks)
    BY DEF KnownTypes
  <1>1. /\ EntriesOK /\ FreeOK /\ LastOK /\ knownSize <= mCurrentId
        /\ \A j \in DOMAIN toServer : CommandOK(toServer, j, pipelineId, known)
        /\ \A j \in DOMAIN toServer : NumberOK(toServer, j, knownSize)
    BY <1>0, KnownRead
  <1>2. toServer' \in Seq(Commands)
    BY <1>0, SentType
  <1>3. \A j \in DOMAIN toClient' : \E k \in DOMAIN toClient : toClient'[j] = toClient[k]
    BY <1>0, RepliesLeft
  <1>4. EntriesOK'
    BY <1>1, <1>3 DEF EntriesOK, InTask
  <1>5. CASE toServer' = toServer
    BY <1>0, <1>1, <1>4, <1>5, KnownMade DEF FreeOK, LastOK
  <1>6. CASE toServer' = Append(toServer, c)
    <2>1. /\ \A j \in DOMAIN toServer : \A name, i : Ahead(toServer', j, name, i) <=> Ahead(toServer, j, name, i)
          /\ \A i : /\ Ahead(toServer', Len(toServer') + 1, "CreatePipeline", i) <=>
                          Ahead(toServer, Len(toServer) + 1, "CreatePipeline", i)
                    /\ Ahead(toServer', Len(toServer') + 1, "DestroyPipeline", i) <=>
                          Ahead(toServer, Len(toServer) + 1, "DestroyPipeline", i)
      BY <1>0, <1>6, AheadAdded
    <2>2. \A r : Asks(toServer, r) => Asks(toServer', r)
      BY <1>0, <1>6, AsksAdded
    <2>3. FreeOK' /\ LastOK'
      BY <1>1, <2>1 DEF FreeOK, LastOK
    <2>4. ASSUME NEW j \in DOMAIN toServer'
          PROVE  \/ j \in DOMAIN toServer /\ toServer'[j] = toServer[j]
                 \/ toServer'[j].cmd \notin {"CreatePipeline", "DestroyPipeline"}
      BY <1>0, <1>6, Added
    <2>5. ASSUME NEW j \in DOMAIN toServer'
          PROVE  CommandOK(toServer', j, pipelineId', known') /\ NumberOK(toServer', j, knownSize')
      <3>1. CASE j \in DOMAIN toServer /\ toServer'[j] = toServer[j]
        <4>1. CommandOK(toServer, j, pipelineId, known) /\ NumberOK(toServer, j, knownSize)
          BY <1>1, <3>1
        <4>2. \A name, i : Ahead(toServer', j, name, i) <=> Ahead(toServer, j, name, i)
          BY <2>1, <3>1
        <4> QED
          BY <2>2, <3>1, <4>1, <4>2 DEF CommandOK, NumberOK
      <3>2. CASE toServer'[j].cmd \notin {"CreatePipeline", "DestroyPipeline"}
        BY <3>2 DEF CommandOK, NumberOK
      <3> QED
        BY <2>4, <3>1, <3>2
    <2> QED
      BY <1>0, <1>1, <1>2, <1>4, <2>3, <2>5, KnownMade
  <1> QED
    BY <1>5, <1>6

(* A step of the server that leaves pipeline commands alone and settles    *)
(* reserved entries only.                                                  *)
LEMMA SettledKnown ==
    ASSUME KnownTypes, KnownInv, KindInv, OnceInv, OwnInv,
           NEW cmds \in Seq(ReturnCommands), toClient' = toClient \o cmds,
           \/ toServer' = toServer
           \/ /\ toServer # <<>> /\ toServer' = Tail(toServer)
              /\ toServer[1].cmd \notin {"CreatePipeline", "DestroyPipeline"},
           live' = live, mDisconnected' = mDisconnected, pipelineId' = pipelineId, held' = held,
           mFreeIds' = mFreeIds, mCurrentId' = mCurrentId, knownSize' = knownSize,
           creating' \subseteq Requests, callbackTasks' \in Seq(Tasks),
           \A i \in Ids : known'[i] = known[i] \/ known[i].state = "Reserved",
           \A r \in Requests : r \in creating' \/ InTask(r)' =>
              (r \in creating \/ InTask(r)) /\ known'[pipelineId[r]] = known[pipelineId[r]],
           \A j \in DOMAIN cmds : ReplyOK(cmds[j], pipelineId, known')
    PROVE  KnownInv'
  <1>0. toServer \in Seq(Commands) /\ toClient \in Seq(ReturnCommands) /\ creating \subseteq Requests
        /\ callbackTasks \in Seq(Tasks) /\ known \in [Ids -> Entry]
        /\ pipelineId \in [Requests -> 0..MaxRequests] /\ mFreeIds \in Seq(Ids)
    BY DEF KnownTypes
  <1>1. /\ EntriesOK /\ FreeOK /\ LastOK /\ knownSize <= mCurrentId
        /\ \A j \in DOMAIN toServer : CommandOK(toServer, j, pipelineId, known)
        /\ \A j \in DOMAIN toServer : NumberOK(toServer, j, knownSize)
    BY <1>0, KnownRead
  <1>2. toServer' \in Seq(Commands)
    <2>1. toServer # <<>> => Tail(toServer) \in Seq(Commands)
      BY <1>0, Beheaded
    <2> QED
      BY <1>0, <2>1
  <1>3. \A i \in Ids : /\ known[i].state = "Free" => known'[i].state = "Free"
                       /\ known[i].state = "Allocated" => known'[i] = known[i]
    OBVIOUS
  <1>4. ASSUME NEW r \in Requests, pipelineId[r] # 0 PROVE pipelineId[r] \in Ids
    BY <1>0, <1>4, WireDeviceBounds DEF Ids
  <1>5. EntriesOK'
    <2>1. ASSUME NEW r \in Requests, r \in creating' \/ InTask(r)'
          PROVE  known'[pipelineId[r]] = Reserve(r)
      BY <1>1, <2>1 DEF EntriesOK
    <2>2. ASSUME NEW r \in Requests, live, ~mDisconnected, held[r]
          PROVE  known'[pipelineId[r]] = Allocate(r)
      <3>1. known[pipelineId[r]] = Allocate(r) /\ pipelineId[r] # 0
        BY <1>1, <2>2 DEF EntriesOK, OwnInv
      <3> QED
        BY <1>3, <1>4, <3>1 DEF Allocate
    <2>3. ASSUME live, NEW j \in DOMAIN toClient PROVE ReplyOK(toClient[j], pipelineId, known')
      <3> SUFFICES ASSUME toClient[j].ret = "Pipeline" PROVE ReplyOK(toClient[j], pipelineId, known')
        BY DEF ReplyOK
      <3>1. PICK r \in Requests : r = toClient[j].request
        BY <1>0, Indexed, ReturnFacts DEF Telling
      <3>2. ReplyOK(toClient[j], pipelineId, known)
        BY <1>1, <2>3 DEF EntriesOK
      <3>3. IsReplied(r) /\ reqKind[r] = "Pipeline"
        BY <3>1 DEF IsReplied, Telling, KindInv
      <3>4. pipelineId[r] # 0
        BY <3>3 DEF OwnInv, Somewhere
      <3>5. pipelineId[r] \in Ids
        BY <1>4, <3>4
      <3> QED
        BY <1>3, <3>1, <3>2, <3>5 DEF ReplyOK, Allocate
    <2>4. ASSUME live, NEW j \in DOMAIN toClient' PROVE ReplyOK(toClient'[j], pipelineId, known')
      <3>1. CASE j \in DOMAIN toClient
        BY <1>0, <2>3, <2>4, <3>1, Joined
      <3>2. CASE j \notin DOMAIN toClient
        <4>1. j - Len(toClient) \in DOMAIN cmds /\ toClient'[j] = cmds[j - Len(toClient)]
          BY <1>0, <3>2, Joined
        <4> QED
          BY <4>1
      <3> QED
        BY <3>1, <3>2
    <2>5. ASSUME live, ~mDisconnected, NEW i \in Ids, i >= mCurrentId PROVE known'[i].state = "Free"
      BY <1>1, <1>3, <2>5 DEF EntriesOK
    <2> QED
      BY <2>1, <2>2, <2>4, <2>5 DEF EntriesOK
  <1>6. \A j \in DOMAIN mFreeIds : mFreeIds[j] \in Ids
    BY <1>0, Indexed
  <1>7. ASSUME NEW j \in DOMAIN toServer
        PROVE  /\ toServer[j].cmd \in {"CreatePipeline", "DestroyPipeline"} => toServer[j].id \in Ids
               /\ toServer[j].cmd = "CreatePipeline" => toServer[j].request \in Requests
    BY <1>0, Indexed, CommandFacts DEF Asking
  <1>8. ASSUME NEW j \in DOMAIN toServer PROVE CommandOK(toServer, j, pipelineId, known')
    <2>1. CommandOK(toServer, j, pipelineId, known)
      BY <1>1
    <2> QED
      BY <1>3, <1>7, <2>1 DEF CommandOK
  <1>9. CASE toServer' = toServer
    <2>1. FreeOK' /\ LastOK'
      BY <1>1, <1>3, <1>6, <1>9 DEF FreeOK, LastOK
    <2> QED
      BY <1>1, <1>2, <1>5, <1>8, <1>9, <2>1, KnownMade
  <1>10. CASE /\ toServer # <<>> /\ toServer' = Tail(toServer)
              /\ toServer[1].cmd \notin {"CreatePipeline", "DestroyPipeline"}
    <2>1. \A j \in DOMAIN toServer' :
             /\ j + 1 \in DOMAIN toServer /\ toServer'[j] = toServer[j + 1]
             /\ \A name \in {"CreatePipeline", "DestroyPipeline"} : \A i :
                   Ahead(toServer, j + 1, name, i) <=> Ahead(toServer', j, name, i)
      BY <1>0, <1>10, AheadTail
    <2>2. \A name \in {"CreatePipeline", "DestroyPipeline"} : \A i :
             Ahead(toServer, Len(toServer) + 1, name, i) <=> Ahead(toServer', Len(toServer') + 1, name, i)
      BY <1>0, <1>10, AheadTail
    <2>3. FreeOK' /\ LastOK'
      BY <1>1, <1>3, <1>6, <2>2 DEF FreeOK, LastOK
    <2>4. ASSUME NEW r \in Requests, pipelineId[r] # 0, Asks(toServer, r) PROVE Asks(toServer', r)
      <3>1. reqKind[r] = "Pipeline"
        BY <2>4 DEF OwnInv
      <3>2. AskOnce(toServer) /\ AskKind(toServer, reqKind)
        BY PlacesRead
      <3>3. ~(toServer[1].cmd \in Asking /\ toServer[1].request = r)
        <4>1. toServer[1].cmd \in Asking => reqKind[toServer[1].request] = KindOf(toServer[1].cmd)
          BY <1>0, <1>10, <3>2, AsksTail
        <4>2. toServer[1].cmd \in Asking => KindOf(toServer[1].cmd) # "Pipeline"
          BY <1>10 DEF Asking, KindOf
        <4> QED
          BY <3>1, <4>1, <4>2
      <3> QED
        BY <1>0, <1>10, <2>4, <3>2, <3>3, AsksTail
    <2>5. ASSUME NEW j \in DOMAIN toServer'
          PROVE  CommandOK(toServer', j, pipelineId', known') /\ NumberOK(toServer', j, knownSize')
      <3>1. PICK k \in DOMAIN toServer : k = j + 1
        BY <2>1
      <3>2. toServer'[j] = toServer[k] /\ \A name \in {"CreatePipeline", "DestroyPipeline"} : \A i :
                   Ahead(toServer, k, name, i) <=> Ahead(toServer', j, name, i)
        BY <2>1, <3>1
      <3>3. CommandOK(toServer, k, pipelineId, known') /\ NumberOK(toServer, k, knownSize)
        BY <1>1, <1>8
      <3>4. toServer[k].cmd = "DestroyPipeline" => \A r \in Requests : pipelineId[r] = toServer[k].id => Asks(toServer', r)
        <4> SUFFICES ASSUME toServer[k].cmd = "DestroyPipeline", NEW r \in Requests, pipelineId[r] = toServer[k].id
                     PROVE  Asks(toServer', r)
          OBVIOUS
        <4>1. toServer[k].id \in Ids /\ Asks(toServer, r)
          BY <1>7, <3>3 DEF CommandOK
        <4>2. pipelineId[r] # 0
          BY <4>1 DEF Ids
        <4> QED
          BY <2>4, <4>1, <4>2
      <3> QED
        BY <3>2, <3>3, <3>4 DEF CommandOK, NumberOK
    <2> QED
      BY <1>1, <1>2, <1>5, <2>3, <2>5, KnownMade
  <1> QED
    BY <1>9, <1>10

(* The ids of the pipelines that are asked for or held are their own.      *)
LEMMA OwnIds ==
    ASSUME KnownTypes, OwnInv, NEW r \in Requests, pipelineId[r] # 0
    PROVE  /\ pipelineId[r] \in Ids
           /\ \A q \in Requests : q # r => pipelineId[q] # pipelineId[r]
           /\ \A j \in DOMAIN mFreeIds : mFreeIds[j] # pipelineId[r]
           /\ pipelineId[r] < mCurrentId
  <1>1. pipelineId[r] \in Ids
    BY WireDeviceBounds DEF KnownTypes, Ids
  <1> QED
    BY <1>1 DEF OwnInv

(* The commands on their way, by field.                                    *)
LEMMA OnWayFacts ==
    ASSUME KnownTypes, KnownInv, KindInv, OwnInv, NEW j \in DOMAIN toServer
    PROVE  /\ toServer[j].cmd = "CreatePipeline" =>
                 /\ toServer[j].request \in Requests /\ IsSent(toServer[j].request)
                 /\ pipelineId[toServer[j].request] # 0
                 /\ toServer[j].id = pipelineId[toServer[j].request] /\ toServer[j].id \in Ids
           /\ toServer[j].cmd = "DestroyPipeline" =>
                 /\ toServer[j].id \in Ids
                 /\ \A r \in Requests : pipelineId[r] = toServer[j].id => IsSent(r)
  <1>0. toServer \in Seq(Commands) /\ creating \subseteq Requests /\ callbackTasks \in Seq(Tasks)
    BY DEF KnownTypes
  <1>1. CommandOK(toServer, j, pipelineId, known)
    BY <1>0, KnownRead
  <1>2. toServer[j] \in Commands
    BY <1>0, Indexed
  <1>3. toServer[j].cmd = "CreatePipeline" =>
           toServer[j].request \in Requests /\ IsSent(toServer[j].request) /\ toServer[j].id \in Ids
    BY <1>2, CommandFacts DEF IsSent, Asking
  <1>4. toServer[j].cmd = "CreatePipeline" => toServer[j].id = pipelineId[toServer[j].request]
    BY <1>1 DEF CommandOK
  <1>5. toServer[j].cmd = "CreatePipeline" => toServer[j].id # 0
    BY <1>3 DEF Ids
  <1>6. toServer[j].cmd = "DestroyPipeline" =>
                 /\ toServer[j].id \in Ids
                 /\ \A r \in Requests : pipelineId[r] = toServer[j].id => IsSent(r)
    BY <1>1, <1>2, CommandFacts, PlacesRead DEF CommandOK
  <1> QED
    BY <1>3, <1>4, <1>5, <1>6

(* What a pipeline command is handled with.                                *)
LEMMA PipelineHeads ==
    ASSUME KnownTypes, KnownInv, KindInv, OwnInv, toServer # <<>>
    PROVE  /\ toServer[1].cmd = "CreatePipeline" =>
                 known[toServer[1].id].state = "Free" /\ toServer[1].id <= knownSize
           /\ toServer[1].cmd = "DestroyPipeline" => known[toServer[1].id].state = "Allocated"
  <1>0. /\ toServer \in Seq(Commands) /\ creating \subseteq Requests /\ callbackTasks \in Seq(Tasks)
        /\ knownSize \in 1..(MaxRequests + 1)
    BY DEF KnownTypes
  <1>1. 1 \in DOMAIN toServer /\ \A name, i : ~Ahead(toServer, 1, name, i)
    BY <1>0, Beheaded, AheadTail
  <1>2. CommandOK(toServer, 1, pipelineId, known) /\ NumberOK(toServer, 1, knownSize)
    BY <1>0, <1>1, KnownRead
  <1>3. ASSUME toServer[1].cmd = "CreatePipeline" PROVE toServer[1].id <= knownSize
    <2>1. toServer[1].id \in Ids
      BY <1>1, <1>3, OnWayFacts
    <2>2. \A i \in knownSize..(toServer[1].id - 1) : FALSE
      BY <1>1, <1>2, <1>3 DEF NumberOK
    <2>3. toServer[1].id \in Nat /\ knownSize \in Nat
      BY <1>0, <2>1, WireDeviceBounds DEF Ids
    <2> QED
      BY <2>2, <2>3
  <1> QED
    BY <1>1, <1>2, <1>3 DEF CommandOK

(* The entry of i changes, and is reserved if r is left to a worker.       *)
Reserves(r, i) ==
    /\ knownSize' = IF i = knownSize THEN knownSize + 1 ELSE knownSize
    /\ \A q \in Ids : q # i => known'[q] = known[q]
    /\ \A q \in Requests : q \in creating' =>
          q \in creating \/ (q = r /\ known'[i] = Reserve(r))

(* The server creates a pipeline.                                          *)
LEMMA CreatedKnown ==
    ASSUME KnownTypes, KnownInv, KindInv, OnceInv, OwnInv,
           toServer # <<>>, toServer' = Tail(toServer), toServer[1].cmd = "CreatePipeline",
           NEW r \in Requests, r = toServer[1].request, NEW i \in Ids, i = toServer[1].id,
           NEW cmds \in Seq(ReturnCommands), toClient' = toClient \o cmds,
           live' = live, mDisconnected' = mDisconnected, pipelineId' = pipelineId, held' = held,
           mFreeIds' = mFreeIds, mCurrentId' = mCurrentId,
           creating' \subseteq Requests, callbackTasks' = callbackTasks, Reserves(r, i),
           \A j \in DOMAIN cmds : ReplyOK(cmds[j], pipelineId, known')
    PROVE  KnownInv'
  <1>. /\ knownSize' = IF i = knownSize THEN knownSize + 1 ELSE knownSize
       /\ \A q \in Ids : q # i => known'[q] = known[q]
       /\ \A q \in Requests : q \in creating' =>
             q \in creating \/ (q = r /\ known'[i] = Reserve(r))
    BY DEF Reserves
  <1>0. toServer \in Seq(Commands) /\ toClient \in Seq(ReturnCommands) /\ creating \subseteq Requests
        /\ callbackTasks \in Seq(Tasks) /\ known \in [Ids -> Entry]
        /\ pipelineId \in [Requests -> 0..MaxRequests] /\ mFreeIds \in Seq(Ids)
        /\ knownSize \in 1..(MaxRequests + 1) /\ mCurrentId \in 1..(MaxRequests + 1)
    BY DEF KnownTypes
  <1>1. /\ EntriesOK /\ FreeOK /\ LastOK /\ knownSize <= mCurrentId
        /\ \A j \in DOMAIN toServer : CommandOK(toServer, j, pipelineId, known)
        /\ \A j \in DOMAIN toServer : NumberOK(toServer, j, knownSize)
    BY <1>0, KnownRead
  <1>2. toServer' \in Seq(Commands) /\ 1 \in DOMAIN toServer
    BY <1>0, Beheaded
  <1>3. i = pipelineId[r] /\ pipelineId[r] # 0 /\ IsSent(r)
    BY <1>2, OnWayFacts
  <1>4. /\ \A q \in Requests : q # r => pipelineId[q] # i
        /\ \A j \in DOMAIN mFreeIds : mFreeIds[j] # i
        /\ i < mCurrentId
    BY <1>3, OwnIds
  <1>5. i <= knownSize /\ known[i].state = "Free"
    BY PipelineHeads
  <1>6. ASSUME NEW q \in Requests, q # r, pipelineId[q] # 0 PROVE known'[pipelineId[q]] = known[pipelineId[q]]
    BY <1>4, <1>6, OwnIds
  <1>7. ~Inside(r) /\ ~IsReplied(r)
    BY <1>3, OnceRead
  <1>8. EntriesOK'
    <2>1. ASSUME NEW q \in Requests, q \in creating' \/ InTask(q)'
          PROVE  known'[pipelineId[q]] = Reserve(q)
      <3>1. InTask(q)' <=> InTask(q)
        BY DEF InTask
      <3>2. CASE q \in creating \/ InTask(q)
        <4>1. q # r
          BY <1>7, <3>2 DEF Inside
        <4>2. reqKind[q] = "Pipeline" /\ Somewhere(q)
          BY <3>2 DEF KindInv, Somewhere
        <4>3. pipelineId[q] # 0
          BY <4>2 DEF OwnInv
        <4>4. known[pipelineId[q]] = Reserve(q)
          BY <1>1, <3>2 DEF EntriesOK
        <4> QED
          BY <1>6, <4>1, <4>3, <4>4
      <3>3. CASE q = r /\ known'[i] = Reserve(r)
        BY <1>3, <3>3
      <3> QED
        BY <2>1, <3>1, <3>2, <3>3
    <2>2. ASSUME NEW q \in Requests, live, ~mDisconnected, held[q]
          PROVE  known'[pipelineId[q]] = Allocate(q)
      <3>1. known[pipelineId[q]] = Allocate(q) /\ pipelineId[q] # 0 /\ ~Somewhere(q)
        BY <1>1, <2>2 DEF EntriesOK, OwnInv
      <3>2. q # r
        BY <1>3, <3>1 DEF Somewhere
      <3> QED
        BY <1>6, <3>1, <3>2
    <2>3. ASSUME live, NEW j \in DOMAIN toClient PROVE ReplyOK(toClient[j], pipelineId, known')
      <3> SUFFICES ASSUME toClient[j].ret = "Pipeline" PROVE ReplyOK(toClient[j], pipelineId, known')
        BY DEF ReplyOK
      <3>1. PICK q \in Requests : q = toClient[j].request
        BY <1>0, Indexed, ReturnFacts DEF Telling
      <3>2. ReplyOK(toClient[j], pipelineId, known)
        BY <1>1, <2>3 DEF EntriesOK
      <3>3. IsReplied(q) /\ reqKind[q] = "Pipeline"
        BY <3>1 DEF IsReplied, Telling, KindInv
      <3>4. pipelineId[q] # 0 /\ q # r
        BY <1>7, <3>3 DEF OwnInv, Somewhere
      <3>5. known'[pipelineId[q]] = known[pipelineId[q]]
        BY <1>6, <3>4
      <3> QED
        BY <3>1, <3>2, <3>5 DEF ReplyOK
    <2>4. ASSUME live, NEW j \in DOMAIN toClient' PROVE ReplyOK(toClient'[j], pipelineId, known')
      <3>1. CASE j \in DOMAIN toClient
        BY <1>0, <2>3, <2>4, <3>1, Joined
      <3>2. CASE j \notin DOMAIN toClient
        <4>1. j - Len(toClient) \in DOMAIN cmds /\ toClient'[j] = cmds[j - Len(toClient)]
          BY <1>0, <3>2, Joined
        <4> QED
          BY <4>1
      <3> QED
        BY <3>1, <3>2
    <2>5. ASSUME live, ~mDisconnected, NEW q \in Ids, q >= mCurrentId PROVE known'[q].state = "Free"
      <3>1. known[q].state = "Free"
        BY <1>1, <2>5 DEF EntriesOK
      <3>2. q # i
        <4>1. q \in Nat /\ i \in Nat /\ mCurrentId \in Nat
          BY <1>0, WireDeviceBounds DEF Ids
        <4> QED
          BY <1>4, <2>5, <4>1
      <3> QED
        BY <3>1, <3>2
    <2> QED
      BY <2>1, <2>2, <2>4, <2>5 DEF EntriesOK
  <1>9. /\ \A j \in DOMAIN toServer' :
             /\ j + 1 \in DOMAIN toServer /\ toServer'[j] = toServer[j + 1]
             /\ \A q : Ahead(toServer, j + 1, "DestroyPipeline", q) <=> Ahead(toServer', j, "DestroyPipeline", q)
             /\ \A q : q # i => (Ahead(toServer, j + 1, "CreatePipeline", q) <=> Ahead(toServer', j, "CreatePipeline", q))
        /\ \A q : Ahead(toServer, Len(toServer) + 1, "DestroyPipeline", q) <=>
                  Ahead(toServer', Len(toServer') + 1, "DestroyPipeline", q)
        /\ \A q : q # i => (Ahead(toServer, Len(toServer) + 1, "CreatePipeline", q) <=>
                            Ahead(toServer', Len(toServer') + 1, "CreatePipeline", q))
    BY <1>0, AheadTail
  <1>10. ASSUME NEW j \in DOMAIN toServer' PROVE Ahead(toServer', j, "CreatePipeline", i) => Ahead(toServer, j + 1, "CreatePipeline", i)
    BY <1>0, AheadTail
  <1>11. FreeOK'
    <2>1. \A j \in DOMAIN mFreeIds : mFreeIds[j] \in Ids /\ mFreeIds[j] # i
      BY <1>0, <1>4, Indexed
    <2> QED
      BY <1>1, <1>9, <2>1 DEF FreeOK
  <1>12. knownSize' \in Nat /\ knownSize' <= mCurrentId /\ \A n : \A q \in knownSize'..n : q \in knownSize..n /\ q # i
    <2>1. knownSize \in Nat /\ i \in Nat /\ mCurrentId \in Nat
      BY <1>0, WireDeviceBounds DEF Ids
    <2>2. CASE i = knownSize
      BY <1>4, <2>1, <2>2
    <2>3. CASE i # knownSize
      BY <1>1, <1>5, <2>1, <2>3
    <2> QED
      BY <2>2, <2>3
  <1>13. LastOK'
    BY <1>1, <1>9, <1>12 DEF LastOK
  <1>14. ASSUME NEW q \in Requests, q # r, Asks(toServer, q) PROVE Asks(toServer', q)
    <2>1. AskOnce(toServer)
      BY PlacesRead
    <2> QED
      BY <1>0, <1>14, <2>1, AsksTail
  <1>15. ASSUME NEW j \in DOMAIN toServer'
         PROVE  CommandOK(toServer', j, pipelineId', known') /\ NumberOK(toServer', j, knownSize')
    <2>1. PICK k \in DOMAIN toServer : k = j + 1
      BY <1>9
    <2>2. /\ toServer'[j] = toServer[k]
          /\ \A q : Ahead(toServer, k, "DestroyPipeline", q) <=> Ahead(toServer', j, "DestroyPipeline", q)
          /\ \A q : q # i => (Ahead(toServer, k, "CreatePipeline", q) <=> Ahead(toServer', j, "CreatePipeline", q))
          /\ Ahead(toServer', j, "CreatePipeline", i) => Ahead(toServer, k, "CreatePipeline", i)
      BY <1>9, <1>10, <2>1
    <2>3. CommandOK(toServer, k, pipelineId, known) /\ NumberOK(toServer, k, knownSize)
      BY <1>1
    <2>4. CASE toServer[k].cmd = "CreatePipeline"
      <3>1. /\ toServer[k].request \in Requests /\ toServer[k].id = pipelineId[toServer[k].request]
            /\ toServer[k].id \in Ids
        BY <2>4, OnWayFacts
      <3>2. toServer[k].request # r
        <4>1. k # 1
          <5>1. j \in DOMAIN Tail(toServer)
            OBVIOUS
          <5>2. j \in Nat /\ j >= 1
            BY <1>0, <5>1, Beheaded
          <5> QED
            BY <2>1, <5>2
        <4> QED
          BY <1>2, <2>4, <4>1 DEF OnceInv, Asking
      <3>3. toServer[k].id # i
        BY <1>4, <3>1, <3>2
      <3>4. CommandOK(toServer', j, pipelineId', known')
        BY <2>2, <2>3, <2>4, <3>1, <3>3 DEF CommandOK
      <3>5. NumberOK(toServer', j, knownSize')
        BY <1>12, <2>2, <2>3, <2>4 DEF NumberOK
      <3> QED
        BY <3>4, <3>5
    <2>5. CASE toServer[k].cmd = "DestroyPipeline"
      <3>1. toServer[k].id \in Ids /\ known[toServer[k].id].state = "Allocated"
        BY <2>3, <2>5, OnWayFacts DEF CommandOK
      <3>2. toServer[k].id # i
        BY <1>5, <3>1
      <3>3. \A q \in Requests : pipelineId[q] = toServer[k].id => Asks(toServer', q)
        BY <1>3, <1>14, <2>3, <2>5, <3>2 DEF CommandOK
      <3> QED
        BY <2>2, <2>3, <2>5, <3>1, <3>2, <3>3 DEF CommandOK, NumberOK
    <2>6. CASE toServer[k].cmd \notin {"CreatePipeline", "DestroyPipeline"}
      BY <2>2, <2>6 DEF CommandOK, NumberOK
    <2> QED
      BY <2>4, <2>5, <2>6
  <1> QED
    BY <1>0, <1>2, <1>8, <1>11, <1>12, <1>13, <1>15, KnownMade

(* The server destroys a pipeline.                                         *)
LEMMA DestroyedKnown ==
    ASSUME KnownTypes, KnownInv, KindInv, OnceInv, OwnInv,
           toServer # <<>>, toServer' = Tail(toServer), toServer[1].cmd = "DestroyPipeline",
           NEW i \in Ids, i = toServer[1].id, toClient' = toClient,
           live' = live, mDisconnected' = mDisconnected, pipelineId' = pipelineId, held' = held,
           mFreeIds' = mFreeIds, mCurrentId' = mCurrentId, knownSize' = knownSize,
           creating' = creating, callbackTasks' = callbackTasks,
           \A q \in Ids : q # i => known'[q] = known[q], known'[i] = NoEntry
    PROVE  KnownInv'
  <1>0. toServer \in Seq(Commands) /\ toClient \in Seq(ReturnCommands) /\ creating \subseteq Requests
        /\ callbackTasks \in Seq(Tasks) /\ known \in [Ids -> Entry]
        /\ pipelineId \in [Requests -> 0..MaxRequests] /\ mFreeIds \in Seq(Ids)
    BY DEF KnownTypes
  <1>1. /\ EntriesOK /\ FreeOK /\ LastOK /\ knownSize <= mCurrentId
        /\ \A j \in DOMAIN toServer : CommandOK(toServer, j, pipelineId, known)
        /\ \A j \in DOMAIN toServer : NumberOK(toServer, j, knownSize)
    BY <1>0, KnownRead
  <1>2. toServer' \in Seq(Commands) /\ 1 \in DOMAIN toServer
    BY <1>0, Beheaded
  <1>3. known[i].state = "Allocated" /\ \A r \in Requests : pipelineId[r] = i => IsSent(r)
    BY <1>2, OnWayFacts, PipelineHeads
  <1>4. known'[i].state = "Free"
    BY DEF NoEntry
  <1>5. ASSUME NEW q \in Requests, pipelineId[q] # 0, ~IsSent(q) PROVE known'[pipelineId[q]] = known[pipelineId[q]]
    BY <1>3, <1>5, OwnIds
  <1>6. EntriesOK'
    <2>1. ASSUME NEW q \in Requests, q \in creating' \/ InTask(q)'
          PROVE  known'[pipelineId[q]] = Reserve(q)
      <3>1. q \in creating \/ InTask(q)
        BY <2>1 DEF InTask
      <3>2. reqKind[q] = "Pipeline" /\ Somewhere(q) /\ ~IsSent(q)
        BY <3>1, OnceRead DEF KindInv, Somewhere, Inside
      <3>3. pipelineId[q] # 0
        BY <3>2 DEF OwnInv
      <3>4. known[pipelineId[q]] = Reserve(q)
        BY <1>1, <3>1 DEF EntriesOK
      <3> QED
        BY <1>5, <3>2, <3>3, <3>4
    <2>2. ASSUME NEW q \in Requests, live, ~mDisconnected, held[q]
          PROVE  known'[pipelineId[q]] = Allocate(q)
      <3>1. known[pipelineId[q]] = Allocate(q) /\ pipelineId[q] # 0 /\ ~Somewhere(q)
        BY <1>1, <2>2 DEF EntriesOK, OwnInv
      <3> QED
        BY <1>5, <3>1 DEF Somewhere
    <2>3. ASSUME live, NEW j \in DOMAIN toClient PROVE ReplyOK(toClient[j], pipelineId, known')
      <3> SUFFICES ASSUME toClient[j].ret = "Pipeline" PROVE ReplyOK(toClient[j], pipelineId, known')
        BY DEF ReplyOK
      <3>1. PICK q \in Requests : q = toClient[j].request
        BY <1>0, Indexed, ReturnFacts DEF Telling
      <3>2. ReplyOK(toClient[j], pipelineId, known)
        BY <1>1, <2>3 DEF EntriesOK
      <3>3. IsReplied(q) /\ reqKind[q] = "Pipeline"
        BY <3>1 DEF IsReplied, Telling, KindInv
      <3>4. pipelineId[q] # 0 /\ ~IsSent(q)
        BY <3>3, OnceRead DEF OwnInv, Somewhere
      <3>5. known'[pipelineId[q]] = known[pipelineId[q]]
        BY <1>5, <3>4
      <3> QED
        BY <3>1, <3>2, <3>5 DEF ReplyOK
    <2>4. ASSUME live, ~mDisconnected, NEW q \in Ids, q >= mCurrentId PROVE known'[q].state = "Free"
      BY <1>1, <1>4, <2>4 DEF EntriesOK
    <2> QED
      BY <2>1, <2>2, <2>3, <2>4 DEF EntriesOK
  <1>7. /\ \A j \in DOMAIN toServer' :
             /\ j + 1 \in DOMAIN toServer /\ toServer'[j] = toServer[j + 1]
             /\ \A q : Ahead(toServer, j + 1, "DestroyPipeline", q) <=> Ahead(toServer', j, "DestroyPipeline", q) \/ q = i
             /\ \A q : Ahead(toServer, j + 1, "CreatePipeline", q) <=> Ahead(toServer', j, "CreatePipeline", q)
        /\ \A q : Ahead(toServer, Len(toServer) + 1, "DestroyPipeline", q) <=>
                  Ahead(toServer', Len(toServer') + 1, "DestroyPipeline", q) \/ q = i
        /\ \A q : Ahead(toServer, Len(toServer) + 1, "CreatePipeline", q) <=>
                  Ahead(toServer', Len(toServer') + 1, "CreatePipeline", q)
    BY <1>0, AheadTail
  <1>8. FreeOK'
    <2>1. \A j \in DOMAIN mFreeIds : mFreeIds[j] \in Ids
      BY <1>0, Indexed
    <2> QED
      BY <1>1, <1>4, <1>7, <2>1 DEF FreeOK
  <1>9. LastOK'
    BY <1>1, <1>7 DEF LastOK
  <1>10. ASSUME NEW q \in Requests, Asks(toServer, q) PROVE Asks(toServer', q)
    <2>1. AskOnce(toServer)
      BY PlacesRead
    <2>2. toServer[1].cmd \notin Asking
      BY DEF Asking
    <2> QED
      BY <1>0, <1>10, <2>1, <2>2, AsksTail
  <1>11. ASSUME NEW j \in DOMAIN toServer'
         PROVE  CommandOK(toServer', j, pipelineId', known') /\ NumberOK(toServer', j, knownSize')
    <2>1. PICK k \in DOMAIN toServer : k = j + 1
      BY <1>7
    <2>2. /\ toServer'[j] = toServer[k]
          /\ \A q : Ahead(toServer, k, "DestroyPipeline", q) <=> Ahead(toServer', j, "DestroyPipeline", q) \/ q = i
          /\ \A q : Ahead(toServer, k, "CreatePipeline", q) <=> Ahead(toServer', j, "CreatePipeline", q)
      BY <1>7, <2>1
    <2>3. CommandOK(toServer, k, pipelineId, known) /\ NumberOK(toServer, k, knownSize)
      BY <1>1
    <2>4. /\ toServer[k].cmd \in {"CreatePipeline", "DestroyPipeline"} => toServer[k].id \in Ids
      BY OnWayFacts
    <2>5. CommandOK(toServer', j, pipelineId', known')
      <3>1. CASE toServer[k].cmd = "CreatePipeline"
        BY <1>4, <2>2, <2>3, <2>4, <3>1 DEF CommandOK
      <3>2. CASE toServer[k].cmd = "DestroyPipeline"
        BY <1>10, <2>2, <2>3, <2>4, <3>2 DEF CommandOK
      <3> QED
        BY <2>2, <3>1, <3>2 DEF CommandOK
    <2>6. NumberOK(toServer', j, knownSize')
      BY <2>2, <2>3 DEF NumberOK
    <2> QED
      BY <2>5, <2>6
  <1> QED
    BY <1>0, <1>1, <1>2, <1>6, <1>8, <1>9, <1>11, KnownMade

(* Nothing is on its way to the server and the device is released, or the  *)
(* client is disconnected.                                                 *)
LEMMA SilentKnown ==
    ASSUME KnownTypes, KnownInv, toServer' = <<>>, ~live' \/ mDisconnected',
           ~live' \/ toClient' = <<>>, knownSize' = knownSize, mCurrentId' = mCurrentId,
           pipelineId' = pipelineId,
           \/ creating' = {} /\ callbackTasks' = <<>>
           \/ /\ creating' = creating /\ callbackTasks' = callbackTasks
              /\ \A r \in Requests : r \in creating \/ InTask(r) =>
                    known'[pipelineId[r]] = known[pipelineId[r]]
    PROVE  KnownInv'
  <1>0. toServer \in Seq(Commands) /\ creating \subseteq Requests /\ callbackTasks \in Seq(Tasks)
    BY DEF KnownTypes
  <1>1. /\ EntriesOK /\ FreeOK /\ LastOK /\ knownSize <= mCurrentId
        /\ \A j \in DOMAIN toServer : CommandOK(toServer, j, pipelineId, known)
        /\ \A j \in DOMAIN toServer : NumberOK(toServer, j, knownSize)
    BY <1>0, KnownRead
  <1>2. toServer' \in Seq(Commands) /\ DOMAIN toServer' = {} /\ callbackTasks' \in Seq(Tasks)
        /\ creating' \subseteq Requests
    BY <1>0, Nothing
  <1>3. \A r \in Requests : (r \in creating' \/ InTask(r)') =>
           (r \in creating \/ InTask(r)) /\ known'[pipelineId[r]] = known[pipelineId[r]]
    BY Nothing DEF InTask
  <1>4. live' => DOMAIN toClient' = {}
    BY Nothing
  <1>5. EntriesOK'
    BY <1>1, <1>3, <1>4 DEF EntriesOK
  <1>6. FreeOK' /\ LastOK'
    BY DEF FreeOK, LastOK
  <1> QED
    BY <1>1, <1>2, <1>5, <1>6, KnownMade

(* The id a new pipeline gets.                                             *)
NewId == IF mFreeIds = <<>> THEN mCurrentId ELSE Last(mFreeIds)

(* It is nobody's, and free on the server by the time the server reads it. *)
LEMMA NewIdFacts ==
    ASSUME KnownTypes, OwnInv, KnownInv, live, ~mDisconnected, NEW r \in Requests, answer[r] = "None"
    PROVE  /\ NewId \in Ids /\ NewId <= mCurrentId
           /\ \A q \in Requests : pipelineId[q] # NewId
           /\ mFreeIds # <<>> => NewId < mCurrentId
           /\ \/ known[NewId].state = "Free"
              \/ Ahead(toServer, Len(toServer) + 1, "DestroyPipeline", NewId)
           /\ mFreeIds # <<>> =>
                 /\ Front(mFreeIds) \in Seq(Ids)
                 /\ \A j \in DOMAIN Front(mFreeIds) : j \in DOMAIN mFreeIds
                       /\ Front(mFreeIds)[j] = mFreeIds[j] /\ mFreeIds[j] # NewId
  <1>0. /\ toServer \in Seq(Commands) /\ creating \subseteq Requests /\ callbackTasks \in Seq(Tasks)
        /\ mFreeIds \in Seq(Ids) /\ mCurrentId \in 1..(MaxRequests + 1)
        /\ pipelineId \in [Requests -> 0..MaxRequests]
    BY DEF KnownTypes
  <1>1. EntriesOK /\ FreeOK
    BY <1>0, KnownRead
  <1>2. mCurrentId \in Nat /\ r \in Nat /\ \A q \in Requests : pipelineId[q] \in Nat
    BY <1>0, WireDeviceBounds DEF Requests
  <1>3. CASE mFreeIds = <<>>
    <2>1. NewId = mCurrentId
      BY <1>3 DEF NewId
    <2>2. mCurrentId <= r
      BY DEF OwnInv
    <2>3. mCurrentId \in Ids
      BY <1>0, <1>2, <2>2, WireDeviceBounds DEF Requests, Ids
    <2>4. \A q \in Requests : pipelineId[q] < mCurrentId
      BY DEF OwnInv
    <2>5. \A q \in Requests : pipelineId[q] # mCurrentId
      BY <1>2, <2>4
    <2>6. known[mCurrentId].state = "Free"
      BY <1>1, <1>2, <2>3 DEF EntriesOK
    <2> QED
      BY <1>2, <1>3, <2>1, <2>3, <2>5, <2>6
  <1>4. CASE mFreeIds # <<>>
    <2>1. PICK n \in DOMAIN mFreeIds : n = Len(mFreeIds)
      BY <1>0, <1>4, Cut
    <2>2. NewId = mFreeIds[n] /\ NewId \in Ids
      BY <1>0, <1>4, <2>1, Cut DEF NewId
    <2>3. NewId < mCurrentId /\ \A q \in Requests : pipelineId[q] # NewId
      BY <2>2 DEF OwnInv
    <2>4. \/ known[NewId].state = "Free"
          \/ Ahead(toServer, Len(toServer) + 1, "DestroyPipeline", NewId)
      BY <1>1, <2>2 DEF FreeOK
    <2>5. /\ Front(mFreeIds) \in Seq(Ids)
          /\ \A j \in DOMAIN Front(mFreeIds) : j \in DOMAIN mFreeIds /\ j # n
                       /\ Front(mFreeIds)[j] = mFreeIds[j]
      BY <1>0, <1>4, <2>1, Cut
    <2>6. \A j \in DOMAIN mFreeIds : j # n => mFreeIds[j] # NewId
      BY <2>1, <2>2 DEF OwnInv
    <2>7. NewId \in Nat
      BY <2>2, WireDeviceBounds DEF Ids
    <2> QED
      BY <1>2, <2>2, <2>3, <2>4, <2>5, <2>6, <2>7
  <1> QED
    BY <1>3, <1>4

(* The client asks for a pipeline.                                         *)
LEMMA AskedKnown ==
    ASSUME KnownTypes, KnownInv, KindInv, OnceInv, WaitInv, OwnInv, live, ~mDisconnected,
           NEW r \in Requests, answer[r] = "None", NEW i, i = NewId,
           NEW c \in Commands, c.cmd = "CreatePipeline", c.request = r, c.id = i,
           toServer' = Append(toServer, c), toClient' = toClient,
           pipelineId' = [pipelineId EXCEPT ![r] = i],
           mFreeIds' = IF mFreeIds = <<>> THEN mFreeIds ELSE Front(mFreeIds),
           mCurrentId' = IF mFreeIds = <<>> THEN mCurrentId + 1 ELSE mCurrentId, held' = held,
           live' = live, mDisconnected' = mDisconnected, known' = known, knownSize' = knownSize,
           creating' = creating, callbackTasks' = callbackTasks
    PROVE  KnownInv'
  <1>0. /\ toServer \in Seq(Commands) /\ toClient \in Seq(ReturnCommands) /\ creating \subseteq Requests
        /\ callbackTasks \in Seq(Tasks) /\ pipelineId \in [Requests -> 0..MaxRequests]
        /\ mFreeIds \in Seq(Ids) /\ mCurrentId \in Nat /\ knownSize \in Nat
    BY WireDeviceBounds DEF KnownTypes
  <1>1. /\ EntriesOK /\ FreeOK /\ LastOK /\ knownSize <= mCurrentId
        /\ \A j \in DOMAIN toServer : CommandOK(toServer, j, pipelineId, known)
        /\ \A j \in DOMAIN toServer : NumberOK(toServer, j, knownSize)
    BY <1>0, KnownRead
  <1>2. toServer' \in Seq(Commands)
    BY <1>0, Added
  <1>3. /\ i \in Ids /\ i <= mCurrentId /\ (known[i].state = "Free" \/ Ahead(toServer, Len(toServer) + 1, "DestroyPipeline", i))
    BY NewIdFacts
  <1>4. \A q \in Requests : q # r => pipelineId'[q] = pipelineId[q]
    BY <1>0
  <1>5. pipelineId'[r] = i
    BY <1>0
  <1>6. ~Somewhere(r) /\ ~held[r]
    BY DEF WaitInv, OwnInv
  <1>7. mCurrentId' \in Nat /\ mCurrentId' >= mCurrentId /\ i \in Nat
    BY <1>0, <1>3, WireDeviceBounds DEF Ids
  <1>8. EntriesOK'
    <2>1. ASSUME NEW q \in Requests, q \in creating' \/ InTask(q)'
          PROVE  known'[pipelineId'[q]] = Reserve(q)
      <3>1. q \in creating \/ InTask(q)
        BY <2>1 DEF InTask
      <3>2. q # r
        BY <1>6, <3>1 DEF Somewhere
      <3> QED
        BY <1>1, <1>4, <3>1, <3>2 DEF EntriesOK
    <2>2. ASSUME NEW q \in Requests, live, ~mDisconnected, held[q]
          PROVE  known'[pipelineId'[q]] = Allocate(q)
      <3>1. q # r
        BY <1>6, <2>2
      <3> QED
        BY <1>1, <1>4, <2>2, <3>1 DEF EntriesOK
    <2>3. ASSUME live, NEW j \in DOMAIN toClient PROVE ReplyOK(toClient[j], pipelineId', known')
      <3> SUFFICES ASSUME toClient[j].ret = "Pipeline" PROVE ReplyOK(toClient[j], pipelineId', known')
        BY DEF ReplyOK
      <3>1. PICK q \in Requests : q = toClient[j].request
        BY <1>0, Indexed, ReturnFacts DEF Telling
      <3>2. ReplyOK(toClient[j], pipelineId, known)
        BY <1>1, <2>3 DEF EntriesOK
      <3>3. IsReplied(q)
        BY <3>1 DEF IsReplied, Telling
      <3>4. q # r
        BY <1>6, <3>3 DEF Somewhere
      <3>5. pipelineId'[q] = pipelineId[q]
        BY <1>4, <3>4
      <3> QED
        BY <3>1, <3>2, <3>5 DEF ReplyOK
    <2>4. ASSUME live, ~mDisconnected, NEW q \in Ids, q >= mCurrentId' PROVE known'[q].state = "Free"
      <3>1. q \in Nat
        BY WireDeviceBounds DEF Ids
      <3>2. q >= mCurrentId
        BY <1>0, <1>7, <2>4, <3>1
      <3> QED
        BY <1>1, <2>4, <3>2 DEF EntriesOK
    <2> QED
      BY <2>1, <2>2, <2>3, <2>4 DEF EntriesOK
  <1>9. /\ \A j \in DOMAIN toServer : \A name, q : Ahead(toServer', j, name, q) <=> Ahead(toServer, j, name, q)
        /\ \A name, q : Ahead(toServer', Len(toServer) + 1, name, q) <=> Ahead(toServer, Len(toServer) + 1, name, q)
        /\ \A name, q : Ahead(toServer', Len(toServer') + 1, name, q) <=>
                    Ahead(toServer, Len(toServer) + 1, name, q) \/ (c.cmd = name /\ c.id = q)
    BY <1>0, AheadAdded
  <1>10. FreeOK'
    <2>1. \A j \in DOMAIN mFreeIds' : j \in DOMAIN mFreeIds /\ mFreeIds'[j] = mFreeIds[j]
      BY NewIdFacts
    <2> QED
      BY <1>1, <1>9, <2>1 DEF FreeOK
  <1>11. LastOK'
    <2> SUFFICES ASSUME NEW q \in knownSize..(mCurrentId' - 1)
                 PROVE  Ahead(toServer', Len(toServer') + 1, "CreatePipeline", q)
      BY DEF LastOK
    <2>1. CASE q \in knownSize..(mCurrentId - 1)
      BY <1>1, <1>9, <2>1 DEF LastOK
    <2>2. CASE q \notin knownSize..(mCurrentId - 1)
      <3>1. q = mCurrentId /\ mFreeIds = <<>>
        BY <1>0, <2>2
      <3>2. q = i
        BY <3>1 DEF NewId
      <3> QED
        BY <1>9, <3>2
    <2> QED
      BY <2>1, <2>2
  <1>12. knownSize' <= mCurrentId'
    BY <1>0, <1>1, <1>7
  <1>13. \A q : Asks(toServer, q) \/ q = r => Asks(toServer', q)
    BY <1>0, AsksAdded DEF Asking
  <1>14. ASSUME NEW j \in DOMAIN toServer
         PROVE  CommandOK(toServer', j, pipelineId', known') /\ NumberOK(toServer', j, knownSize')
    <2>1. toServer'[j] = toServer[j]
      BY <1>0, Added
    <2>2. CommandOK(toServer, j, pipelineId, known) /\ NumberOK(toServer, j, knownSize)
      BY <1>1
    <2>3. \A name, q : Ahead(toServer', j, name, q) <=> Ahead(toServer, j, name, q)
      BY <1>9
    <2>4. toServer[j].cmd = "CreatePipeline" => pipelineId'[toServer[j].request] = pipelineId[toServer[j].request]
      <3> SUFFICES ASSUME toServer[j].cmd = "CreatePipeline"
                   PROVE  pipelineId'[toServer[j].request] = pipelineId[toServer[j].request]
        OBVIOUS
      <3>1. PICK q \in Requests : q = toServer[j].request
        BY OnWayFacts
      <3>2. IsSent(q)
        BY <3>1 DEF IsSent, Asking
      <3>3. q # r
        BY <1>6, <3>2 DEF Somewhere
      <3> QED
        BY <1>4, <3>1, <3>3
    <2>5. toServer[j].cmd = "DestroyPipeline" =>
             \A q \in Requests : pipelineId'[q] = toServer[j].id => Asks(toServer', q)
      BY <1>4, <1>13, <2>2 DEF CommandOK
    <2>6. CommandOK(toServer', j, pipelineId', known')
      BY <2>1, <2>2, <2>3, <2>4, <2>5 DEF CommandOK
    <2>7. NumberOK(toServer', j, knownSize')
      BY <2>1, <2>2, <2>3 DEF NumberOK
    <2> QED
      BY <2>6, <2>7
  <1>15. PICK n : n = Len(toServer) + 1
    OBVIOUS
  <1>16. CommandOK(toServer', n, pipelineId', known') /\ NumberOK(toServer', n, knownSize')
    <2>1. toServer'[n] = c
      BY <1>0, <1>15, Added
    <2>2. \A name, q : Ahead(toServer', n, name, q) <=> Ahead(toServer, n, name, q)
      BY <1>9, <1>15
    <2>3. CommandOK(toServer', n, pipelineId', known')
      BY <1>3, <1>5, <1>15, <2>1, <2>2 DEF CommandOK
    <2>4. \A q \in knownSize..(i - 1) : Ahead(toServer, n, "CreatePipeline", q)
      <3>1. \A q \in knownSize..(i - 1) : q \in knownSize..(mCurrentId - 1)
        BY <1>0, <1>3, <1>7
      <3> QED
        BY <1>1, <1>15, <3>1 DEF LastOK
    <2>5. NumberOK(toServer', n, knownSize')
      BY <2>1, <2>2, <2>4 DEF NumberOK
    <2> QED
      BY <2>3, <2>5
  <1>17. \A j \in DOMAIN toServer' : j \in DOMAIN toServer \/ j = n
    BY <1>0, <1>15, Added
  <1> QED
    BY <1>0, <1>2, <1>8, <1>10, <1>11, <1>12, <1>14, <1>16, <1>17, KnownMade

(* The client gives an id back: of a pipeline that was destroyed, with the *)
(* command that says so, or of one that was not made.                      *)
LEMMA FreedKnown ==
    ASSUME KnownTypes, KnownInv, KindInv, OnceInv, OwnInv,
           NEW r \in Requests, NEW i \in Ids, i = pipelineId[r], ~IsSent(r),
           ~Inside(r), IsReplied(r)' => FALSE,
           NEW c \in Commands, c.cmd = "DestroyPipeline", c.id = i,
           \/ toServer' = toServer /\ (live /\ ~mDisconnected => known[i].state = "Free")
           \/ toServer' = Append(toServer, c) /\ known[i].state = "Allocated",
           toClient' = toClient \/ (toClient # <<>> /\ toClient' = Tail(toClient)),
           pipelineId' = [pipelineId EXCEPT ![r] = 0], mFreeIds' = Append(mFreeIds, i),
           mCurrentId' = mCurrentId, held' = [held EXCEPT ![r] = FALSE],
           live' = live, mDisconnected' = mDisconnected, known' = known, knownSize' = knownSize,
           creating' = creating, callbackTasks' = callbackTasks
    PROVE  KnownInv'
  <1>0. /\ toServer \in Seq(Commands) /\ toClient \in Seq(ReturnCommands) /\ creating \subseteq Requests
        /\ callbackTasks \in Seq(Tasks) /\ pipelineId \in [Requests -> 0..MaxRequests]
        /\ held \in [Requests -> BOOLEAN] /\ mFreeIds \in Seq(Ids)
    BY DEF KnownTypes
  <1>1. /\ EntriesOK /\ FreeOK /\ LastOK /\ knownSize <= mCurrentId
        /\ \A j \in DOMAIN toServer : CommandOK(toServer, j, pipelineId, known)
        /\ \A j \in DOMAIN toServer : NumberOK(toServer, j, knownSize)
    BY <1>0, KnownRead
  <1>2. toServer' \in Seq(Commands)
    BY <1>0, SentType
  <1>3. i # 0
    BY DEF Ids
  <1>4. \A q \in Requests : q # r => pipelineId'[q] = pipelineId[q] /\ held'[q] = held[q]
    BY <1>0
  <1>5. pipelineId'[r] = 0 /\ held'[r] = FALSE
    BY <1>0
  <1>6. \A q \in Requests : q # r => pipelineId[q] # i
    BY <1>3, OwnIds
  <1>7. EntriesOK'
    <2>1. ASSUME NEW q \in Requests, q \in creating' \/ InTask(q)'
          PROVE  known'[pipelineId'[q]] = Reserve(q)
      <3>1. q \in creating \/ InTask(q)
        BY <2>1 DEF InTask
      <3>2. q # r
        BY <3>1 DEF Inside
      <3> QED
        BY <1>1, <1>4, <3>1, <3>2 DEF EntriesOK
    <2>2. ASSUME NEW q \in Requests, live, ~mDisconnected, held'[q]
          PROVE  known'[pipelineId'[q]] = Allocate(q)
      <3>1. q # r
        BY <1>5, <2>2
      <3> QED
        BY <1>1, <1>4, <2>2, <3>1 DEF EntriesOK
    <2>3. ASSUME live, NEW j \in DOMAIN toClient' PROVE ReplyOK(toClient'[j], pipelineId', known')
      <3> SUFFICES ASSUME toClient'[j].ret = "Pipeline" PROVE ReplyOK(toClient'[j], pipelineId', known')
        BY DEF ReplyOK
      <3>1. PICK k \in DOMAIN toClient : toClient'[j] = toClient[k]
        BY <1>0, RepliesLeft
      <3>2. PICK q \in Requests : q = toClient[k].request
        BY <1>0, <3>1, Indexed, ReturnFacts DEF Telling
      <3>3. ReplyOK(toClient[k], pipelineId, known)
        BY <1>1, <2>3 DEF EntriesOK
      <3>4. IsReplied(q)'
        BY <3>1, <3>2 DEF IsReplied, Telling
      <3>5. q # r
        BY <3>4
      <3>6. pipelineId'[q] = pipelineId[q]
        BY <1>4, <3>5
      <3> QED
        BY <3>1, <3>2, <3>3, <3>6 DEF ReplyOK
    <2>4. ASSUME live, ~mDisconnected, NEW q \in Ids, q >= mCurrentId' PROVE known'[q].state = "Free"
      BY <1>1, <2>4 DEF EntriesOK
    <2> QED
      BY <2>1, <2>2, <2>3, <2>4 DEF EntriesOK
  <1>8. /\ \A j \in DOMAIN toServer : \A name, q : Ahead(toServer', j, name, q) <=> Ahead(toServer, j, name, q)
        /\ \A name, q : Ahead(toServer, Len(toServer) + 1, name, q) => Ahead(toServer', Len(toServer') + 1, name, q)
        /\ toServer' = Append(toServer, c) => Ahead(toServer', Len(toServer') + 1, "DestroyPipeline", i)
    <2>1. CASE toServer' = toServer
      <3>1. Append(toServer, c) # toServer
        <4>1. Len(Append(toServer, c)) = Len(toServer) + 1 /\ Len(toServer) \in Nat
          BY <1>0, Added
        <4> QED
          BY <4>1
      <3> QED
        BY <2>1, <3>1
    <2>2. CASE toServer' = Append(toServer, c)
      BY <1>0, <2>2, AheadAdded
    <2> QED
      BY <2>1, <2>2
  <1>9. FreeOK'
    <2> SUFFICES ASSUME live, ~mDisconnected, NEW j \in DOMAIN mFreeIds'
                 PROVE  \/ known[mFreeIds'[j]].state = "Free"
                        \/ Ahead(toServer', Len(toServer') + 1, "DestroyPipeline", mFreeIds'[j])
      BY DEF FreeOK
    <2>1. CASE j \in DOMAIN mFreeIds
      <3>1. mFreeIds'[j] = mFreeIds[j]
        BY <1>0, <2>1, Added
      <3> QED
        BY <1>1, <1>8, <2>1, <3>1 DEF FreeOK
    <2>2. CASE j \notin DOMAIN mFreeIds
      <3>1. mFreeIds'[j] = i
        BY <1>0, <2>2, Added
      <3> QED
        BY <1>8, <3>1
    <2> QED
      BY <2>1, <2>2
  <1>10. LastOK'
    BY <1>1, <1>8 DEF LastOK
  <1>11. \A q : Asks(toServer, q) => Asks(toServer', q)
    <2>1. toServer' = toServer \/ toServer' = Append(toServer, c)
      OBVIOUS
    <2>2. \A q : Asks(toServer, q) => Asks(Append(toServer, c), q)
      BY <1>0, AsksAdded
    <2> QED
      BY <2>1, <2>2
  <1>12. ASSUME NEW j \in DOMAIN toServer, toServer'[j] = toServer[j]
         PROVE  CommandOK(toServer', j, pipelineId', known') /\ NumberOK(toServer', j, knownSize')
    <2>2. CommandOK(toServer, j, pipelineId, known) /\ NumberOK(toServer, j, knownSize)
      BY <1>1
    <2>3. \A name, q : Ahead(toServer', j, name, q) <=> Ahead(toServer, j, name, q)
      BY <1>8
    <2>4. toServer[j].cmd = "CreatePipeline" => pipelineId'[toServer[j].request] = pipelineId[toServer[j].request]
      <3> SUFFICES ASSUME toServer[j].cmd = "CreatePipeline"
                   PROVE  pipelineId'[toServer[j].request] = pipelineId[toServer[j].request]
        OBVIOUS
      <3>1. PICK q \in Requests : q = toServer[j].request
        BY OnWayFacts
      <3>2. IsSent(q)
        BY <3>1 DEF IsSent, Asking
      <3>3. q # r
        BY <3>2
      <3> QED
        BY <1>4, <3>1, <3>3
    <2>5. toServer[j].cmd = "DestroyPipeline" =>
             \A q \in Requests : pipelineId'[q] = toServer[j].id => Asks(toServer', q)
      <3> SUFFICES ASSUME toServer[j].cmd = "DestroyPipeline", NEW q \in Requests, pipelineId'[q] = toServer[j].id
                   PROVE  Asks(toServer', q)
        OBVIOUS
      <3>1. toServer[j].id \in Ids
        BY OnWayFacts
      <3>2. toServer[j].id # 0
        BY <3>1 DEF Ids
      <3>3. q # r
        BY <1>5, <3>2
      <3> QED
        BY <1>4, <1>11, <2>2, <3>3 DEF CommandOK
    <2>6. CommandOK(toServer', j, pipelineId', known')
      BY <1>12, <2>2, <2>3, <2>4, <2>5 DEF CommandOK
    <2>7. NumberOK(toServer', j, knownSize')
      BY <1>12, <2>2, <2>3 DEF NumberOK
    <2> QED
      BY <2>6, <2>7
  <1>13. CASE toServer' = toServer
    <2>1. \A j \in DOMAIN toServer' : j \in DOMAIN toServer /\ toServer'[j] = toServer[j]
      BY <1>13
    <2> QED
      BY <1>0, <1>1, <1>2, <1>7, <1>9, <1>10, <1>12, <2>1, KnownMade
  <1>14. CASE toServer' = Append(toServer, c) /\ known[i].state = "Allocated"
    <2>1. PICK n : n = Len(toServer) + 1
      OBVIOUS
    <2>2. /\ toServer'[n] = c
          /\ \A j \in DOMAIN toServer' : (j \in DOMAIN toServer /\ toServer'[j] = toServer[j]) \/ j = n
          /\ DOMAIN toServer = 1..Len(toServer) /\ Len(toServer) \in Nat
      BY <1>0, <1>14, <2>1, Added
    <2>3. \A name, q : Ahead(toServer', n, name, q) <=> Ahead(toServer, n, name, q)
      BY <1>0, <1>14, <2>1, AheadAdded
    <2>4. ~Ahead(toServer, n, "DestroyPipeline", i) /\ ~Ahead(toServer, n, "CreatePipeline", i)
      <3>1. ASSUME NEW k \in 1..(n - 1), toServer[k].cmd \in {"CreatePipeline", "DestroyPipeline"}, toServer[k].id = i
            PROVE  FALSE
        <4>1. k \in DOMAIN toServer
          BY <2>1, <2>2
        <4>2. CASE toServer[k].cmd = "DestroyPipeline"
          BY <3>1, <4>1, <4>2, OnWayFacts
        <4>3. CASE toServer[k].cmd = "CreatePipeline"
          <5>1. PICK q \in Requests : q = toServer[k].request
            BY <4>1, <4>3, OnWayFacts
          <5>2. IsSent(q) /\ pipelineId[q] = i
            BY <3>1, <4>1, <4>3, <5>1, OnWayFacts
          <5> QED
            BY <1>6, <5>2
        <4> QED
          BY <3>1, <4>2, <4>3
      <3> QED
        BY <3>1 DEF Ahead
    <2>5. \A q \in Requests : pipelineId'[q] # i
      BY <1>3, <1>4, <1>5, <1>6
    <2>6. CommandOK(toServer', n, pipelineId', known')
      BY <1>14, <2>2, <2>3, <2>4, <2>5 DEF CommandOK
    <2>7. NumberOK(toServer', n, knownSize')
      BY <2>2 DEF NumberOK
    <2> QED
      BY <1>0, <1>1, <1>2, <1>7, <1>9, <1>10, <1>12, <2>2, <2>6, <2>7, KnownMade
  <1> QED
    BY <1>13, <1>14

(* The client is given its pipeline.                                       *)
LEMMA GivenKnown ==
    ASSUME KnownTypes, KnownInv, live, toClient # <<>>, toClient' = Tail(toClient),
           toClient[1].ret = "Pipeline", toClient[1].status = "Success",
           NEW r \in Requests, r = toClient[1].request,
           toServer' = toServer, pipelineId' = pipelineId, mFreeIds' = mFreeIds,
           mCurrentId' = mCurrentId, held' = [held EXCEPT ![r] = TRUE],
           live' = live, mDisconnected' = mDisconnected, known' = known, knownSize' = knownSize,
           creating' = creating, callbackTasks' = callbackTasks
    PROVE  KnownInv'
  <1>0. /\ toServer \in Seq(Commands) /\ toClient \in Seq(ReturnCommands) /\ creating \subseteq Requests
        /\ callbackTasks \in Seq(Tasks) /\ held \in [Requests -> BOOLEAN]
    BY DEF KnownTypes
  <1>1. /\ EntriesOK /\ FreeOK /\ LastOK /\ knownSize <= mCurrentId
        /\ \A j \in DOMAIN toServer : CommandOK(toServer, j, pipelineId, known)
        /\ \A j \in DOMAIN toServer : NumberOK(toServer, j, knownSize)
    BY <1>0, KnownRead
  <1>2. \A j \in DOMAIN toClient' : \E k \in DOMAIN toClient : toClient'[j] = toClient[k]
    BY <1>0, RepliesLeft
  <1>3. known[pipelineId[r]] = Allocate(r)
    <2>1. 1 \in DOMAIN toClient
      BY <1>0, Beheaded
    <2> QED
      BY <1>1, <2>1 DEF EntriesOK, ReplyOK
  <1>4. EntriesOK'
    <2>1. ASSUME NEW q \in Requests, q \in creating' \/ InTask(q)'
          PROVE  known'[pipelineId'[q]] = Reserve(q)
      BY <1>1, <2>1 DEF EntriesOK, InTask
    <2>2. ASSUME NEW q \in Requests, ~mDisconnected, held'[q] PROVE known'[pipelineId'[q]] = Allocate(q)
      BY <1>0, <1>1, <1>3, <2>2 DEF EntriesOK
    <2>3. ASSUME NEW j \in DOMAIN toClient' PROVE ReplyOK(toClient'[j], pipelineId', known')
      BY <1>1, <1>2 DEF EntriesOK
    <2> QED
      BY <1>1, <2>1, <2>2, <2>3 DEF EntriesOK
  <1>5. FreeOK' /\ LastOK'
    BY <1>1 DEF FreeOK, LastOK
  <1> QED
    BY <1>0, <1>1, <1>4, <1>5, KnownMade

-----------------------------------------------------------------------------
(* The client's ids.                                                       *)

(* No id is taken or given back.                                           *)
LEMMA OwnQuiet ==
    ASSUME OwnInv, WaitInv, pipelineId' = pipelineId, held' = held, mFreeIds' = mFreeIds,
           mCurrentId' = mCurrentId,
           \A q \in Requests : /\ answer[q] # "None" => answer'[q] # "None" /\ reqKind'[q] = reqKind[q]
                               /\ Somewhere(q)' => \/ Somewhere(q)
                                                   \/ answer[q] = "None" /\ reqKind'[q] # "Pipeline"
    PROVE  OwnInv'
  <1>1. ASSUME NEW q \in Requests
        PROVE  /\ answer'[q] = "None" => mCurrentId' <= q /\ ~held'[q] /\ pipelineId'[q] = 0
               /\ pipelineId'[q] < mCurrentId'
               /\ pipelineId'[q] # 0 => reqKind'[q] = "Pipeline"
               /\ held'[q] => pipelineId'[q] # 0 /\ ~Somewhere(q)'
               /\ Somewhere(q)' /\ reqKind'[q] = "Pipeline" => pipelineId'[q] # 0
    <2>1. /\ answer[q] = "None" => mCurrentId <= q /\ ~held[q] /\ pipelineId[q] = 0
          /\ pipelineId[q] < mCurrentId
          /\ pipelineId[q] # 0 => reqKind[q] = "Pipeline"
          /\ held[q] => pipelineId[q] # 0 /\ ~Somewhere(q)
          /\ Somewhere(q) /\ reqKind[q] = "Pipeline" => pipelineId[q] # 0
      BY DEF OwnInv
    <2>2. Somewhere(q) => answer[q] # "None"
      BY DEF WaitInv
    <2> QED
      BY <2>1, <2>2
  <1>2. /\ \A q, p \in Requests : q # p /\ pipelineId'[q] = pipelineId'[p] => pipelineId'[q] = 0
        /\ \A j \in DOMAIN mFreeIds' :
              /\ mFreeIds'[j] < mCurrentId'
              /\ \A q \in Requests : pipelineId'[q] # mFreeIds'[j]
              /\ \A k \in DOMAIN mFreeIds' : j # k => mFreeIds'[j] # mFreeIds'[k]
    BY DEF OwnInv
  <1> QED
    BY <1>1, <1>2 DEF OwnInv

(* ObjectAllocator::New for a request.                                     *)
LEMMA OwnAsked ==
    ASSUME KnownTypes, KnownInv, OwnInv, WaitInv, live, ~mDisconnected,
           NEW r \in Requests, Fresh(r), NEW i, i = NewId,
           pipelineId' = [pipelineId EXCEPT ![r] = i],
           mFreeIds' = IF mFreeIds = <<>> THEN mFreeIds ELSE Front(mFreeIds),
           mCurrentId' = IF mFreeIds = <<>> THEN mCurrentId + 1 ELSE mCurrentId, held' = held,
           answer'[r] # "None", reqKind'[r] = "Pipeline",
           \A q \in Requests : q # r => /\ answer'[q] = answer[q] /\ reqKind'[q] = reqKind[q]
                                        /\ Somewhere(q)' => Somewhere(q)
    PROVE  OwnInv'
  <1>0. /\ pipelineId \in [Requests -> 0..MaxRequests] /\ mFreeIds \in Seq(Ids) /\ mCurrentId \in Nat
    BY WireDeviceBounds DEF KnownTypes
  <1>1. answer[r] = "None" /\ \A q \in 1..(r - 1) : answer[q] # "None"
    BY DEF Fresh
  <1>2. /\ i \in Ids /\ i <= mCurrentId
        /\ \A q \in Requests : pipelineId[q] # i
        /\ mFreeIds # <<>> => i < mCurrentId
    BY <1>1, NewIdFacts
  <1>3. /\ \A q \in Requests : q # r => pipelineId'[q] = pipelineId[q]
        /\ pipelineId'[r] = i
    BY <1>0
  <1>4. /\ \A q \in Requests : pipelineId[q] \in Nat /\ q \in Nat
        /\ i \in Nat /\ i # 0
    BY <1>0, <1>2, WireDeviceBounds DEF Ids, Requests
  <1>5. ASSUME NEW q \in Requests
        PROVE  /\ answer[q] = "None" => mCurrentId <= q /\ ~held[q] /\ pipelineId[q] = 0
               /\ pipelineId[q] < mCurrentId
               /\ pipelineId[q] # 0 => reqKind[q] = "Pipeline"
               /\ held[q] => pipelineId[q] # 0 /\ ~Somewhere(q)
               /\ Somewhere(q) /\ reqKind[q] = "Pipeline" => pipelineId[q] # 0
    BY DEF OwnInv
  <1>6. ASSUME NEW q \in Requests
        PROVE  /\ answer'[q] = "None" => mCurrentId' <= q /\ ~held'[q] /\ pipelineId'[q] = 0
               /\ pipelineId'[q] < mCurrentId'
               /\ pipelineId'[q] # 0 => reqKind'[q] = "Pipeline"
               /\ held'[q] => pipelineId'[q] # 0 /\ ~Somewhere(q)'
               /\ Somewhere(q)' /\ reqKind'[q] = "Pipeline" => pipelineId'[q] # 0
    <2>1. CASE q = r
      <3>1. ~held[r]
        BY <1>1, <1>5
      <3>2. i < mCurrentId'
        BY <1>0, <1>2, <1>4
      <3> QED
        BY <1>3, <1>4, <2>1, <3>1, <3>2
    <2>2. CASE q # r
      <3>1. answer[q] = "None" => mCurrentId' <= q
        <4> SUFFICES ASSUME answer[q] = "None" PROVE mCurrentId' <= q
          OBVIOUS
        <4>1. mCurrentId <= r /\ mCurrentId <= q
          BY <1>1, <1>5
        <4>2. q \notin 1..(r - 1)
          BY <1>1
        <4>3. q >= 1
          BY WireDeviceBounds DEF Requests
        <4> QED
          BY <1>0, <1>4, <2>2, <4>1, <4>2, <4>3
      <3>2. pipelineId[q] < mCurrentId'
        <4>1. pipelineId[q] < mCurrentId
          BY <1>5
        <4> QED
          BY <1>0, <1>4, <4>1
      <3> QED
        BY <1>3, <1>5, <2>2, <3>1, <3>2
    <2> QED
      BY <2>1, <2>2
  <1>7. \A q, p \in Requests : q # p /\ pipelineId'[q] = pipelineId'[p] => pipelineId'[q] = 0
    <2>1. \A q, p \in Requests : q # p /\ pipelineId[q] = pipelineId[p] => pipelineId[q] = 0
      BY DEF OwnInv
    <2> QED
      BY <1>2, <1>3, <2>1
  <1>8. ASSUME NEW j \in DOMAIN mFreeIds'
        PROVE  j \in DOMAIN mFreeIds /\ mFreeIds'[j] = mFreeIds[j] /\ mFreeIds[j] # i
    <2>1. CASE mFreeIds = <<>>
      BY <2>1, Nothing
    <2>2. CASE mFreeIds # <<>>
      BY <1>1, <2>2, NewIdFacts
    <2> QED
      BY <2>1, <2>2
  <1>9. ASSUME NEW j \in DOMAIN mFreeIds'
        PROVE  /\ mFreeIds'[j] < mCurrentId'
               /\ \A q \in Requests : pipelineId'[q] # mFreeIds'[j]
               /\ \A k \in DOMAIN mFreeIds' : j # k => mFreeIds'[j] # mFreeIds'[k]
    <2>1. j \in DOMAIN mFreeIds /\ mFreeIds'[j] = mFreeIds[j] /\ mFreeIds[j] # i
      BY <1>8
    <2>2. /\ mFreeIds[j] < mCurrentId
          /\ \A q \in Requests : pipelineId[q] # mFreeIds[j]
          /\ \A k \in DOMAIN mFreeIds : j # k => mFreeIds[j] # mFreeIds[k]
      BY <2>1 DEF OwnInv
    <2>3. mFreeIds[j] \in Nat
      BY <1>0, <2>1, Indexed, WireDeviceBounds DEF Ids
    <2>4. mFreeIds[j] < mCurrentId'
      BY <1>0, <2>2, <2>3
    <2> QED
      BY <1>3, <1>8, <2>1, <2>2, <2>4
  <1> QED
    BY <1>6, <1>7, <1>9 DEF OwnInv

(* ObjectAllocator::Free of a request's id.                                *)
LEMMA OwnFreed ==
    ASSUME KnownTypes, OwnInv, WaitInv, NEW r \in Requests, NEW i \in Ids, i = pipelineId[r],
           pipelineId' = [pipelineId EXCEPT ![r] = 0], mFreeIds' = Append(mFreeIds, i),
           mCurrentId' = mCurrentId, held' = [held EXCEPT ![r] = FALSE],
           answer[r] # "None", ~Somewhere(r)',
           \A q \in Requests : /\ answer[q] # "None" => answer'[q] # "None"
                               /\ reqKind'[q] = reqKind[q]
                               /\ Somewhere(q)' => Somewhere(q)
    PROVE  OwnInv'
  <1>0. /\ pipelineId \in [Requests -> 0..MaxRequests] /\ mFreeIds \in Seq(Ids) /\ mCurrentId \in Nat
        /\ held \in [Requests -> BOOLEAN]
    BY WireDeviceBounds DEF KnownTypes
  <1>1. /\ \A q \in Requests : q # r => pipelineId'[q] = pipelineId[q] /\ held'[q] = held[q]
        /\ pipelineId'[r] = 0 /\ held'[r] = FALSE
    BY <1>0
  <1>2. i # 0
    BY DEF Ids
  <1>3. /\ \A q \in Requests : q # r => pipelineId[q] # i
        /\ \A j \in DOMAIN mFreeIds : mFreeIds[j] # i
        /\ i < mCurrentId
    BY <1>2, OwnIds
  <1>4. ASSUME NEW q \in Requests
        PROVE  /\ answer'[q] = "None" => mCurrentId' <= q /\ ~held'[q] /\ pipelineId'[q] = 0
               /\ pipelineId'[q] < mCurrentId'
               /\ pipelineId'[q] # 0 => reqKind'[q] = "Pipeline"
               /\ held'[q] => pipelineId'[q] # 0 /\ ~Somewhere(q)'
               /\ Somewhere(q)' /\ reqKind'[q] = "Pipeline" => pipelineId'[q] # 0
    <2>1. /\ answer[q] = "None" => mCurrentId <= q /\ ~held[q] /\ pipelineId[q] = 0
          /\ pipelineId[q] < mCurrentId
          /\ pipelineId[q] # 0 => reqKind[q] = "Pipeline"
          /\ held[q] => pipelineId[q] # 0 /\ ~Somewhere(q)
          /\ Somewhere(q) /\ reqKind[q] = "Pipeline" => pipelineId[q] # 0
      BY DEF OwnInv
    <2>2. CASE q = r
      <3>1. 0 < mCurrentId
        BY WireDeviceBounds DEF KnownTypes
      <3> QED
        BY <1>1, <2>2, <3>1
    <2>3. CASE q # r
      BY <1>1, <2>1, <2>3
    <2> QED
      BY <2>2, <2>3
  <1>5. \A q, p \in Requests : q # p /\ pipelineId'[q] = pipelineId'[p] => pipelineId'[q] = 0
    <2>1. \A q, p \in Requests : q # p /\ pipelineId[q] = pipelineId[p] => pipelineId[q] = 0
      BY DEF OwnInv
    <2> QED
      BY <1>1, <2>1
  <1>6. PICK n : n = Len(mFreeIds) + 1
    OBVIOUS
  <1>7. /\ mFreeIds'[n] = i /\ \A j \in DOMAIN mFreeIds : mFreeIds'[j] = mFreeIds[j]
        /\ \A j \in DOMAIN mFreeIds' : j \in DOMAIN mFreeIds \/ j = n
    BY <1>0, <1>6, Added
  <1>8. ASSUME NEW j \in DOMAIN mFreeIds
        PROVE  /\ mFreeIds[j] < mCurrentId /\ mFreeIds[j] # 0
               /\ \A q \in Requests : pipelineId[q] # mFreeIds[j]
               /\ \A k \in DOMAIN mFreeIds : j # k => mFreeIds[j] # mFreeIds[k]
    <2>1. mFreeIds[j] \in Ids
      BY <1>0, Indexed
    <2>2. mFreeIds[j] # 0
      BY <2>1 DEF Ids
    <2> QED
      BY <2>2 DEF OwnInv
  <1>9. ASSUME NEW j \in DOMAIN mFreeIds'
        PROVE  /\ mFreeIds'[j] < mCurrentId'
               /\ \A q \in Requests : pipelineId'[q] # mFreeIds'[j]
               /\ \A k \in DOMAIN mFreeIds' : j # k => mFreeIds'[j] # mFreeIds'[k]
    <2>1. CASE j \in DOMAIN mFreeIds
      <3>1. mFreeIds'[j] = mFreeIds[j]
        BY <1>7, <2>1
      <3> QED
        BY <1>1, <1>3, <1>7, <1>8, <2>1, <3>1
    <2>2. CASE j = n
      BY <1>1, <1>2, <1>3, <1>7, <2>2
    <2> QED
      BY <1>7, <2>1, <2>2
  <1> QED
    BY <1>4, <1>5, <1>9 DEF OwnInv

(* The application is given its pipeline.                                  *)
LEMMA OwnGiven ==
    ASSUME KnownTypes, OwnInv, NEW r \in Requests, pipelineId[r] # 0,
           pipelineId' = pipelineId, mFreeIds' = mFreeIds, mCurrentId' = mCurrentId,
           held' = [held EXCEPT ![r] = TRUE], answer[r] # "None", ~Somewhere(r)',
           \A q \in Requests : /\ answer[q] # "None" => answer'[q] # "None"
                               /\ reqKind'[q] = reqKind[q]
                               /\ Somewhere(q)' => Somewhere(q)
    PROVE  OwnInv'
  <1>0. held \in [Requests -> BOOLEAN]
    BY DEF KnownTypes
  <1>1. /\ \A q \in Requests : q # r => held'[q] = held[q]
        /\ held'[r] = TRUE
    BY <1>0
  <1>2. ASSUME NEW q \in Requests
        PROVE  /\ answer'[q] = "None" => mCurrentId' <= q /\ ~held'[q] /\ pipelineId'[q] = 0
               /\ pipelineId'[q] < mCurrentId'
               /\ pipelineId'[q] # 0 => reqKind'[q] = "Pipeline"
               /\ held'[q] => pipelineId'[q] # 0 /\ ~Somewhere(q)'
               /\ Somewhere(q)' /\ reqKind'[q] = "Pipeline" => pipelineId'[q] # 0
    <2>1. /\ answer[q] = "None" => mCurrentId <= q /\ ~held[q] /\ pipelineId[q] = 0
          /\ pipelineId[q] < mCurrentId
          /\ pipelineId[q] # 0 => reqKind[q] = "Pipeline"
          /\ held[q] => pipelineId[q] # 0 /\ ~Somewhere(q)
          /\ Somewhere(q) /\ reqKind[q] = "Pipeline" => pipelineId[q] # 0
      BY DEF OwnInv
    <2>2. CASE q = r
      BY <1>1, <2>1, <2>2
    <2>3. CASE q # r
      BY <1>1, <2>1, <2>3
    <2> QED
      BY <2>2, <2>3
  <1>3. /\ \A q, p \in Requests : q # p /\ pipelineId'[q] = pipelineId'[p] => pipelineId'[q] = 0
        /\ \A j \in DOMAIN mFreeIds' :
              /\ mFreeIds'[j] < mCurrentId'
              /\ \A q \in Requests : pipelineId'[q] # mFreeIds'[j]
              /\ \A k \in DOMAIN mFreeIds' : j # k => mFreeIds'[j] # mFreeIds'[k]
    BY DEF OwnInv
  <1> QED
    BY <1>2, <1>3 DEF OwnInv

-----------------------------------------------------------------------------
(* The scopes both sides count.                                            *)

(* A push or a pop is sent.                                                *)
LEMMA ScopesSent ==
    ASSUME toServer \in Seq(Commands), ScopeInv, NEW c \in Commands,
           toServer' = (IF mDisconnected THEN toServer ELSE Append(toServer, c)),
           mDisconnected' = mDisconnected, mScopes' = mScopes,
           mErrorScopeStackSize' = ScopesAfter(c, mErrorScopeStackSize),
           mErrorScopeStackSize' \in 0..MaxCalls
    PROVE  ScopeInv'
  <1> SUFFICES ASSUME ~mDisconnected
               PROVE  \E d \in [0..Len(toServer') -> 0..MaxCalls] : Counts(d)'
    BY DEF ScopeInv
  <1>1. PICK d \in [0..Len(toServer) -> 0..MaxCalls] : Counts(d)
    BY DEF ScopeInv
  <1>2. /\ Len(toServer) \in Nat /\ Len(toServer') = Len(toServer) + 1
        /\ DOMAIN toServer = 1..Len(toServer) /\ DOMAIN toServer' = 1..(Len(toServer) + 1)
        /\ toServer'[Len(toServer) + 1] = c /\ \A j \in DOMAIN toServer : toServer'[j] = toServer[j]
    BY Added
  <1>3. PICK n : n = Len(toServer) /\ n \in Nat
    BY <1>2
  <1>4. PICK v \in 0..MaxCalls : v = mErrorScopeStackSize'
    OBVIOUS
  <1>5. PICK e : e = [j \in 0..(n + 1) |-> IF j <= n THEN d[j] ELSE v]
    OBVIOUS
  <1>6. e \in [0..(n + 1) -> 0..MaxCalls]
    <2>1. ASSUME NEW j \in 0..(n + 1) PROVE (IF j <= n THEN d[j] ELSE v) \in 0..MaxCalls
      BY <1>1, <1>3, <1>4
    <2> QED
      BY <1>5, <2>1
  <1>7. d[0] = Len(mScopes) /\ d[n] = mErrorScopeStackSize
        /\ \A j \in 1..n : d[j] = ScopesAfter(toServer[j], d[j - 1])
    BY <1>1, <1>2, <1>3 DEF Counts
  <1>8. e[0] = d[0] /\ e[n + 1] = v /\ e[n] = d[n]
    BY <1>3, <1>5
  <1>9. \A j \in 1..n : e[j] = d[j] /\ e[j - 1] = d[j - 1]
    BY <1>3, <1>5
  <1>10. ASSUME NEW j \in 1..(n + 1) PROVE e[j] = ScopesAfter(toServer'[j], e[j - 1])
    <2>1. CASE j \in 1..n
      <3>1. toServer'[j] = toServer[j]
        BY <1>2, <1>3, <2>1
      <3> QED
        BY <1>7, <1>9, <2>1, <3>1
    <2>2. CASE j = n + 1
      <3>1. toServer'[j] = c /\ j - 1 = n
        BY <1>2, <1>3, <2>2
      <3> QED
        BY <1>4, <1>7, <1>8, <2>2, <3>1
    <2> QED
      BY <1>3, <2>1, <2>2
  <1>11. Counts(e)'
    BY <1>2, <1>3, <1>4, <1>7, <1>8, <1>10 DEF Counts
  <1> QED
    BY <1>2, <1>3, <1>6, <1>11

(* It is handled.                                                          *)
LEMMA ScopesTaken ==
    ASSUME toServer \in Seq(Commands), ScopeInv, toServer # <<>>, toServer' = Tail(toServer),
           mDisconnected' = mDisconnected, mErrorScopeStackSize' = mErrorScopeStackSize,
           ~mDisconnected, Len(mScopes') = ScopesAfter(toServer[1], Len(mScopes))
    PROVE  ScopeInv'
  <1>1. PICK d \in [0..Len(toServer) -> 0..MaxCalls] : Counts(d)
    BY DEF ScopeInv
  <1>2. PICK n \in Nat : n + 1 = Len(toServer)
    <2>1. Len(toServer) \in Nat \ {0}
      BY Beheaded
    <2>2. Len(toServer) - 1 \in Nat /\ (Len(toServer) - 1) + 1 = Len(toServer)
      BY <2>1
    <2> QED
      BY <2>2
  <1>3. /\ Len(toServer') = n /\ DOMAIN toServer = 1..(n + 1) /\ DOMAIN toServer' = 1..n
        /\ \A j \in 1..n : toServer'[j] = toServer[j + 1]
    <2>1. Len(Tail(toServer)) = Len(toServer) - 1 /\ DOMAIN toServer = 1..Len(toServer)
          /\ DOMAIN Tail(toServer) = 1..(Len(toServer) - 1)
          /\ \A j \in DOMAIN Tail(toServer) : Tail(toServer)[j] = toServer[j + 1]
      BY Beheaded
    <2>2. Len(toServer) - 1 = n
      BY <1>2
    <2> QED
      BY <1>2, <2>1, <2>2
  <1>4. d[0] = Len(mScopes) /\ d[n + 1] = mErrorScopeStackSize
        /\ \A j \in 1..(n + 1) : d[j] = ScopesAfter(toServer[j], d[j - 1])
    BY <1>1, <1>2, <1>3 DEF Counts
  <1>5. PICK e : e = [j \in 0..n |-> d[j + 1]]
    OBVIOUS
  <1>6. e \in [0..n -> 0..MaxCalls]
    <2>1. ASSUME NEW j \in 0..n PROVE d[j + 1] \in 0..MaxCalls
      BY <1>1, <1>2
    <2> QED
      BY <1>5, <2>1
  <1>7. d[1] = Len(mScopes')
    <2>1. 1 \in 1..(n + 1) /\ 1 - 1 = 0
      BY <1>2
    <2>2. d[1] = ScopesAfter(toServer[1], d[0])
      BY <1>4, <2>1
    <2> QED
      BY <1>4, <2>2
  <1>8. e[0] = d[1] /\ e[n] = d[n + 1]
    BY <1>2, <1>5
  <1>9. ASSUME NEW j \in 1..n PROVE e[j] = ScopesAfter(toServer'[j], e[j - 1])
    <2>1. e[j] = d[j + 1] /\ e[j - 1] = d[j] /\ j + 1 \in 1..(n + 1) /\ (j + 1) - 1 = j
      BY <1>2, <1>5
    <2>2. d[j + 1] = ScopesAfter(toServer[j + 1], d[j])
      BY <1>4, <2>1
    <2> QED
      BY <1>3, <2>1, <2>2
  <1>10. Counts(e)'
    BY <1>3, <1>4, <1>7, <1>8, <1>9 DEF Counts
  <1>11. \E f \in [0..Len(toServer') -> 0..MaxCalls] : Counts(f)'
    BY <1>3, <1>6, <1>10
  <1> QED
    BY <1>11 DEF ScopeInv

(* A scope to pop is there.                                                *)
LEMMA ScopeThere ==
    ASSUME toServer \in Seq(Commands), ScopeInv, toServer # <<>>, ~mDisconnected,
           toServer[1].cmd = "Pop"
    PROVE  mScopes # <<>>
  <1>1. PICK d \in [0..Len(toServer) -> 0..MaxCalls] : Counts(d)
    BY DEF ScopeInv
  <1>2. 1 \in DOMAIN toServer /\ Len(toServer) \in Nat \ {0}
    BY Beheaded
  <1>3. d[1] = ScopesAfter(toServer[1], d[1 - 1]) /\ d[0] = Len(mScopes)
    BY <1>1, <1>2 DEF Counts
  <1>4. d[1] = d[0] - 1
    BY <1>3 DEF ScopesAfter
  <1>5. d[1] \in 0..MaxCalls /\ d[0] \in 0..MaxCalls
    BY <1>1, <1>2
  <1>6. Len(mScopes) # 0
    BY <1>3, <1>4, <1>5, WireDeviceBounds
  <1> QED
    BY <1>6

-----------------------------------------------------------------------------
(* The invariant, by the sides whose steps disturb it.                     *)

ClientTypeOK ==
    /\ live \in BOOLEAN /\ mDisconnected \in BOOLEAN /\ mDidRunLostCallback \in BOOLEAN
    /\ mErrorScopeStackSize \in 0..MaxCalls
    /\ reqKind \in [Requests -> {"None", "Pop", "Pipeline", "Work"}]
    /\ answer \in [Requests -> {"None", "Waiting", "NoError", "Validation", "OutOfMemory",
                                "Unknown", "DeviceLost", "DeviceDestroyed", "Error", "Success"}]
    /\ message \in [Requests -> 0..MaxCalls]
    /\ pipelineId \in [Requests -> 0..MaxRequests] /\ held \in [Requests -> BOOLEAN]
    /\ mFreeIds \in Seq(Ids) /\ mCurrentId \in 1..(MaxRequests + 1)
    /\ reported \in Seq(1..MaxCalls)
ServerTypeOK ==
    /\ deviceKnown \in BOOLEAN
    /\ known \in [Ids -> Entry] /\ knownSize \in 1..(MaxRequests + 1)
    /\ nativeState \in {"Alive", "Disconnected", "Destroyed"}
    /\ mScopes \in Seq([filter : Filters, captured : 0..MaxCalls])
    /\ creating \subseteq Requests
    /\ callbackTasks \in Seq(Tasks)
    /\ tasksInFlight \in Seq(Requests)
    /\ raised \subseteq 1..MaxCalls

(* WireDeviceInv by its parts.                                             *)
LEMMA InvParts ==
    WireDeviceInv <=>
        /\ NoHandlerFails /\ ClientTypeOK /\ ServerTypeOK /\ ChannelTypeOK /\ DeviceInv /\ ScopeInv
        /\ KindInv /\ OnceInv /\ WaitInv /\ OwnInv /\ KnownInv
  <1>1. NoHandlerFails => (WireDeviceTypeOK <=> ClientTypeOK /\ ServerTypeOK)
    BY DEF WireDeviceTypeOK, ClientTypeOK, ServerTypeOK, Tasks, NoHandlerFails
  <1> QED
    BY <1>1 DEF WireDeviceInv, IdsAgree, KnownInv

(* What it takes for it to hold after a step.                              *)
LEMMA InvMade ==
        /\ NoHandlerFails' /\ ClientTypeOK' /\ ServerTypeOK' /\ ChannelTypeOK' /\ DeviceInv' /\ ScopeInv'
        /\ KindInv' /\ OnceInv' /\ WaitInv' /\ OwnInv' /\ KnownInv'
    => WireDeviceInv'
  <1>1. NoHandlerFails' => (WireDeviceTypeOK' <=> ClientTypeOK' /\ ServerTypeOK')
    BY DEF WireDeviceTypeOK, ClientTypeOK, ServerTypeOK, Tasks, NoHandlerFails
  <1> QED
    BY <1>1 DEF WireDeviceInv, IdsAgree, KnownInv

(* The types that it gives.                                                *)
LEMMA InvTypes ==
    ASSUME WireDeviceInv
    PROVE  /\ KnownTypes /\ toServer \in Seq(Commands) /\ toClient \in Seq(ReturnCommands)
           /\ log \in Seq(Events) /\ Len(log) \in Nat /\ Len(log) <= MaxCalls
           /\ mErrorScopeStackSize \in Nat /\ mErrorScopeStackSize <= Len(log)
  <1>1. ClientTypeOK /\ ServerTypeOK /\ ChannelTypeOK
    BY InvParts
  <1>2. KnownTypes /\ toServer \in Seq(Commands) /\ toClient \in Seq(ReturnCommands)
    BY <1>1 DEF KnownTypes, ClientTypeOK, ServerTypeOK, ChannelTypeOK
  <1>3. /\ log \in Seq(Events) /\ Len(log) <= MaxCalls /\ mErrorScopeStackSize <= Len(log)
        /\ mErrorScopeStackSize \in 0..MaxCalls
    BY <1>1 DEF ChannelTypeOK, ClientTypeOK
  <1> QED
    BY <1>2, <1>3, LenProperties, WireDeviceBounds

ServerSame ==
    /\ deviceKnown' = deviceKnown /\ known' = known /\ knownSize' = knownSize
    /\ nativeState' = nativeState /\ mScopes' = mScopes /\ creating' = creating
    /\ callbackTasks' = callbackTasks /\ tasksInFlight' = tasksInFlight /\ raised' = raised

(* The client sends a command.                                             *)
LEMMA SendsAny ==
    ASSUME WireDeviceInv, live, NEW c \in Commands, ServerSame, wireError' = wireError,
           toServer' = (IF mDisconnected THEN toServer ELSE Append(toServer, c)),
           toClient' = toClient, mDisconnected' = mDisconnected,
           c.cmd = "DestroyDevice" => ~live',
           mErrorScopeStackSize' = ScopesAfter(c, mErrorScopeStackSize), ClientTypeOK',
           log' \in Seq(Events), Len(log') <= MaxCalls, mErrorScopeStackSize' <= Len(log'),
           c.cmd \in Asking /\ ~mDisconnected =>
              /\ answer[c.request] = "None" /\ answer'[c.request] = "Waiting"
              /\ reqKind'[c.request] = KindOf(c.cmd),
           \A r \in Requests : answer[r] # "None" =>
              /\ reqKind'[r] = reqKind[r] /\ answer'[r] # "None"
              /\ answer'[r] = answer[r] \/ (~live' /\ reqKind[r] # "Work")
    PROVE  /\ OwnInv' /\ KnownInv' => WireDeviceInv'
           /\ \A r \in Requests : Somewhere(r)' =>
                 \/ Somewhere(r)
                 \/ /\ toServer' # toServer /\ c.cmd \in Asking /\ c.request = r
                    /\ answer[r] = "None" /\ reqKind'[r] = KindOf(c.cmd)
  <1>1. /\ NoHandlerFails /\ ClientTypeOK /\ ServerTypeOK /\ ChannelTypeOK /\ DeviceInv /\ ScopeInv
        /\ KindInv /\ OnceInv /\ WaitInv /\ OwnInv /\ KnownInv
    BY InvParts
  <1>2. KnownTypes /\ toServer \in Seq(Commands) /\ toClient \in Seq(ReturnCommands)
    BY InvTypes
  <1>3. ServerTypeOK' /\ NoHandlerFails'
    BY <1>1 DEF ServerTypeOK, ServerSame, NoHandlerFails
  <1>4. toServer' = toServer \/ toServer' = Append(toServer, c)
    OBVIOUS
  <1>5. ChannelTypeOK'
    <2>1. toServer' \in Seq(Commands)
      BY <1>2, <1>4, SentType
    <2> QED
      BY <1>2, <2>1 DEF ChannelTypeOK
  <1>6. DeviceInv'
    <2>1. CASE mDisconnected
      BY <1>1, <2>1, Nothing DEF DeviceInv, ServerSame
    <2>2. CASE ~mDisconnected
      <3>1. deviceKnown /\ \A j \in DOMAIN toServer : toServer[j].cmd # "DestroyDevice"
        BY <1>1, <2>2 DEF DeviceInv
      <3>2. \A j \in DOMAIN toServer' : toServer'[j].cmd = "DestroyDevice" =>
               j = Len(toServer') /\ c.cmd = "DestroyDevice"
        BY <1>2, <2>2, <3>1, Added
      <3> QED
        BY <2>2, <3>1, <3>2 DEF DeviceInv, ServerSame
    <2> QED
      BY <2>1, <2>2
  <1>7. ScopeInv'
    <2>1. mErrorScopeStackSize' \in 0..MaxCalls
      BY DEF ClientTypeOK
    <2>2. mScopes' = mScopes
      BY DEF ServerSame
    <2> QED
      BY <1>1, <1>2, <2>1, <2>2, ScopesSent
  <1>8. live' => live
    OBVIOUS
  <1>9. creating' = creating /\ callbackTasks' = callbackTasks /\ tasksInFlight' = tasksInFlight
        /\ known' = known /\ knownSize' = knownSize
    BY DEF ServerSame
  <1>10. \/ toServer' = toServer
         \/ /\ toServer' = Append(toServer, c)
            /\ c.cmd \in Asking =>
                    /\ answer[c.request] = "None" /\ answer'[c.request] = "Waiting"
                    /\ reqKind'[c.request] = KindOf(c.cmd)
    OBVIOUS
  <1>11. /\ KindInv' /\ OnceInv' /\ WaitInv'
         /\ \A r \in Requests : Somewhere(r)' =>
                 Somewhere(r) \/ (toServer' # toServer /\ c.cmd \in Asking /\ c.request = r)
    BY <1>1, <1>2, <1>8, <1>9, <1>10, ClientMoves
  <1> QED
    BY <1>3, <1>5, <1>6, <1>7, <1>10, <1>11, InvMade

(* One that names no pipeline.                                             *)
LEMMA Sends ==
    ASSUME WireDeviceInv, live, NEW c \in Commands, ServerSame, wireError' = wireError,
           toServer' = (IF mDisconnected THEN toServer ELSE Append(toServer, c)),
           toClient' = toClient, mDisconnected' = mDisconnected,
           c.cmd \notin {"CreatePipeline", "DestroyPipeline"},
           c.cmd = "DestroyDevice" => ~live',
           pipelineId' = pipelineId, held' = held, mFreeIds' = mFreeIds, mCurrentId' = mCurrentId,
           mErrorScopeStackSize' = ScopesAfter(c, mErrorScopeStackSize), ClientTypeOK',
           log' \in Seq(Events), Len(log') <= MaxCalls, mErrorScopeStackSize' <= Len(log'),
           c.cmd \in Asking /\ ~mDisconnected =>
              /\ answer[c.request] = "None" /\ answer'[c.request] = "Waiting"
              /\ reqKind'[c.request] = KindOf(c.cmd),
           \A r \in Requests : answer[r] # "None" =>
              /\ reqKind'[r] = reqKind[r] /\ answer'[r] # "None"
              /\ answer'[r] = answer[r] \/ (~live' /\ reqKind[r] # "Work")
    PROVE  WireDeviceInv'
  <1>1. WaitInv /\ OwnInv /\ KnownInv /\ KnownTypes
    BY InvParts, InvTypes
  <1>2. toServer' = toServer \/ toServer' = Append(toServer, c)
    OBVIOUS
  <1>3. live' => live
    OBVIOUS
  <1>4. creating' = creating /\ callbackTasks' = callbackTasks /\ known' = known /\ knownSize' = knownSize
    BY DEF ServerSame
  <1>5. /\ OwnInv' /\ KnownInv' => WireDeviceInv'
        /\ \A r \in Requests : Somewhere(r)' =>
              \/ Somewhere(r)
              \/ c.cmd \in Asking /\ answer[r] = "None" /\ reqKind'[r] = KindOf(c.cmd)
    BY SendsAny
  <1>6. c.cmd \in Asking => KindOf(c.cmd) # "Pipeline"
    BY DEF KindOf, Asking
  <1>7. OwnInv'
    BY <1>1, <1>5, <1>6, OwnQuiet
  <1>8. KnownInv'
    BY <1>1, <1>2, <1>3, <1>4, QuietKnown
  <1> QED
    BY <1>5, <1>7, <1>8

(* The client takes an answer.                                             *)
LEMMA Takes ==
    ASSUME WireDeviceInv, toClient # <<>>, toClient' = Tail(toClient), toServer' = toServer,
           ServerSame, live' = live, mDisconnected' = mDisconnected,
           mErrorScopeStackSize' = mErrorScopeStackSize, log' = log, reqKind' = reqKind,
           \A r \in Requests : answer[r] # "None" =>
              /\ answer'[r] # "None"
              /\ answer'[r] = answer[r] \/ (toClient[1].ret \in Telling /\ toClient[1].request = r)
    PROVE  /\ ServerTypeOK' /\ ChannelTypeOK' /\ DeviceInv' /\ ScopeInv'
           /\ KindInv' /\ OnceInv' /\ WaitInv'
           /\ \A r \in Requests : Somewhere(r)' => Somewhere(r)
           /\ toClient[1].ret \in Telling => \A r \in Requests :
                 r = toClient[1].request => IsReplied(r) /\ ~Inside(r) /\ ~IsSent(r) /\ ~Somewhere(r)'
                                            /\ reqKind[r] = toClient[1].ret
  <1>1. /\ NoHandlerFails /\ ClientTypeOK /\ ServerTypeOK /\ ChannelTypeOK /\ DeviceInv /\ ScopeInv
        /\ KindInv /\ OnceInv /\ WaitInv /\ OwnInv /\ KnownInv
    BY InvParts
  <1>2. KnownTypes /\ toServer \in Seq(Commands) /\ toClient \in Seq(ReturnCommands)
    BY InvTypes
  <1>3. ServerTypeOK'
    BY <1>1 DEF ServerTypeOK, ServerSame
  <1>4. ChannelTypeOK'
    <2>1. toClient' \in Seq(ReturnCommands)
      BY <1>2, TakenType
    <2> QED
      BY <1>1, <2>1 DEF ChannelTypeOK
  <1>5. DeviceInv'
    BY <1>1 DEF DeviceInv, ServerSame
  <1>6. ScopeInv'
    BY <1>1 DEF ScopeInv, Counts, ServerSame
  <1>7. creating' = creating /\ callbackTasks' = callbackTasks /\ tasksInFlight' = tasksInFlight
    BY DEF ServerSame
  <1>8. TellOnce(toClient) /\ TellKind(toClient, reqKind)
    BY <1>1, PlacesRead
  <1>9. ASSUME NEW r \in Requests, toClient[1].ret \in Telling, r = toClient[1].request
        PROVE  IsReplied(r) /\ ~Inside(r) /\ ~IsSent(r) /\ ~Somewhere(r)' /\ reqKind[r] = toClient[1].ret
    <2>1. IsReplied(r) /\ ~IsReplied(r)' /\ reqKind[r] = toClient[1].ret
      BY <1>2, <1>8, <1>9, TellsTail, PlacesRead, PlacesRead2
    <2>2. ~Inside(r) /\ ~IsSent(r)
      BY <1>1, <2>1, OnceRead
    <2>3. ~Inside(r)' /\ ~IsSent(r)'
      BY <1>7, <2>2 DEF Inside, IsSent, InTask, InQueue
    <2> QED
      BY <2>1, <2>2, <2>3 DEF Somewhere, Inside
  <1>10. \A r \in Requests : answer[r] # "None" =>
              /\ reqKind'[r] = reqKind[r] /\ answer'[r] # "None"
              /\ \/ answer'[r] = answer[r]
                 \/ ~Somewhere(r)'
                 \/ ~live' /\ reqKind[r] # "Work"
    BY <1>9
  <1>11. PICK c \in Commands : c = [cmd |-> "Destroy"]
    BY CommandsMade
  <1>12. /\ KindInv' /\ OnceInv' /\ WaitInv'
         /\ \A r \in Requests : Somewhere(r)' =>
                 Somewhere(r) \/ (toServer' # toServer /\ c.cmd \in Asking /\ c.request = r)
    BY <1>1, <1>2, <1>7, <1>10, ClientMoves
  <1> QED
    BY <1>3, <1>4, <1>5, <1>6, <1>9, <1>12

(* The same, when no id is given back and no pipeline given out.           *)
LEMMA TakesQuietly ==
    ASSUME WireDeviceInv, toClient # <<>>, toClient' = Tail(toClient), toServer' = toServer,
           ServerSame, wireError' = wireError, live' = live, mDisconnected' = mDisconnected,
           mErrorScopeStackSize' = mErrorScopeStackSize, log' = log, reqKind' = reqKind,
           \A r \in Requests : answer[r] # "None" =>
              /\ answer'[r] # "None"
              /\ answer'[r] = answer[r] \/ (toClient[1].ret \in Telling /\ toClient[1].request = r),
           pipelineId' = pipelineId, held' = held, mFreeIds' = mFreeIds, mCurrentId' = mCurrentId,
           ClientTypeOK'
    PROVE  WireDeviceInv'
  <1>1. /\ NoHandlerFails /\ WaitInv /\ OwnInv /\ KnownInv
    BY InvParts
  <1>2. KnownTypes
    BY InvTypes
  <1>3. /\ ServerTypeOK' /\ ChannelTypeOK' /\ DeviceInv' /\ ScopeInv'
        /\ KindInv' /\ OnceInv' /\ WaitInv'
        /\ \A r \in Requests : Somewhere(r)' => Somewhere(r)
    BY Takes
  <1>4. OwnInv'
    BY <1>1, <1>3, OwnQuiet
  <1>5. PICK c \in Commands : c = [cmd |-> "Destroy"]
    BY CommandsMade
  <1>6. known' = known /\ knownSize' = knownSize /\ creating' = creating /\ callbackTasks' = callbackTasks
    BY DEF ServerSame
  <1>7. KnownInv'
    BY <1>1, <1>2, <1>5, <1>6, QuietKnown
  <1>8. NoHandlerFails'
    BY <1>1 DEF NoHandlerFails
  <1> QED
    BY <1>3, <1>4, <1>7, <1>8, InvMade

(* The server takes a command or none, and answers.                        *)
ClientSame ==
    /\ live' = live /\ mDisconnected' = mDisconnected
    /\ mErrorScopeStackSize' = mErrorScopeStackSize /\ mDidRunLostCallback' = mDidRunLostCallback
    /\ reported' = reported /\ reqKind' = reqKind /\ answer' = answer /\ message' = message
    /\ pipelineId' = pipelineId /\ held' = held /\ mFreeIds' = mFreeIds /\ mCurrentId' = mCurrentId
    /\ log' = log

(* No scope, request or entry is out of step after it.                     *)
LEMMA Serves ==
    ASSUME WireDeviceInv, ClientSame, wireError' = wireError, ~mDisconnected,
           NEW cmds \in Seq(ReturnCommands), toClient' = toClient \o cmds,
           \/ toServer' = toServer /\ mScopes' = mScopes /\ deviceKnown' = deviceKnown
           \/ /\ toServer # <<>> /\ toServer' = Tail(toServer)
              /\ Len(mScopes') = ScopesAfter(toServer[1], Len(mScopes))
              /\ deviceKnown' = (deviceKnown /\ toServer[1].cmd # "DestroyDevice"),
           ServerTypeOK', KindInv', OnceInv', WaitInv', OwnInv', KnownInv'
    PROVE  WireDeviceInv'
  <1>1. /\ NoHandlerFails /\ ClientTypeOK /\ ServerTypeOK /\ ChannelTypeOK /\ DeviceInv /\ ScopeInv
    BY InvParts
  <1>2. toServer \in Seq(Commands) /\ toClient \in Seq(ReturnCommands)
    BY InvTypes
  <1>3. NoHandlerFails'
    BY <1>1 DEF NoHandlerFails
  <1>4. ClientTypeOK'
    BY <1>1 DEF ClientTypeOK, ClientSame
  <1>5. ChannelTypeOK'
    <2>1. toServer # <<>> => Tail(toServer) \in Seq(Commands)
      BY <1>2, Beheaded
    <2>2. toServer' \in Seq(Commands)
      BY <1>2, <2>1
    <2>3. toClient' \in Seq(ReturnCommands)
      BY <1>2, Joined
    <2> QED
      BY <1>1, <2>2, <2>3 DEF ChannelTypeOK, ClientSame
  <1>6. CASE toServer' = toServer /\ mScopes' = mScopes /\ deviceKnown' = deviceKnown
    <2>1. DeviceInv'
      BY <1>1, <1>6 DEF DeviceInv, ClientSame
    <2>2. ScopeInv'
      BY <1>1, <1>6 DEF ScopeInv, Counts, ClientSame
    <2> QED
      BY <1>3, <1>4, <1>5, <2>1, <2>2, InvMade
  <1>7. CASE /\ toServer # <<>> /\ toServer' = Tail(toServer)
             /\ Len(mScopes') = ScopesAfter(toServer[1], Len(mScopes))
             /\ deviceKnown' = (deviceKnown /\ toServer[1].cmd # "DestroyDevice")
    <2>1. ScopeInv'
      BY <1>1, <1>2, <1>7, ScopesTaken DEF ClientSame
    <2>2. /\ Len(toServer) \in Nat \ {0} /\ Len(toServer') = Len(toServer) - 1 /\ 1 \in DOMAIN toServer
          /\ DOMAIN toServer' = 1..(Len(toServer) - 1)
          /\ \A j \in DOMAIN toServer' : j \in Nat /\ j + 1 \in DOMAIN toServer /\ toServer'[j] = toServer[j + 1]
      BY <1>2, <1>7, Beheaded
    <2>3. deviceKnown
      BY <1>1, <1>7 DEF DeviceInv
    <2>4. \A j \in DOMAIN toServer' : toServer'[j].cmd = "DestroyDevice" => ~live' /\ j = Len(toServer')
      <3> SUFFICES ASSUME NEW j \in DOMAIN toServer', toServer'[j].cmd = "DestroyDevice"
                   PROVE  ~live' /\ j = Len(toServer')
        OBVIOUS
      <3>1. j + 1 \in DOMAIN toServer /\ toServer[j + 1].cmd = "DestroyDevice"
        BY <2>2
      <3>2. ~live /\ j + 1 = Len(toServer)
        BY <1>1, <3>1 DEF DeviceInv
      <3>3. j = Len(toServer')
        <4>1. j \in Nat /\ Len(toServer) \in Nat /\ Len(toServer') = Len(toServer) - 1
          BY <2>2
        <4> QED
          BY <3>2, <4>1
      <3> QED
        BY <3>2, <3>3 DEF ClientSame
    <2>5. ~deviceKnown' => toServer' = <<>> /\ ~live'
      <3> SUFFICES ASSUME toServer[1].cmd = "DestroyDevice" PROVE toServer' = <<>> /\ ~live'
        BY <1>7, <2>3
      <3>1. ~live /\ 1 = Len(toServer)
        BY <1>1, <2>2 DEF DeviceInv
      <3>2. Len(toServer') = 0
        <4>1. Len(toServer') = Len(toServer) - 1
          BY <2>2
        <4> QED
          BY <3>1, <4>1
      <3>3. toServer' \in Seq(Commands)
        BY <1>5 DEF ChannelTypeOK
      <3> QED
        BY <3>1, <3>2, <3>3, EmptySeq DEF ClientSame
    <2>6. DeviceInv'
      <3>1. ~mDisconnected'
        BY DEF ClientSame
      <3> QED
        BY <2>4, <2>5, <3>1 DEF DeviceInv
    <2> QED
      BY <1>3, <1>4, <1>5, <2>1, <2>6, InvMade
  <1> QED
    BY <1>6, <1>7

-----------------------------------------------------------------------------
(* The client's calls.                                                     *)

(* A call that is counted leaves room in log.                              *)
LEMMA Noted ==
    ASSUME WireDeviceInv, CountCall
    PROVE  /\ Len(log) \in Nat /\ Len(log) < MaxCalls
           /\ Len(log) + 1 \in 1..MaxCalls
           /\ mErrorScopeStackSize \in Nat /\ mErrorScopeStackSize <= Len(log)
           /\ \A e \in Events : Append(log, e) \in Seq(Events) /\ Len(Append(log, e)) = Len(log) + 1
  <1>1. /\ log \in Seq(Events) /\ Len(log) \in Nat
        /\ mErrorScopeStackSize \in Nat /\ mErrorScopeStackSize <= Len(log)
    BY InvTypes
  <1>2. PICK S : S = {r \in Requests : reqKind[r] = "Pipeline"}
    OBVIOUS
  <1>3. Cardinality(S) \in Nat
    <2>1. IsFiniteSet(Requests)
      BY FS_Interval, WireDeviceBounds DEF Requests
    <2>2. S \subseteq Requests
      BY <1>2
    <2>3. IsFiniteSet(S)
      BY <2>1, <2>2, FS_Subset
    <2> QED
      BY <2>3, FS_CardinalityType
  <1>4. Len(log) + Cardinality(S) < MaxCalls
    BY <1>2 DEF CountCall
  <1>5. Len(log) < MaxCalls
    BY <1>1, <1>3, <1>4, WireDeviceBounds
  <1>6. Len(log) + 1 \in 1..MaxCalls
    BY <1>1, <1>5, WireDeviceBounds
  <1>7. \A e \in Events : Append(log, e) \in Seq(Events) /\ Len(Append(log, e)) = Len(log) + 1
    BY <1>1, AppendProperties
  <1> QED
    BY <1>1, <1>5, <1>6, <1>7

(* NewRequest keeps the types, and the other requests.                     *)
LEMMA Asked ==
    ASSUME ClientTypeOK, NEW r \in Requests, NEW kind \in {"Pop", "Pipeline", "Work"},
           NEW status \in {"Waiting", "DeviceLost"}, NewRequest(r, kind, status)
    PROVE  /\ reqKind' \in [Requests -> {"None", "Pop", "Pipeline", "Work"}]
           /\ answer' \in [Requests -> {"None", "Waiting", "NoError", "Validation", "OutOfMemory",
                                "Unknown", "DeviceLost", "DeviceDestroyed", "Error", "Success"}]
           /\ message' = message /\ Fresh(r) /\ answer[r] = "None"
           /\ answer'[r] = status /\ reqKind'[r] = kind
           /\ \A q \in Requests : q # r => answer'[q] = answer[q] /\ reqKind'[q] = reqKind[q]
  <1>1. /\ reqKind \in [Requests -> {"None", "Pop", "Pipeline", "Work"}]
        /\ answer \in [Requests -> {"None", "Waiting", "NoError", "Validation", "OutOfMemory",
                                "Unknown", "DeviceLost", "DeviceDestroyed", "Error", "Success"}]
    BY DEF ClientTypeOK
  <1>2. /\ reqKind' = [reqKind EXCEPT ![r] = kind] /\ answer' = [answer EXCEPT ![r] = status]
        /\ message' = message /\ Fresh(r)
    BY DEF NewRequest
  <1>3. answer[r] = "None"
    BY <1>2 DEF Fresh
  <1> QED
    BY <1>1, <1>2, <1>3

(* What the calls leave alone.                                             *)
LEMMA CallFrame ==
    ASSUME UNCHANGED <<toClient, serverVars, wireError, nativeVars>>
    PROVE  ServerSame /\ toClient' = toClient /\ wireError' = wireError
  BY DEF ServerSame, serverVars, nativeVars

(* Device::PushErrorScope                                                  *)
LEMMA PushKeeps ==
    ASSUME WireDeviceInv, NEW filter \in Filters, PushErrorScope(filter) PROVE WireDeviceInv'
  <1>1. PICK c \in Commands : c = [cmd |-> "Push", filter |-> filter]
    BY CommandsMade
  <1>2. c.cmd = "Push"
    BY <1>1
  <1>3. /\ live /\ CountCall /\ log' = Append(log, [op |-> "Push", filter |-> filter])
        /\ mErrorScopeStackSize' = mErrorScopeStackSize + 1
        /\ toServer' = (IF mDisconnected THEN toServer ELSE Append(toServer, c))
        /\ live' = live /\ mDisconnected' = mDisconnected
        /\ mDidRunLostCallback' = mDidRunLostCallback /\ reported' = reported
        /\ UNCHANGED <<toClient, serverVars, wireError, nativeVars>>
    BY <1>1 DEF PushErrorScope, Note, Send
  <1>4. /\ pipelineId' = pipelineId /\ held' = held /\ mFreeIds' = mFreeIds /\ mCurrentId' = mCurrentId
        /\ reqKind' = reqKind /\ answer' = answer /\ message' = message
    BY DEF PushErrorScope, idVars, requestVars
  <1>5. ServerSame /\ toClient' = toClient /\ wireError' = wireError
    BY <1>3, CallFrame
  <1>6. /\ log' \in Seq(Events) /\ Len(log') = Len(log) + 1 /\ Len(log) \in Nat
        /\ Len(log) < MaxCalls /\ mErrorScopeStackSize \in Nat /\ mErrorScopeStackSize <= Len(log)
    BY <1>3, Noted, EventsMade
  <1>7. /\ Len(log') <= MaxCalls /\ mErrorScopeStackSize' <= Len(log')
        /\ mErrorScopeStackSize' \in 0..MaxCalls
    BY <1>3, <1>6, WireDeviceBounds
  <1>8. ClientTypeOK
    BY InvParts
  <1>9. ClientTypeOK'
    BY <1>3, <1>4, <1>7, <1>8 DEF ClientTypeOK
  <1>10. mErrorScopeStackSize' = ScopesAfter(c, mErrorScopeStackSize)
    BY <1>2, <1>3 DEF ScopesAfter
  <1>11. c.cmd \notin Asking
    BY <1>2 DEF Asking
  <1> QED
    BY <1>2, <1>3, <1>4, <1>5, <1>6, <1>7, <1>9, <1>10, <1>11, Sends

(* Device::InjectError                                                     *)
LEMMA InjectKeeps ==
    ASSUME WireDeviceInv, NEW type \in Filters, InjectError(type) PROVE WireDeviceInv'
  <1>0. CountCall
    BY DEF InjectError, Note
  <1>1. PICK c \in Commands : c = [cmd |-> "InjectError", type |-> type, at |-> Len(log) + 1]
    BY <1>0, CommandsMade, Noted
  <1>2. c.cmd = "InjectError"
    BY <1>1
  <1>3. /\ live /\ log' = Append(log, [op |-> "Error", type |-> type])
        /\ toServer' = (IF mDisconnected THEN toServer ELSE Append(toServer, c))
        /\ UNCHANGED <<toClient, serverVars, wireError, nativeVars>>
    BY <1>1 DEF InjectError, Note, Send
  <1>4. /\ pipelineId' = pipelineId /\ held' = held /\ mFreeIds' = mFreeIds /\ mCurrentId' = mCurrentId
        /\ reqKind' = reqKind /\ answer' = answer /\ message' = message
        /\ live' = live /\ mDisconnected' = mDisconnected /\ mErrorScopeStackSize' = mErrorScopeStackSize
        /\ mDidRunLostCallback' = mDidRunLostCallback /\ reported' = reported
    BY DEF InjectError, idVars, requestVars, clientVars
  <1>5. ServerSame /\ toClient' = toClient /\ wireError' = wireError
    BY <1>3, CallFrame
  <1>6. /\ log' \in Seq(Events) /\ Len(log') = Len(log) + 1 /\ Len(log) \in Nat
        /\ Len(log) < MaxCalls /\ mErrorScopeStackSize \in Nat /\ mErrorScopeStackSize <= Len(log)
    BY <1>0, <1>3, Noted, EventsMade
  <1>7. Len(log') <= MaxCalls /\ mErrorScopeStackSize' <= Len(log')
    BY <1>4, <1>6, WireDeviceBounds
  <1>8. ClientTypeOK
    BY InvParts
  <1>9. ClientTypeOK'
    BY <1>4, <1>8 DEF ClientTypeOK
  <1>10. mErrorScopeStackSize' = ScopesAfter(c, mErrorScopeStackSize)
    BY <1>2, <1>4 DEF ScopesAfter
  <1>11. c.cmd \notin Asking
    BY <1>2 DEF Asking
  <1> QED
    BY <1>2, <1>3, <1>4, <1>5, <1>6, <1>7, <1>9, <1>10, <1>11, Sends

(* Device::PopErrorScope                                                   *)
LEMMA PopKeeps ==
    ASSUME WireDeviceInv, NEW r \in Requests, PopErrorScope(r) PROVE WireDeviceInv'
  <1>1. PICK c \in Commands : c = [cmd |-> "Pop", request |-> r]
    BY CommandsMade
  <1>2. c.cmd = "Pop" /\ c.request = r
    BY <1>1
  <1>3. /\ live /\ CountCall /\ log' = Append(log, [op |-> "Pop", request |-> r])
        /\ mErrorScopeStackSize > 0 /\ mErrorScopeStackSize' = mErrorScopeStackSize - 1
        /\ toServer' = (IF mDisconnected THEN toServer ELSE Append(toServer, c))
        /\ live' = live /\ mDisconnected' = mDisconnected
        /\ mDidRunLostCallback' = mDidRunLostCallback /\ reported' = reported
        /\ UNCHANGED <<toClient, serverVars, wireError, nativeVars>>
    BY <1>1 DEF PopErrorScope, Note, Send
  <1>4. /\ pipelineId' = pipelineId /\ held' = held /\ mFreeIds' = mFreeIds /\ mCurrentId' = mCurrentId
    BY DEF PopErrorScope, idVars
  <1>5. ServerSame /\ toClient' = toClient /\ wireError' = wireError
    BY <1>3, CallFrame
  <1>6. /\ log' \in Seq(Events) /\ Len(log') = Len(log) + 1 /\ Len(log) \in Nat
        /\ Len(log) < MaxCalls /\ mErrorScopeStackSize \in Nat /\ mErrorScopeStackSize <= Len(log)
    BY <1>3, Noted, EventsMade
  <1>7. /\ Len(log') <= MaxCalls /\ mErrorScopeStackSize' <= Len(log')
        /\ mErrorScopeStackSize' \in 0..MaxCalls
    BY <1>3, <1>6, WireDeviceBounds
  <1>8. ClientTypeOK
    BY InvParts
  <1>9. PICK status \in {"Waiting", "DeviceLost"} : status = IF mDisconnected THEN "DeviceLost" ELSE "Waiting"
    OBVIOUS
  <1>10. NewRequest(r, "Pop", status)
    BY <1>9 DEF PopErrorScope
  <1>11. /\ reqKind' \in [Requests -> {"None", "Pop", "Pipeline", "Work"}]
         /\ answer' \in [Requests -> {"None", "Waiting", "NoError", "Validation", "OutOfMemory",
                                "Unknown", "DeviceLost", "DeviceDestroyed", "Error", "Success"}]
         /\ message' = message /\ answer[r] = "None"
         /\ answer'[r] = status /\ reqKind'[r] = "Pop"
         /\ \A q \in Requests : q # r => answer'[q] = answer[q] /\ reqKind'[q] = reqKind[q]
    BY <1>8, <1>10, Asked
  <1>12. ClientTypeOK'
    BY <1>3, <1>4, <1>7, <1>8, <1>11 DEF ClientTypeOK
  <1>13. mErrorScopeStackSize' = ScopesAfter(c, mErrorScopeStackSize)
    BY <1>2, <1>3 DEF ScopesAfter
  <1>14. ~mDisconnected => /\ answer[c.request] = "None" /\ answer'[c.request] = "Waiting"
                           /\ reqKind'[c.request] = KindOf(c.cmd)
    BY <1>2, <1>9, <1>11 DEF KindOf
  <1> QED
    BY <1>2, <1>3, <1>4, <1>5, <1>6, <1>7, <1>11, <1>12, <1>13, <1>14, Sends

(* Queue::OnSubmittedWorkDone                                              *)
LEMMA WorkKeeps ==
    ASSUME WireDeviceInv, NEW r \in Requests, OnSubmittedWorkDone(r) PROVE WireDeviceInv'
  <1>0. CountCall
    BY DEF OnSubmittedWorkDone, Note
  <1>1. PICK c \in Commands : c = [cmd |-> "Work", request |-> r, at |-> Len(log) + 1]
    BY <1>0, CommandsMade, Noted
  <1>2. c.cmd = "Work" /\ c.request = r
    BY <1>1
  <1>3. /\ live /\ log' = Append(log, [op |-> "Work", request |-> r])
        /\ toServer' = (IF mDisconnected THEN toServer ELSE Append(toServer, c))
        /\ UNCHANGED <<toClient, serverVars, wireError, nativeVars>>
    BY <1>1 DEF OnSubmittedWorkDone, Note, Send
  <1>4. /\ pipelineId' = pipelineId /\ held' = held /\ mFreeIds' = mFreeIds /\ mCurrentId' = mCurrentId
        /\ live' = live /\ mDisconnected' = mDisconnected /\ mErrorScopeStackSize' = mErrorScopeStackSize
        /\ mDidRunLostCallback' = mDidRunLostCallback /\ reported' = reported
    BY DEF OnSubmittedWorkDone, idVars, clientVars
  <1>5. ServerSame /\ toClient' = toClient /\ wireError' = wireError
    BY <1>3, CallFrame
  <1>6. /\ log' \in Seq(Events) /\ Len(log') = Len(log) + 1 /\ Len(log) \in Nat
        /\ Len(log) < MaxCalls /\ mErrorScopeStackSize \in Nat /\ mErrorScopeStackSize <= Len(log)
    BY <1>0, <1>3, Noted, EventsMade
  <1>7. Len(log') <= MaxCalls /\ mErrorScopeStackSize' <= Len(log')
    BY <1>4, <1>6, WireDeviceBounds
  <1>8. ClientTypeOK
    BY InvParts
  <1>9. PICK status \in {"Waiting", "DeviceLost"} : status = IF mDisconnected THEN "DeviceLost" ELSE "Waiting"
    OBVIOUS
  <1>10. NewRequest(r, "Work", status)
    BY <1>9 DEF OnSubmittedWorkDone
  <1>11. /\ reqKind' \in [Requests -> {"None", "Pop", "Pipeline", "Work"}]
         /\ answer' \in [Requests -> {"None", "Waiting", "NoError", "Validation", "OutOfMemory",
                                "Unknown", "DeviceLost", "DeviceDestroyed", "Error", "Success"}]
         /\ message' = message /\ answer[r] = "None"
         /\ answer'[r] = status /\ reqKind'[r] = "Work"
         /\ \A q \in Requests : q # r => answer'[q] = answer[q] /\ reqKind'[q] = reqKind[q]
    BY <1>8, <1>10, Asked
  <1>12. ClientTypeOK'
    BY <1>4, <1>8, <1>11 DEF ClientTypeOK
  <1>13. mErrorScopeStackSize' = ScopesAfter(c, mErrorScopeStackSize)
    BY <1>2, <1>4 DEF ScopesAfter
  <1>14. ~mDisconnected => /\ answer[c.request] = "None" /\ answer'[c.request] = "Waiting"
                           /\ reqKind'[c.request] = KindOf(c.cmd)
    BY <1>2, <1>9, <1>11 DEF KindOf
  <1> QED
    BY <1>2, <1>3, <1>4, <1>5, <1>6, <1>7, <1>11, <1>12, <1>13, <1>14, Sends

(* Device::Destroy                                                         *)
LEMMA DestroyKeeps ==
    ASSUME WireDeviceInv, Destroy PROVE WireDeviceInv'
  <1>1. PICK c \in Commands : c = [cmd |-> "Destroy"]
    BY CommandsMade
  <1>2. c.cmd = "Destroy"
    BY <1>1
  <1>3. /\ live /\ log' = log
        /\ toServer' = (IF mDisconnected THEN toServer ELSE Append(toServer, c))
        /\ UNCHANGED <<toClient, serverVars, wireError, nativeVars>>
    BY <1>1 DEF Destroy, Send
  <1>4. /\ pipelineId' = pipelineId /\ held' = held /\ mFreeIds' = mFreeIds /\ mCurrentId' = mCurrentId
        /\ reqKind' = reqKind /\ answer' = answer /\ message' = message
        /\ live' = live /\ mDisconnected' = mDisconnected /\ mErrorScopeStackSize' = mErrorScopeStackSize
        /\ mDidRunLostCallback' = mDidRunLostCallback /\ reported' = reported
    BY DEF Destroy, idVars, requestVars, clientVars
  <1>5. ServerSame /\ toClient' = toClient /\ wireError' = wireError
    BY <1>3, CallFrame
  <1>6. ClientTypeOK /\ log \in Seq(Events) /\ Len(log) <= MaxCalls /\ mErrorScopeStackSize <= Len(log)
    BY InvParts, InvTypes
  <1>7. ClientTypeOK'
    BY <1>4, <1>6 DEF ClientTypeOK
  <1>8. mErrorScopeStackSize' = ScopesAfter(c, mErrorScopeStackSize)
    BY <1>2, <1>4 DEF ScopesAfter
  <1>9. c.cmd \notin Asking
    BY <1>2 DEF Asking
  <1> QED
    BY <1>2, <1>3, <1>4, <1>5, <1>6, <1>7, <1>8, <1>9, Sends

(* The last reference of the device.                                       *)
LEMMA ReleaseDeviceKeeps ==
    ASSUME WireDeviceInv, ReleaseDevice PROVE WireDeviceInv'
  <1>1. PICK c \in Commands : c = [cmd |-> "DestroyDevice"]
    BY CommandsMade
  <1>2. c.cmd = "DestroyDevice"
    BY <1>1
  <1>3. /\ live /\ log' = log /\ live' = FALSE
        /\ toServer' = (IF mDisconnected THEN toServer ELSE Append(toServer, c))
        /\ UNCHANGED <<toClient, serverVars, wireError, nativeVars>>
    BY <1>1 DEF ReleaseDevice, Send
  <1>4. /\ pipelineId' = pipelineId /\ held' = held /\ mFreeIds' = mFreeIds /\ mCurrentId' = mCurrentId
        /\ reqKind' = reqKind /\ message' = message
        /\ mDisconnected' = mDisconnected /\ mErrorScopeStackSize' = mErrorScopeStackSize
        /\ mDidRunLostCallback' = mDidRunLostCallback /\ reported' = reported
    BY DEF ReleaseDevice, idVars
  <1>5. ServerSame /\ toClient' = toClient /\ wireError' = wireError
    BY <1>3, CallFrame
  <1>6. ClientTypeOK /\ log \in Seq(Events) /\ Len(log) <= MaxCalls /\ mErrorScopeStackSize <= Len(log)
    BY InvParts, InvTypes
  <1>7. answer' = [r \in Requests |->
            IF Waiting(r) /\ reqKind[r] = "Pop" THEN "Unknown"
            ELSE IF Waiting(r) /\ reqKind[r] = "Pipeline" THEN "DeviceDestroyed"
            ELSE answer[r]]
    BY DEF ReleaseDevice
  <1>8. answer \in [Requests -> {"None", "Waiting", "NoError", "Validation", "OutOfMemory",
                                "Unknown", "DeviceLost", "DeviceDestroyed", "Error", "Success"}]
    BY <1>6 DEF ClientTypeOK
  <1>9. answer' \in [Requests -> {"None", "Waiting", "NoError", "Validation", "OutOfMemory",
                                "Unknown", "DeviceLost", "DeviceDestroyed", "Error", "Success"}]
    BY <1>7, <1>8
  <1>10. ClientTypeOK'
    BY <1>3, <1>4, <1>6, <1>9 DEF ClientTypeOK
  <1>11. \A r \in Requests : answer[r] # "None" => answer'[r] # "None" /\ (answer'[r] = answer[r] \/ reqKind[r] # "Work")
    BY <1>7
  <1>12. mErrorScopeStackSize' = ScopesAfter(c, mErrorScopeStackSize)
    BY <1>2, <1>4 DEF ScopesAfter
  <1>13. c.cmd \notin Asking
    BY <1>2 DEF Asking
  <1> QED
    BY <1>2, <1>3, <1>4, <1>5, <1>6, <1>10, <1>11, <1>12, <1>13, Sends

(* An id that is a pipeline's.                                             *)
LEMMA CreatePipelineKeeps ==
    ASSUME WireDeviceInv, NEW r \in Requests, CreatePipelineAsync(r) PROVE WireDeviceInv'
  <1>1. /\ live /\ log' = log
        /\ UNCHANGED <<toClient, serverVars, wireError, nativeVars>>
    BY DEF CreatePipelineAsync
  <1>2. /\ live' = live /\ mDisconnected' = mDisconnected /\ mErrorScopeStackSize' = mErrorScopeStackSize
        /\ mDidRunLostCallback' = mDidRunLostCallback /\ reported' = reported
    BY DEF CreatePipelineAsync, clientVars
  <1>3. ServerSame /\ toClient' = toClient /\ wireError' = wireError
    BY <1>1, CallFrame
  <1>4. /\ ClientTypeOK /\ log \in Seq(Events) /\ Len(log) <= MaxCalls /\ mErrorScopeStackSize <= Len(log)
        /\ KnownTypes /\ KnownInv /\ KindInv /\ OnceInv /\ WaitInv /\ OwnInv
    BY InvParts, InvTypes
  <1>5. PICK status \in {"Waiting", "DeviceLost"} : status = IF mDisconnected THEN "DeviceLost" ELSE "Waiting"
    OBVIOUS
  <1>6. NewRequest(r, "Pipeline", status)
    BY <1>5 DEF CreatePipelineAsync
  <1>7. /\ reqKind' \in [Requests -> {"None", "Pop", "Pipeline", "Work"}]
        /\ answer' \in [Requests -> {"None", "Waiting", "NoError", "Validation", "OutOfMemory",
                                "Unknown", "DeviceLost", "DeviceDestroyed", "Error", "Success"}]
        /\ message' = message /\ Fresh(r) /\ answer[r] = "None"
        /\ answer'[r] = status /\ reqKind'[r] = "Pipeline"
        /\ \A q \in Requests : q # r => answer'[q] = answer[q] /\ reqKind'[q] = reqKind[q]
    BY <1>4, <1>6, Asked
  <1>8. CASE mDisconnected
    <2>1. toServer' = toServer /\ pipelineId' = pipelineId /\ held' = held /\ mFreeIds' = mFreeIds
          /\ mCurrentId' = mCurrentId
      BY <1>8 DEF CreatePipelineAsync, idVars
    <2>2. ClientTypeOK'
      BY <1>2, <1>4, <1>7, <2>1 DEF ClientTypeOK
    <2>3. PICK c \in Commands : c = [cmd |-> "Destroy"]
      BY CommandsMade
    <2>4. c.cmd = "Destroy"
      BY <2>3
    <2>5. mErrorScopeStackSize' = ScopesAfter(c, mErrorScopeStackSize) /\ c.cmd \notin Asking
      BY <1>2, <2>4 DEF ScopesAfter, Asking
    <2>6. toServer' = (IF mDisconnected THEN toServer ELSE Append(toServer, c))
      BY <1>8, <2>1
    <2> QED
      BY <1>1, <1>2, <1>3, <1>4, <1>7, <2>1, <2>2, <2>4, <2>5, <2>6, Sends
  <1>9. CASE ~mDisconnected
    <2>1. PICK i : i = NewId
      OBVIOUS
    <2>2. i \in Ids
      BY <1>1, <1>4, <1>7, <1>9, <2>1, NewIdFacts
    <2>3. PICK c \in Commands : c = [cmd |-> "CreatePipeline", request |-> r, id |-> i]
      BY <2>2, CommandsMade
    <2>4. c.cmd = "CreatePipeline" /\ c.request = r /\ c.id = i
      BY <2>3
    <2>5. /\ pipelineId' = [pipelineId EXCEPT ![r] = i]
          /\ mFreeIds' = (IF mFreeIds = <<>> THEN mFreeIds ELSE Front(mFreeIds))
          /\ mCurrentId' = (IF mFreeIds = <<>> THEN mCurrentId + 1 ELSE mCurrentId)
          /\ held' = held /\ toServer' = Append(toServer, c)
      BY <1>9, <2>1, <2>3 DEF CreatePipelineAsync, NewId, Send
    <2>6. ClientTypeOK'
      <3>1. pipelineId \in [Requests -> 0..MaxRequests] /\ mCurrentId \in 1..(MaxRequests + 1) /\ mFreeIds \in Seq(Ids)
        BY <1>4 DEF ClientTypeOK
      <3>2. i \in 0..MaxRequests
        BY <2>2, WireDeviceBounds DEF Ids
      <3>3. pipelineId' \in [Requests -> 0..MaxRequests]
        BY <2>5, <3>1, <3>2
      <3>4. mFreeIds' \in Seq(Ids)
        BY <1>1, <1>4, <1>7, <1>9, <2>5, <3>1, NewIdFacts
      <3>5. mCurrentId <= r
        BY <1>4, <1>7 DEF OwnInv
      <3>6. mCurrentId' \in 1..(MaxRequests + 1)
        BY <2>5, <3>1, <3>5, WireDeviceBounds DEF Requests
      <3> QED
        BY <1>2, <1>4, <1>7, <2>5, <3>3, <3>4, <3>6 DEF ClientTypeOK
    <2>7. mErrorScopeStackSize' = ScopesAfter(c, mErrorScopeStackSize)
      BY <1>2, <2>4 DEF ScopesAfter
    <2>8. c.cmd \in Asking =>
              /\ answer[c.request] = "None" /\ answer'[c.request] = "Waiting"
              /\ reqKind'[c.request] = KindOf(c.cmd)
      BY <1>5, <1>7, <1>9, <2>4 DEF KindOf
    <2>9. toServer' = (IF mDisconnected THEN toServer ELSE Append(toServer, c))
      BY <1>9, <2>5
    <2>10. /\ OwnInv' /\ KnownInv' => WireDeviceInv'
           /\ \A q \in Requests : Somewhere(q)' => Somewhere(q) \/ c.request = q
      BY <1>1, <1>2, <1>3, <1>4, <1>7, <2>4, <2>6, <2>7, <2>8, <2>9, SendsAny
    <2>11. OwnInv'
      BY <1>1, <1>4, <1>7, <1>9, <2>1, <2>4, <2>5, <2>10, OwnAsked
    <2>12. KnownInv'
      <3>1. creating' = creating /\ callbackTasks' = callbackTasks /\ known' = known /\ knownSize' = knownSize
        BY <1>3 DEF ServerSame
      <3> QED
        BY <1>1, <1>2, <1>3, <1>4, <1>7, <1>9, <2>1, <2>4, <2>5, <3>1, AskedKnown
    <2> QED
      BY <2>10, <2>11, <2>12
  <1> QED
    BY <1>8, <1>9

(* The last reference of a pipeline.                                       *)
LEMMA ReleasePipelineKeeps ==
    ASSUME WireDeviceInv, NEW r \in Requests, ReleasePipeline(r) PROVE WireDeviceInv'
  <1>1. /\ live /\ held[r] /\ log' = log /\ held' = [held EXCEPT ![r] = FALSE]
        /\ UNCHANGED <<toClient, serverVars, wireError, nativeVars>>
    BY DEF ReleasePipeline
  <1>2. /\ live' = live /\ mDisconnected' = mDisconnected /\ mErrorScopeStackSize' = mErrorScopeStackSize
        /\ mDidRunLostCallback' = mDidRunLostCallback /\ reported' = reported
        /\ reqKind' = reqKind /\ answer' = answer /\ message' = message
    BY DEF ReleasePipeline, clientVars, requestVars
  <1>3. ServerSame /\ toClient' = toClient /\ wireError' = wireError
    BY <1>1, CallFrame
  <1>4. /\ ClientTypeOK /\ log \in Seq(Events) /\ Len(log) <= MaxCalls /\ mErrorScopeStackSize <= Len(log)
        /\ KnownTypes /\ KnownInv /\ KindInv /\ OnceInv /\ WaitInv /\ OwnInv
    BY InvParts, InvTypes
  <1>5. PICK i : i = pipelineId[r]
    OBVIOUS
  <1>6. pipelineId[r] # 0 /\ ~Somewhere(r) /\ answer[r] # "None"
    BY <1>1, <1>4 DEF OwnInv
  <1>7. i \in Ids
    BY <1>4, <1>5, <1>6, OwnIds
  <1>8. PICK c \in Commands : c = [cmd |-> "DestroyPipeline", id |-> i]
    BY <1>7, CommandsMade
  <1>9. c.cmd = "DestroyPipeline" /\ c.id = i
    BY <1>8
  <1>10. /\ pipelineId' = [pipelineId EXCEPT ![r] = 0] /\ mFreeIds' = Append(mFreeIds, i)
         /\ mCurrentId' = mCurrentId
         /\ toServer' = (IF mDisconnected THEN toServer ELSE Append(toServer, c))
    BY <1>5, <1>8 DEF ReleasePipeline, FreeId, Send
  <1>11. ClientTypeOK'
    <2>1. /\ pipelineId \in [Requests -> 0..MaxRequests] /\ mFreeIds \in Seq(Ids)
          /\ held \in [Requests -> BOOLEAN]
      BY <1>4 DEF ClientTypeOK
    <2>2. 0 \in 0..MaxRequests
      BY WireDeviceBounds
    <2>3. pipelineId' \in [Requests -> 0..MaxRequests]
      BY <1>10, <2>1, <2>2
    <2>4. held' \in [Requests -> BOOLEAN]
      BY <1>1, <2>1
    <2>5. mFreeIds' \in Seq(Ids)
      BY <1>7, <1>10, <2>1, AppendProperties
    <2> QED
      BY <1>2, <1>4, <1>10, <2>3, <2>4, <2>5 DEF ClientTypeOK
  <1>12. mErrorScopeStackSize' = ScopesAfter(c, mErrorScopeStackSize) /\ c.cmd \notin Asking
    BY <1>2, <1>9 DEF ScopesAfter, Asking
  <1>13. /\ OwnInv' /\ KnownInv' => WireDeviceInv'
         /\ \A q \in Requests : Somewhere(q)' => Somewhere(q)
    BY <1>1, <1>2, <1>3, <1>4, <1>9, <1>10, <1>11, <1>12, SendsAny
  <1>14. OwnInv'
    <2>1. ~Somewhere(r)'
      BY <1>6, <1>13
    <2> QED
      BY <1>1, <1>2, <1>4, <1>5, <1>6, <1>7, <1>10, <1>13, <2>1, OwnFreed
  <1>15. KnownInv'
    <2>1. creating' = creating /\ callbackTasks' = callbackTasks /\ known' = known /\ knownSize' = knownSize
      BY <1>3 DEF ServerSame
    <2>2. ~IsSent(r) /\ ~Inside(r) /\ ~IsReplied(r)
      BY <1>6 DEF Somewhere, Inside
    <2>3. IsReplied(r)' => FALSE
      BY <1>3, <2>2 DEF IsReplied
    <2>4. ~mDisconnected => known[i].state = "Allocated"
      <3>1. creating \subseteq Requests /\ callbackTasks \in Seq(Tasks) /\ toServer \in Seq(Commands)
        BY <1>4 DEF KnownTypes
      <3>2. EntriesOK
        BY <1>4, <3>1, KnownRead
      <3>3. ~mDisconnected => known[pipelineId[r]] = Allocate(r)
        BY <1>1, <3>2, Zenon DEF EntriesOK
      <3> QED
        BY <1>5, <3>3 DEF Allocate
    <2>5. \/ toServer' = toServer /\ (live /\ ~mDisconnected => known[i].state = "Free")
          \/ toServer' = Append(toServer, c) /\ known[i].state = "Allocated"
      BY <1>10, <2>4
    <2> QED
      BY <1>1, <1>2, <1>3, <1>4, <1>5, <1>7, <1>9, <1>10, <2>1, <2>2, <2>3, <2>5, FreedKnown
  <1> QED
    BY <1>13, <1>14, <1>15

(* Client::Disconnect                                                      *)
LEMMA DisconnectKeeps ==
    ASSUME WireDeviceInv, Disconnect PROVE WireDeviceInv'
  <1>1. /\ mDisconnected' = TRUE /\ mDidRunLostCallback' = (mDidRunLostCallback \/ live)
        /\ answer' = [r \in Requests |-> IF Waiting(r) THEN "DeviceLost" ELSE answer[r]]
        /\ toServer' = <<>> /\ toClient' = <<>>
        /\ live' = live /\ mErrorScopeStackSize' = mErrorScopeStackSize /\ reported' = reported
        /\ reqKind' = reqKind /\ message' = message /\ log' = log /\ wireError' = wireError
    BY DEF Disconnect
  <1>2. pipelineId' = pipelineId /\ held' = held /\ mFreeIds' = mFreeIds /\ mCurrentId' = mCurrentId
    BY DEF Disconnect, idVars
  <1>3. ServerSame
    BY DEF Disconnect, serverVars, nativeVars, ServerSame
  <1>4. /\ NoHandlerFails /\ ClientTypeOK /\ ServerTypeOK /\ ChannelTypeOK /\ DeviceInv /\ ScopeInv
        /\ KindInv /\ OnceInv /\ WaitInv /\ OwnInv /\ KnownInv /\ KnownTypes
    BY InvParts, InvTypes
  <1>5. answer' \in [Requests -> {"None", "Waiting", "NoError", "Validation", "OutOfMemory",
                                "Unknown", "DeviceLost", "DeviceDestroyed", "Error", "Success"}]
    <2>1. answer \in [Requests -> {"None", "Waiting", "NoError", "Validation", "OutOfMemory",
                                "Unknown", "DeviceLost", "DeviceDestroyed", "Error", "Success"}]
      BY <1>4 DEF ClientTypeOK
    <2> QED
      BY <1>1, <2>1
  <1>6. mDidRunLostCallback' \in BOOLEAN
    BY <1>1, <1>4 DEF ClientTypeOK
  <1>7. ClientTypeOK'
    BY <1>1, <1>2, <1>4, <1>5, <1>6 DEF ClientTypeOK
  <1>8. ServerTypeOK' /\ NoHandlerFails'
    BY <1>1, <1>3, <1>4 DEF ServerTypeOK, ServerSame, NoHandlerFails
  <1>9. ChannelTypeOK'
    BY <1>1, <1>4, Nothing DEF ChannelTypeOK
  <1>10. DeviceInv' /\ ScopeInv'
    BY <1>1, Nothing DEF DeviceInv, ScopeInv
  <1>11. DOMAIN toServer' = {} /\ DOMAIN toClient' = {}
    BY <1>1, Nothing
  <1>12. creating' = creating /\ callbackTasks' = callbackTasks /\ tasksInFlight' = tasksInFlight
         /\ known' = known /\ knownSize' = knownSize
    BY <1>3 DEF ServerSame
  <1>13. \A r \in Requests : /\ ~IsSent(r)' /\ ~IsReplied(r)'
                             /\ (InTask(r)' <=> InTask(r)) /\ (InQueue(r)' <=> InQueue(r))
    BY <1>11, <1>12 DEF IsSent, IsReplied, InTask, InQueue
  <1>14. KindInv'
    BY <1>1, <1>4, <1>11, <1>12, <1>13 DEF KindInv
  <1>15. OnceInv'
    BY <1>4, <1>11, <1>12, <1>13 DEF OnceInv
  <1>16. \A r \in Requests : Somewhere(r)' => Somewhere(r)
    BY <1>12, <1>13 DEF Somewhere
  <1>17. \A r \in Requests : answer[r] # "None" => answer'[r] # "None"
    BY <1>1
  <1>18. WaitInv'
    BY <1>1, <1>4, <1>16, <1>17 DEF WaitInv
  <1>19. OwnInv'
    BY <1>1, <1>2, <1>4, <1>16, <1>17, OwnQuiet
  <1>20. KnownInv'
    BY <1>1, <1>2, <1>4, <1>12, SilentKnown
  <1> QED
    BY <1>7, <1>8, <1>9, <1>10, <1>14, <1>15, <1>18, <1>19, <1>20, InvMade

-----------------------------------------------------------------------------
(* The client's handlers.                                                  *)

(* What is at the head of toClient.  A request it answers is waited for.   *)
LEMMA AnswerTaken ==
    ASSUME WireDeviceInv, NEW name, ReceiveReply(name)
    PROVE  /\ toClient # <<>> /\ toClient' = Tail(toClient) /\ Head(toClient) = toClient[1]
           /\ toClient[1] \in ReturnCommands /\ toClient[1].ret = name /\ ~mDisconnected
           /\ name \in Telling => \A r \in Requests : r = toClient[1].request =>
                 /\ answer[r] # "None" /\ reqKind[r] = name
                 /\ live \/ name = "Work" => Acquired(r, name)
                 /\ name = "Pipeline" => pipelineId[r] # 0
  <1>1. toClient \in Seq(ReturnCommands) /\ DeviceInv /\ WaitInv /\ KindInv /\ OwnInv
    BY InvTypes, InvParts
  <1>2. toClient # <<>> /\ toClient' = Tail(toClient) /\ Head(toClient).ret = name
    BY DEF ReceiveReply
  <1>3. 1 \in DOMAIN toClient /\ Head(toClient) = toClient[1] /\ toClient[1] \in ReturnCommands
    BY <1>1, <1>2, Beheaded
  <1>4. ~mDisconnected
    BY <1>1, <1>2 DEF DeviceInv
  <1>5. ASSUME name \in Telling, NEW r \in Requests, r = toClient[1].request
        PROVE  /\ answer[r] # "None" /\ reqKind[r] = name
               /\ live \/ name = "Work" => Acquired(r, name)
               /\ name = "Pipeline" => pipelineId[r] # 0
    <2>1. IsReplied(r)
      BY <1>2, <1>3, <1>5 DEF IsReplied
    <2>2. reqKind[r] = name
      BY <1>1, <1>2, <1>3, <1>5 DEF KindInv
    <2>3. Somewhere(r)
      BY <2>1 DEF Somewhere
    <2>4. answer[r] # "None" /\ (live \/ reqKind[r] = "Work" => Waiting(r))
      BY <1>1, <1>4, <2>3 DEF WaitInv
    <2>5. name = "Pipeline" => pipelineId[r] # 0
      BY <1>1, <2>2, <2>3 DEF OwnInv
    <2> QED
      BY <2>2, <2>4, <2>5 DEF Acquired
  <1> QED
    BY <1>2, <1>3, <1>4, <1>5

(* What a handler of the client leaves alone.                              *)
LEMMA HandlerFrame ==
    ASSUME UNCHANGED <<toServer, serverVars, nativeVars, log>>
    PROVE  ServerSame /\ toServer' = toServer /\ log' = log
  BY DEF ServerSame, serverVars, nativeVars

(* Client::DoDeviceUncapturedErrorCallback                                 *)
LEMMA UncapturedKeeps ==
    ASSUME WireDeviceInv, DoDeviceUncapturedErrorCallback PROVE WireDeviceInv'
  <1>1. ReceiveReply("UncapturedError")
    BY DEF DoDeviceUncapturedErrorCallback
  <1>2. /\ toClient # <<>> /\ toClient' = Tail(toClient) /\ Head(toClient) = toClient[1]
        /\ toClient[1] \in ReturnCommands /\ toClient[1].ret = "UncapturedError"
    BY <1>1, AnswerTaken
  <1>3. toClient[1].error \in 1..MaxCalls
    BY <1>2, ReturnFacts
  <1>4. /\ live' = live /\ mDisconnected' = mDisconnected /\ mErrorScopeStackSize' = mErrorScopeStackSize
        /\ mDidRunLostCallback' = mDidRunLostCallback
        /\ wireError' = wireError /\ reqKind' = reqKind /\ answer' = answer /\ message' = message
        /\ pipelineId' = pipelineId /\ held' = held /\ mFreeIds' = mFreeIds /\ mCurrentId' = mCurrentId
        /\ UNCHANGED <<toServer, serverVars, nativeVars, log>>
    BY DEF DoDeviceUncapturedErrorCallback, requestVars, idVars
  <1>5. reported' = IF live THEN Append(reported, toClient[1].error) ELSE reported
    BY <1>2 DEF DoDeviceUncapturedErrorCallback
  <1>6. ClientTypeOK
    BY InvParts
  <1>7. reported' \in Seq(1..MaxCalls)
    <2>1. reported \in Seq(1..MaxCalls)
      BY <1>6 DEF ClientTypeOK
    <2> QED
      BY <1>3, <1>5, <2>1, AppendProperties
  <1>8. ClientTypeOK'
    BY <1>4, <1>6, <1>7 DEF ClientTypeOK
  <1> QED
    BY <1>2, <1>4, <1>8, HandlerFrame, TakesQuietly

(* Client::DoDeviceLostCallback                                            *)
LEMMA LostKeeps ==
    ASSUME WireDeviceInv, DoDeviceLostCallback PROVE WireDeviceInv'
  <1>1. ReceiveReply("Lost")
    BY DEF DoDeviceLostCallback
  <1>2. toClient # <<>> /\ toClient' = Tail(toClient)
    BY <1>1, AnswerTaken
  <1>3. /\ live' = live /\ mDisconnected' = mDisconnected /\ mErrorScopeStackSize' = mErrorScopeStackSize
        /\ reported' = reported /\ mDidRunLostCallback' = (mDidRunLostCallback \/ live)
        /\ wireError' = wireError /\ reqKind' = reqKind /\ answer' = answer /\ message' = message
        /\ pipelineId' = pipelineId /\ held' = held /\ mFreeIds' = mFreeIds /\ mCurrentId' = mCurrentId
        /\ UNCHANGED <<toServer, serverVars, nativeVars, log>>
    BY DEF DoDeviceLostCallback, requestVars, idVars
  <1>4. ClientTypeOK
    BY InvParts
  <1>5. mDidRunLostCallback' \in BOOLEAN
    BY <1>3, <1>4 DEF ClientTypeOK
  <1>6. ClientTypeOK'
    BY <1>3, <1>4, <1>5 DEF ClientTypeOK
  <1> QED
    BY <1>2, <1>3, <1>6, HandlerFrame, TakesQuietly

(* A request is answered.                                                  *)
LEMMA Answered ==
    ASSUME ClientTypeOK, NEW r \in Requests, NEW error \in 0..MaxCalls,
           NEW status \in {"NoError", "Validation", "OutOfMemory", "DeviceLost", "DeviceDestroyed",
                           "Error", "Success"},
           Answer(r, status, error)
    PROVE  /\ answer' \in [Requests -> {"None", "Waiting", "NoError", "Validation", "OutOfMemory",
                                "Unknown", "DeviceLost", "DeviceDestroyed", "Error", "Success"}]
           /\ message' \in [Requests -> 0..MaxCalls]
           /\ reqKind' = reqKind /\ wireError' = wireError /\ answer'[r] # "None"
           /\ \A q \in Requests : q # r => answer'[q] = answer[q]
  <1>1. /\ answer \in [Requests -> {"None", "Waiting", "NoError", "Validation", "OutOfMemory",
                                "Unknown", "DeviceLost", "DeviceDestroyed", "Error", "Success"}]
        /\ message \in [Requests -> 0..MaxCalls]
    BY DEF ClientTypeOK
  <1>2. /\ answer' = [answer EXCEPT ![r] = status] /\ message' = [message EXCEPT ![r] = error]
        /\ reqKind' = reqKind /\ wireError' = wireError
    BY DEF Answer
  <1>3. message' \in [Requests -> 0..MaxCalls]
    BY <1>1, <1>2
  <1> QED
    BY <1>1, <1>2, <1>3

(* Client::DoDevicePopErrorScopeCallback                                   *)
LEMMA PopAnsweredKeeps ==
    ASSUME WireDeviceInv, DoDevicePopErrorScopeCallback PROVE WireDeviceInv'
  <1>1. ReceiveReply("Pop") /\ "Pop" \in Telling
    BY DEF DoDevicePopErrorScopeCallback, Telling
  <1>2. /\ toClient # <<>> /\ toClient' = Tail(toClient) /\ Head(toClient) = toClient[1]
        /\ toClient[1] \in ReturnCommands /\ toClient[1].ret = "Pop"
        /\ \A r \in Requests : r = toClient[1].request /\ live => Acquired(r, "Pop")
    BY <1>1, AnswerTaken
  <1>3. UNCHANGED <<toServer, serverVars, nativeVars, log>>
    BY DEF DoDevicePopErrorScopeCallback
  <1>4. ServerSame /\ toServer' = toServer /\ log' = log
    BY <1>3, HandlerFrame
  <1>5. ClientTypeOK
    BY InvParts
  <1>6. CASE ~live
    <2>1. UNCHANGED <<requestVars, clientVars, idVars, wireError>>
      BY <1>6 DEF DoDevicePopErrorScopeCallback
    <2>2. /\ live' = live /\ mDisconnected' = mDisconnected /\ mErrorScopeStackSize' = mErrorScopeStackSize
          /\ reported' = reported /\ mDidRunLostCallback' = mDidRunLostCallback
          /\ wireError' = wireError /\ reqKind' = reqKind /\ answer' = answer /\ message' = message
          /\ pipelineId' = pipelineId /\ held' = held /\ mFreeIds' = mFreeIds /\ mCurrentId' = mCurrentId
      BY <2>1 DEF requestVars, idVars, clientVars
    <2>3. ClientTypeOK'
      BY <1>5, <2>2 DEF ClientTypeOK
    <2> QED
      BY <1>2, <1>4, <2>2, <2>3, TakesQuietly
  <1>7. CASE live
    <2>1. PICK r \in Requests : r = toClient[1].request
      BY <1>1, <1>2, ReturnFacts
    <2>2. toClient[1].status \in {"NoError"} \cup Filters /\ toClient[1].error \in 0..MaxCalls
      BY <1>2, ReturnFacts
    <2>3. Acquired(r, "Pop")
      BY <1>2, <1>7, <2>1
    <2>4. Answer(r, toClient[1].status, toClient[1].error) /\ UNCHANGED <<clientVars, idVars>>
      BY <1>2, <1>7, <2>1, <2>3 DEF DoDevicePopErrorScopeCallback
    <2>5. PICK status, error : status = toClient[1].status /\ error = toClient[1].error
      OBVIOUS
    <2>6. status \in {"NoError", "Validation", "OutOfMemory"} /\ error \in 0..MaxCalls
          /\ Answer(r, status, error)
      BY <2>2, <2>4, <2>5 DEF Filters
    <2>7. /\ answer' \in [Requests -> {"None", "Waiting", "NoError", "Validation", "OutOfMemory",
                                "Unknown", "DeviceLost", "DeviceDestroyed", "Error", "Success"}]
          /\ message' \in [Requests -> 0..MaxCalls]
          /\ reqKind' = reqKind /\ wireError' = wireError /\ answer'[r] # "None"
          /\ \A q \in Requests : q # r => answer'[q] = answer[q]
      BY <1>5, <2>6, Answered
    <2>8. /\ live' = live /\ mDisconnected' = mDisconnected /\ mErrorScopeStackSize' = mErrorScopeStackSize
          /\ reported' = reported /\ mDidRunLostCallback' = mDidRunLostCallback
          /\ pipelineId' = pipelineId /\ held' = held /\ mFreeIds' = mFreeIds /\ mCurrentId' = mCurrentId
      BY <2>4 DEF idVars, clientVars
    <2>9. ClientTypeOK'
      BY <1>5, <2>7, <2>8 DEF ClientTypeOK
    <2>10. \A q \in Requests : answer[q] # "None" =>
              /\ answer'[q] # "None"
              /\ answer'[q] = answer[q] \/ (toClient[1].ret \in Telling /\ toClient[1].request = q)
      BY <1>1, <1>2, <2>1, <2>7
    <2> QED
      BY <1>2, <1>4, <2>7, <2>8, <2>9, <2>10, TakesQuietly
  <1> QED
    BY <1>6, <1>7

(* Client::DoQueueWorkDoneCallback                                         *)
LEMMA WorkAnsweredKeeps ==
    ASSUME WireDeviceInv, DoQueueWorkDoneCallback PROVE WireDeviceInv'
  <1>1. ReceiveReply("Work") /\ "Work" \in Telling
    BY DEF DoQueueWorkDoneCallback, Telling
  <1>2. /\ toClient # <<>> /\ toClient' = Tail(toClient) /\ Head(toClient) = toClient[1]
        /\ toClient[1] \in ReturnCommands /\ toClient[1].ret = "Work"
        /\ \A r \in Requests : r = toClient[1].request => Acquired(r, "Work")
    BY <1>1, AnswerTaken
  <1>3. UNCHANGED <<toServer, serverVars, nativeVars, log>>
    BY DEF DoQueueWorkDoneCallback
  <1>4. ServerSame /\ toServer' = toServer /\ log' = log
    BY <1>3, HandlerFrame
  <1>5. ClientTypeOK
    BY InvParts
  <1>6. PICK r \in Requests : r = toClient[1].request
    BY <1>1, <1>2, ReturnFacts
  <1>7. PICK status : status = toClient[1].status
    OBVIOUS
  <1>8. status \in {"Success", "DeviceLost"}
    BY <1>2, <1>7, ReturnFacts
  <1>9. Answer(r, status, 0) /\ UNCHANGED <<clientVars, idVars>>
    BY <1>2, <1>6, <1>7 DEF DoQueueWorkDoneCallback
  <1>10. /\ answer' \in [Requests -> {"None", "Waiting", "NoError", "Validation", "OutOfMemory",
                                "Unknown", "DeviceLost", "DeviceDestroyed", "Error", "Success"}]
         /\ message' \in [Requests -> 0..MaxCalls]
         /\ reqKind' = reqKind /\ wireError' = wireError /\ answer'[r] # "None"
         /\ \A q \in Requests : q # r => answer'[q] = answer[q]
    <2>1. 0 \in 0..MaxCalls
      BY WireDeviceBounds
    <2> QED
      BY <1>5, <1>8, <1>9, <2>1, Answered
  <1>11. /\ live' = live /\ mDisconnected' = mDisconnected /\ mErrorScopeStackSize' = mErrorScopeStackSize
         /\ reported' = reported /\ mDidRunLostCallback' = mDidRunLostCallback
         /\ pipelineId' = pipelineId /\ held' = held /\ mFreeIds' = mFreeIds /\ mCurrentId' = mCurrentId
    BY <1>9 DEF idVars, clientVars
  <1>12. ClientTypeOK'
    BY <1>5, <1>10, <1>11 DEF ClientTypeOK
  <1>13. \A q \in Requests : answer[q] # "None" =>
              /\ answer'[q] # "None"
              /\ answer'[q] = answer[q] \/ (toClient[1].ret \in Telling /\ toClient[1].request = q)
    BY <1>1, <1>2, <1>6, <1>10
  <1> QED
    BY <1>2, <1>4, <1>10, <1>11, <1>12, <1>13, TakesQuietly

(* Client::DoDeviceCreateComputePipelineAsyncCallback                      *)
LEMMA PipelineAnsweredKeeps ==
    ASSUME WireDeviceInv, DoDeviceCreatePipelineAsyncCallback PROVE WireDeviceInv'
  <1>1. ReceiveReply("Pipeline") /\ "Pipeline" \in Telling
    BY DEF DoDeviceCreatePipelineAsyncCallback, Telling
  <1>2. /\ toClient # <<>> /\ toClient' = Tail(toClient) /\ Head(toClient) = toClient[1]
        /\ toClient[1] \in ReturnCommands /\ toClient[1].ret = "Pipeline" /\ ~mDisconnected
        /\ \A r \in Requests : r = toClient[1].request =>
              answer[r] # "None" /\ (live => Acquired(r, "Pipeline")) /\ pipelineId[r] # 0
    BY <1>1, AnswerTaken
  <1>3. UNCHANGED <<toServer, serverVars, nativeVars, log>>
    BY DEF DoDeviceCreatePipelineAsyncCallback
  <1>4. ServerSame /\ toServer' = toServer /\ log' = log
    BY <1>3, HandlerFrame
  <1>5. ClientTypeOK
    BY InvParts
  <1>6. CASE ~live
    <2>1. UNCHANGED <<requestVars, clientVars, idVars, wireError>>
      BY <1>6 DEF DoDeviceCreatePipelineAsyncCallback
    <2>2. /\ live' = live /\ mDisconnected' = mDisconnected /\ mErrorScopeStackSize' = mErrorScopeStackSize
          /\ reported' = reported /\ mDidRunLostCallback' = mDidRunLostCallback
          /\ wireError' = wireError /\ reqKind' = reqKind /\ answer' = answer /\ message' = message
          /\ pipelineId' = pipelineId /\ held' = held /\ mFreeIds' = mFreeIds /\ mCurrentId' = mCurrentId
      BY <2>1 DEF requestVars, idVars, clientVars
    <2>3. ClientTypeOK'
      BY <1>5, <2>2 DEF ClientTypeOK
    <2> QED
      BY <1>2, <1>4, <2>2, <2>3, TakesQuietly
  <1>7. CASE live
    <2>1. PICK r \in Requests : r = toClient[1].request
      BY <1>1, <1>2, ReturnFacts
    <2>2. PICK status : status = toClient[1].status
      OBVIOUS
    <2>3. status \in {"Success", "Error", "DeviceLost", "DeviceDestroyed"}
      BY <1>2, <2>2, ReturnFacts
    <2>4. Acquired(r, "Pipeline") /\ answer[r] # "None" /\ pipelineId[r] # 0
      BY <1>2, <1>7, <2>1
    <2>5. /\ Answer(r, status, 0) /\ UNCHANGED clientVars
          /\ IF status = "Success"
               THEN /\ held' = [held EXCEPT ![r] = TRUE]
                    /\ UNCHANGED <<pipelineId, mFreeIds, mCurrentId>>
               ELSE FreeId(r) /\ UNCHANGED held
      BY <1>2, <1>7, <2>1, <2>2, <2>4 DEF DoDeviceCreatePipelineAsyncCallback
    <2>6. /\ answer' \in [Requests -> {"None", "Waiting", "NoError", "Validation", "OutOfMemory",
                                "Unknown", "DeviceLost", "DeviceDestroyed", "Error", "Success"}]
          /\ message' \in [Requests -> 0..MaxCalls]
          /\ reqKind' = reqKind /\ wireError' = wireError /\ answer'[r] # "None"
          /\ \A q \in Requests : q # r => answer'[q] = answer[q]
      <3>1. 0 \in 0..MaxCalls
        BY WireDeviceBounds
      <3> QED
        BY <1>5, <2>3, <2>5, <3>1, Answered
    <2>7. /\ live' = live /\ mDisconnected' = mDisconnected /\ mErrorScopeStackSize' = mErrorScopeStackSize
          /\ reported' = reported /\ mDidRunLostCallback' = mDidRunLostCallback
      BY <2>5 DEF clientVars
    <2>8. \A q \in Requests : answer[q] # "None" =>
              /\ answer'[q] # "None"
              /\ answer'[q] = answer[q] \/ (toClient[1].ret \in Telling /\ toClient[1].request = q)
      BY <1>1, <1>2, <2>1, <2>6
    <2>9. /\ ServerTypeOK' /\ ChannelTypeOK' /\ DeviceInv' /\ ScopeInv'
          /\ KindInv' /\ OnceInv' /\ WaitInv'
          /\ \A q \in Requests : Somewhere(q)' => Somewhere(q)
          /\ IsReplied(r) /\ ~Inside(r) /\ ~IsSent(r) /\ ~Somewhere(r)'
      BY <1>1, <1>2, <1>4, <2>1, <2>6, <2>7, <2>8, Takes
    <2>10. KnownTypes /\ KnownInv /\ KindInv /\ OnceInv /\ WaitInv /\ OwnInv /\ NoHandlerFails
      BY InvParts, InvTypes
    <2>11. creating' = creating /\ callbackTasks' = callbackTasks /\ known' = known /\ knownSize' = knownSize
      BY <1>4 DEF ServerSame
    <2>12. NoHandlerFails'
      BY <2>6, <2>10 DEF NoHandlerFails
    <2>13. \A q \in Requests : /\ answer[q] # "None" => answer'[q] # "None"
                               /\ reqKind'[q] = reqKind[q]
      BY <2>6, <2>8
    <2>14. CASE status = "Success"
      <3>1. /\ held' = [held EXCEPT ![r] = TRUE]
            /\ pipelineId' = pipelineId /\ mFreeIds' = mFreeIds /\ mCurrentId' = mCurrentId
        BY <2>5, <2>14
      <3>2. held \in [Requests -> BOOLEAN]
        BY <1>5 DEF ClientTypeOK
      <3>3. held' \in [Requests -> BOOLEAN]
        BY <3>1, <3>2
      <3>4. ClientTypeOK'
        BY <1>5, <2>6, <2>7, <3>1, <3>3 DEF ClientTypeOK
      <3>5. OwnInv'
        BY <2>4, <2>9, <2>10, <2>13, <3>1, OwnGiven
      <3>6. KnownInv'
        BY <1>2, <1>4, <1>7, <2>1, <2>2, <2>7, <2>10, <2>11, <2>14, <3>1, GivenKnown
      <3> QED
        BY <2>9, <2>12, <3>4, <3>5, <3>6, InvMade
    <2>15. CASE status # "Success"
      <3>1. PICK i : i = pipelineId[r]
        OBVIOUS
      <3>2. /\ pipelineId' = [pipelineId EXCEPT ![r] = 0] /\ mFreeIds' = Append(mFreeIds, i)
            /\ mCurrentId' = mCurrentId /\ held' = held
        BY <2>5, <2>15, <3>1 DEF FreeId
      <3>3. i \in Ids
        BY <2>4, <2>10, <3>1, OwnIds
      <3>4. /\ pipelineId \in [Requests -> 0..MaxRequests] /\ mFreeIds \in Seq(Ids)
            /\ held \in [Requests -> BOOLEAN]
        BY <1>5 DEF ClientTypeOK
      <3>5. ~held[r]
        <4>1. Somewhere(r)
          BY <2>9 DEF Somewhere
        <4> QED
          BY <2>10, <4>1 DEF OwnInv
      <3>6. held' = [held EXCEPT ![r] = FALSE]
        <4>1. held[r] = FALSE
          BY <3>4, <3>5, Zenon
        <4> QED
          BY <3>2, <3>4, <4>1
      <3>7. ClientTypeOK'
        <4>1. 0 \in 0..MaxRequests
          BY WireDeviceBounds
        <4>2. pipelineId' \in [Requests -> 0..MaxRequests]
          BY <3>2, <3>4, <4>1
        <4>3. mFreeIds' \in Seq(Ids)
          BY <3>2, <3>3, <3>4, AppendProperties
        <4> QED
          BY <1>5, <2>6, <2>7, <3>2, <4>2, <4>3 DEF ClientTypeOK
      <3>8. OwnInv'
        BY <2>4, <2>9, <2>10, <2>13, <3>1, <3>2, <3>3, <3>6, OwnFreed
      <3>9. PICK c \in Commands : c = [cmd |-> "DestroyPipeline", id |-> i]
        BY <3>3, CommandsMade
      <3>10. c.cmd = "DestroyPipeline" /\ c.id = i
        BY <3>9
      <3>11. known[i].state = "Free"
        <4>1. /\ toServer \in Seq(Commands) /\ creating \subseteq Requests /\ callbackTasks \in Seq(Tasks)
              /\ toClient \in Seq(ReturnCommands)
          BY <2>10 DEF KnownTypes
        <4>2. EntriesOK
          BY <2>10, <4>1, KnownRead
        <4>3. 1 \in DOMAIN toClient
          BY <1>2, <4>1, Beheaded
        <4>4. ReplyOK(toClient[1], pipelineId, known)
          BY <1>7, <4>2, <4>3 DEF EntriesOK
        <4> QED
          BY <1>2, <2>1, <2>2, <2>15, <3>1, <4>4 DEF ReplyOK
      <3>12. IsReplied(r)' => FALSE
        BY <2>9 DEF Somewhere
      <3>13. KnownInv'
        BY <1>2, <1>4, <2>7, <2>9, <2>10, <2>11, <3>1, <3>2, <3>3, <3>6, <3>10, <3>11, <3>12, FreedKnown
      <3> QED
        BY <2>9, <2>12, <3>7, <3>8, <3>13, InvMade
    <2> QED
      BY <2>14, <2>15
  <1> QED
    BY <1>5, <1>6, <1>7 DEF ClientTypeOK

-----------------------------------------------------------------------------
(* The server's handlers.                                                  *)

(* What is at the head of toServer.                                        *)
LEMMA Received ==
    ASSUME WireDeviceInv, NEW name, Receive(name)
    PROVE  /\ toServer # <<>> /\ toServer' = Tail(toServer) /\ Head(toServer) = toServer[1]
           /\ toServer[1] \in Commands /\ toServer[1].cmd = name /\ ~mDisconnected /\ deviceKnown
           /\ ClientSame
           /\ name \in Asking => \A r \in Requests : r = toServer[1].request =>
                 IsSent(r) /\ ~IsSent(r)' /\ ~Inside(r) /\ reqKind[r] = KindOf(name)
  <1>1. toServer \in Seq(Commands) /\ DeviceInv /\ KindInv /\ OnceInv
    BY InvTypes, InvParts
  <1>2. /\ toServer # <<>> /\ toServer' = Tail(toServer) /\ Head(toServer).cmd = name
        /\ UNCHANGED <<clientVars, requestVars, idVars, log>>
    BY DEF Receive
  <1>3. 1 \in DOMAIN toServer /\ Head(toServer) = toServer[1] /\ toServer[1] \in Commands
    BY <1>1, <1>2, Beheaded
  <1>4. ~mDisconnected /\ deviceKnown
    BY <1>1, <1>2 DEF DeviceInv
  <1>5. ClientSame
    BY <1>2 DEF ClientSame, clientVars, requestVars, idVars
  <1>6. ASSUME name \in Asking, NEW r \in Requests, r = toServer[1].request
        PROVE  IsSent(r) /\ ~IsSent(r)' /\ ~Inside(r) /\ reqKind[r] = KindOf(name)
    <2>1. AskOnce(toServer) /\ AskKind(toServer, reqKind)
      BY <1>1, PlacesRead
    <2>2. IsSent(r) /\ ~IsSent(r)' /\ reqKind[r] = KindOf(name)
      BY <1>1, <1>2, <1>3, <1>6, <2>1, AsksTail, PlacesRead, PlacesRead2
    <2> QED
      BY <1>1, <2>2, OnceRead
  <1> QED
    BY <1>2, <1>3, <1>4, <1>5, <1>6

(* A step of the server, whose requests move on.                           *)
LEMMA ServerStep ==
    ASSUME WireDeviceInv, ClientSame, wireError' = wireError, ~mDisconnected,
           NEW cmds \in Seq(ReturnCommands), toClient' = toClient \o cmds,
           \/ toServer' = toServer /\ mScopes' = mScopes /\ deviceKnown' = deviceKnown
           \/ /\ toServer # <<>> /\ toServer' = Tail(toServer)
              /\ Len(mScopes') = ScopesAfter(toServer[1], Len(mScopes))
              /\ deviceKnown' = (deviceKnown /\ toServer[1].cmd # "DestroyDevice"),
           ServerTypeOK', KnownInv',
           \A r \in Requests :
              /\ r \in creating' =>
                    r \in creating \/ (IsSent(r) /\ ~IsSent(r)' /\ reqKind[r] = "Pipeline")
              /\ InTask(r)' => InTask(r) \/ (r \in creating /\ r \notin creating')
              /\ InQueue(r)' => InQueue(r) \/ (IsSent(r) /\ ~IsSent(r)' /\ reqKind[r] = "Work")
              /\ Tells(cmds, r) => ~Inside(r)' /\ ~IsSent(r)' /\ (Inside(r) \/ IsSent(r)),
           TellOnce(cmds), TellKind(cmds, reqKind), TaskOnce', WorkOnce'
    PROVE  WireDeviceInv'
  <1>1. KindInv /\ OnceInv /\ WaitInv /\ OwnInv
    BY InvParts
  <1>2. toServer \in Seq(Commands) /\ toClient \in Seq(ReturnCommands)
    BY InvTypes
  <1>3. /\ live' = live /\ mDisconnected' = mDisconnected /\ reqKind' = reqKind /\ answer' = answer
        /\ pipelineId' = pipelineId /\ held' = held /\ mFreeIds' = mFreeIds /\ mCurrentId' = mCurrentId
    BY DEF ClientSame
  <1>4. toServer' = toServer \/ (toServer # <<>> /\ toServer' = Tail(toServer))
    OBVIOUS
  <1>5. KindInv' /\ OnceInv' /\ WaitInv' /\ OwnInv'
    BY <1>1, <1>2, <1>3, <1>4, ServerMoves
  <1> QED
    BY <1>5, Serves

(* A command about no pipeline.                                            *)
LEMMA QuietServe ==
    ASSUME WireDeviceInv, NEW name, Receive(name), wireError' = wireError,
           name \notin {"CreatePipeline", "DestroyPipeline", "DestroyDevice"},
           deviceKnown' = deviceKnown, known' = known, knownSize' = knownSize,
           creating' = creating, callbackTasks' = callbackTasks, ServerTypeOK',
           Len(mScopes') = ScopesAfter(toServer[1], Len(mScopes)),
           NEW cmds \in Seq(ReturnCommands), toClient' = toClient \o cmds, TellOnce(cmds),
           \A j \in DOMAIN cmds : cmds[j].ret \in Telling =>
              name \in Asking /\ cmds[j].ret = name /\ cmds[j].request = toServer[1].request,
           \/ tasksInFlight' = tasksInFlight
           \/ /\ cmds = <<>> /\ name = "Work"
              /\ tasksInFlight' = Append(tasksInFlight, toServer[1].request)
    PROVE  WireDeviceInv'
  <1>1. KindInv /\ OnceInv /\ WaitInv /\ OwnInv /\ KnownInv /\ ServerTypeOK
    BY InvParts
  <1>2. KnownTypes
    BY InvTypes
  <1>3. /\ toServer # <<>> /\ toServer' = Tail(toServer) /\ ~mDisconnected /\ deviceKnown
        /\ ClientSame /\ toServer[1] \in Commands /\ toServer[1].cmd = name
        /\ name \in Asking => \A r \in Requests : r = toServer[1].request =>
                 IsSent(r) /\ ~IsSent(r)' /\ ~Inside(r) /\ reqKind[r] = KindOf(name)
    BY Received
  <1>4. KindOf(name) = name
    BY DEF KindOf
  <1>5. name \in Asking => toServer[1].request \in Requests
    BY <1>3, CommandFacts
  <1>6. TellKind(cmds, reqKind)
    BY <1>3, <1>4, <1>5 DEF TellKind
  <1>7. \A r : Tells(cmds, r) => name \in Asking /\ r = toServer[1].request /\ DOMAIN cmds # {}
    BY DEF Tells
  <1>8. \A r : InTask(r)' <=> InTask(r)
    BY DEF InTask
  <1>9. tasksInFlight \in Seq(Requests)
    BY <1>1 DEF ServerTypeOK
  <1>10. /\ \A r : InQueue(r)' =>
               \/ InQueue(r)
               \/ name = "Work" /\ r = toServer[1].request /\ cmds = <<>>
         /\ WorkOnce'
    <2>1. CASE tasksInFlight' = tasksInFlight
      <3>1. WorkOnce
        BY <1>1 DEF OnceInv, WorkOnce
      <3> QED
        BY <2>1, <3>1 DEF InQueue, WorkOnce
    <2>2. CASE /\ cmds = <<>> /\ name = "Work"
               /\ tasksInFlight' = Append(tasksInFlight, toServer[1].request)
      <3>1. toServer[1].request \in Requests /\ ~InQueue(toServer[1].request)
        <4>1. toServer[1].request \in Requests
          BY <1>5, <2>2 DEF Asking
        <4> QED
          BY <1>3, <2>2, <4>1 DEF Asking, Inside
      <3>2. WorkOnce
        BY <1>1 DEF OnceInv, WorkOnce
      <3>3. /\ \A j \in DOMAIN tasksInFlight : tasksInFlight'[j] = tasksInFlight[j]
            /\ \A j \in DOMAIN tasksInFlight' :
                  j \in DOMAIN tasksInFlight \/ j = Len(tasksInFlight) + 1
            /\ tasksInFlight'[Len(tasksInFlight) + 1] = toServer[1].request
        BY <1>9, <2>2, <3>1, Added
      <3>4. WorkOnce'
        BY <3>1, <3>2, <3>3 DEF WorkOnce, InQueue
      <3> QED
        BY <2>2, <3>3, <3>4 DEF InQueue
    <2> QED
      BY <2>1, <2>2
  <1>11. ASSUME NEW r \in Requests
         PROVE  /\ r \in creating' =>
                      r \in creating \/ (IsSent(r) /\ ~IsSent(r)' /\ reqKind[r] = "Pipeline")
                /\ InTask(r)' => InTask(r) \/ (r \in creating /\ r \notin creating')
                /\ InQueue(r)' => InQueue(r) \/ (IsSent(r) /\ ~IsSent(r)' /\ reqKind[r] = "Work")
                /\ Tells(cmds, r) => ~Inside(r)' /\ ~IsSent(r)' /\ (Inside(r) \/ IsSent(r))
    <2>1. InQueue(r)' => InQueue(r) \/ (IsSent(r) /\ ~IsSent(r)' /\ reqKind[r] = "Work")
      BY <1>3, <1>4, <1>10 DEF Asking
    <2>2. ASSUME Tells(cmds, r) PROVE ~Inside(r)' /\ ~IsSent(r)' /\ (Inside(r) \/ IsSent(r))
      <3>1. IsSent(r) /\ ~IsSent(r)' /\ ~Inside(r)
        BY <1>3, <1>7, <2>2
      <3>2. ~InQueue(r)'
        BY <1>7, <1>10, <2>2, <3>1, Nothing DEF Inside
      <3> QED
        BY <1>8, <3>1, <3>2 DEF Inside
    <2> QED
      BY <1>8, <2>1, <2>2
  <1>12. TaskOnce'
    BY <1>1 DEF OnceInv, TaskOnce
  <1>13. creating' \subseteq Requests /\ callbackTasks' \in Seq(Tasks)
    BY DEF ServerTypeOK
  <1>14. \A j \in DOMAIN cmds : ReplyOK(cmds[j], pipelineId, known')
    BY DEF ReplyOK, Telling, Asking
  <1>15. KnownInv'
    <2>1. /\ live' = live /\ mDisconnected' = mDisconnected /\ pipelineId' = pipelineId
          /\ held' = held /\ mFreeIds' = mFreeIds /\ mCurrentId' = mCurrentId
      BY <1>3 DEF ClientSame
    <2>2. \A r \in Requests : r \in creating' \/ InTask(r)' =>
              (r \in creating \/ InTask(r)) /\ known'[pipelineId[r]] = known[pipelineId[r]]
      BY <1>8
    <2>3. toServer[1].cmd \notin {"CreatePipeline", "DestroyPipeline"}
      BY <1>3
    <2>4. \A i \in Ids : known'[i] = known[i] \/ known[i].state = "Reserved"
      OBVIOUS
    <2> QED
      BY <1>1, <1>2, <1>3, <1>13, <1>14, <2>1, <2>2, <2>3, <2>4, SettledKnown
  <1>16. deviceKnown' = (deviceKnown /\ toServer[1].cmd # "DestroyDevice")
    BY <1>3
  <1> QED
    BY <1>3, <1>6, <1>10, <1>11, <1>12, <1>15, <1>16, ServerStep

(* Server::DoDevicePushErrorScope                                          *)
LEMMA PushServed ==
    ASSUME WireDeviceInv, DoDevicePushErrorScope PROVE WireDeviceInv'
  <1>1. Receive("Push")
    BY DEF DoDevicePushErrorScope
  <1>2. /\ toServer[1].cmd = "Push" /\ deviceKnown /\ Head(toServer) = toServer[1]
        /\ toServer[1] \in Commands
    BY <1>1, Received
  <1>3. toServer[1].filter \in Filters
    BY <1>2, CommandFacts
  <1>4. /\ mScopes' = Append(mScopes, [filter |-> toServer[1].filter, captured |-> 0])
        /\ toClient' = toClient /\ deviceKnown' = deviceKnown /\ known' = known
        /\ knownSize' = knownSize /\ wireError' = wireError /\ nativeState' = nativeState
        /\ creating' = creating /\ callbackTasks' = callbackTasks /\ raised' = raised
        /\ tasksInFlight' = tasksInFlight
    BY <1>2 DEF DoDevicePushErrorScope, serverVars
  <1>5. ServerTypeOK
    BY InvParts
  <1>6. mScopes \in Seq([filter : Filters, captured : 0..MaxCalls])
    BY <1>5 DEF ServerTypeOK
  <1>7. [filter |-> toServer[1].filter, captured |-> 0] \in [filter : Filters, captured : 0..MaxCalls]
    BY <1>3, WireDeviceBounds
  <1>8. /\ mScopes' \in Seq([filter : Filters, captured : 0..MaxCalls])
        /\ Len(mScopes') = Len(mScopes) + 1
    BY <1>4, <1>6, <1>7, Added
  <1>9. ServerTypeOK'
    BY <1>4, <1>5, <1>8 DEF ServerTypeOK
  <1>10. Len(mScopes') = ScopesAfter(toServer[1], Len(mScopes))
    BY <1>2, <1>8 DEF ScopesAfter
  <1>11. PICK cmds \in Seq(ReturnCommands) : cmds = <<>>
    BY Nothing
  <1>12. toClient' = toClient \o cmds
    BY <1>4, <1>11, Nothing, InvTypes
  <1>13. TellOnce(cmds) /\ DOMAIN cmds = {}
    BY <1>11, Nothing DEF TellOnce
  <1> QED
    BY <1>1, <1>4, <1>9, <1>10, <1>12, <1>13, QuietServe

(* Server::DoDevicePopErrorScope: a scope is there.                        *)
LEMMA PopServed ==
    ASSUME WireDeviceInv, DoDevicePopErrorScope PROVE WireDeviceInv'
  <1>1. Receive("Pop")
    BY DEF DoDevicePopErrorScope
  <1>2. /\ toServer # <<>> /\ toServer[1].cmd = "Pop" /\ deviceKnown /\ Head(toServer) = toServer[1]
        /\ toServer[1] \in Commands /\ ~mDisconnected
    BY <1>1, Received
  <1>3. toServer[1].request \in Requests
    BY <1>2, CommandFacts DEF Asking
  <1>4. mScopes # <<>>
    <2>1. toServer \in Seq(Commands) /\ ScopeInv
      BY InvTypes, InvParts
    <2> QED
      BY <1>2, <2>1, ScopeThere
  <1>5. /\ mScopes' = Front(mScopes)
        /\ deviceKnown' = deviceKnown /\ known' = known
        /\ knownSize' = knownSize /\ wireError' = wireError /\ nativeState' = nativeState
        /\ creating' = creating /\ callbackTasks' = callbackTasks /\ raised' = raised
        /\ tasksInFlight' = tasksInFlight
    BY <1>2, <1>4 DEF DoDevicePopErrorScope, serverVars
  <1>6. ServerTypeOK
    BY InvParts
  <1>7. mScopes \in Seq([filter : Filters, captured : 0..MaxCalls])
    BY <1>6 DEF ServerTypeOK
  <1>8. /\ mScopes' \in Seq([filter : Filters, captured : 0..MaxCalls])
        /\ Len(mScopes) \in Nat \ {0} /\ Len(mScopes') = Len(mScopes) - 1
        /\ Last(mScopes) \in [filter : Filters, captured : 0..MaxCalls]
    BY <1>4, <1>5, <1>7, Cut
  <1>9. PICK scope \in [filter : Filters, captured : 0..MaxCalls] : scope = Last(mScopes)
    BY <1>8
  <1>10. PICK m \in ReturnCommands :
            m = [ret |-> "Pop", request |-> toServer[1].request,
                 status |-> IF scope.captured = 0 THEN "NoError" ELSE scope.filter,
                 error |-> scope.captured]
    <2>1. (IF scope.captured = 0 THEN "NoError" ELSE scope.filter) \in {"NoError"} \cup Filters
      BY <1>9
    <2>2. scope.captured \in 0..MaxCalls
      BY <1>9
    <2> QED
      BY <1>3, <2>1, <2>2, ReturnsMade
  <1>11. toClient' = toClient \o <<m>>
    BY <1>2, <1>4, <1>9, <1>10 DEF DoDevicePopErrorScope, Reply
  <1>12. m.ret = "Pop" /\ m.request = toServer[1].request
    BY <1>10
  <1>13. PICK cmds \in Seq(ReturnCommands) : cmds = <<m>>
    BY Single
  <1>14. DOMAIN cmds = {1} /\ cmds[1] = m
    BY <1>13, Single
  <1>15. TellOnce(cmds)
    BY <1>14 DEF TellOnce
  <1>16. \A j \in DOMAIN cmds : cmds[j].ret \in Telling =>
              "Pop" \in Asking /\ cmds[j].ret = "Pop" /\ cmds[j].request = toServer[1].request
    BY <1>12, <1>14 DEF Asking
  <1>17. ServerTypeOK'
    BY <1>5, <1>6, <1>8 DEF ServerTypeOK
  <1>18. Len(mScopes') = ScopesAfter(toServer[1], Len(mScopes))
    BY <1>2, <1>8 DEF ScopesAfter
  <1>19. toClient' = toClient \o cmds
    BY <1>11, <1>13
  <1> QED
    BY <1>1, <1>5, <1>15, <1>16, <1>17, <1>18, <1>19, QuietServe

(* An error is kept by a scope or told.                                    *)
LEMMA ErrorHandled ==
    ASSUME ServerTypeOK, NEW type, NEW error \in 1..MaxCalls, HandleError(type, error)
    PROVE  /\ mScopes' \in Seq([filter : Filters, captured : 0..MaxCalls])
           /\ Len(mScopes') = Len(mScopes) /\ raised' \subseteq 1..MaxCalls
           /\ Uncaptured(type, error) \in Seq(ReturnCommands)
           /\ \A j \in DOMAIN Uncaptured(type, error) :
                 Uncaptured(type, error)[j].ret \notin Telling
  <1>1. mScopes \in Seq([filter : Filters, captured : 0..MaxCalls]) /\ raised \subseteq 1..MaxCalls
    BY DEF ServerTypeOK
  <1>2. PICK k : k = Catcher(type)
    OBVIOUS
  <1>3. /\ mScopes' = IF k \in DOMAIN mScopes
                        THEN [mScopes EXCEPT ![k] = Capture(@, error)] ELSE mScopes
        /\ raised' = raised \cup {error}
    BY <1>2 DEF HandleError
  <1>4. k \in DOMAIN mScopes => Capture(mScopes[k], error) \in [filter : Filters, captured : 0..MaxCalls]
    <2>1. k \in DOMAIN mScopes => mScopes[k] \in [filter : Filters, captured : 0..MaxCalls]
      BY <1>1, Indexed
    <2> QED
      BY <2>1, WireDeviceBounds DEF Capture
  <1>5. /\ mScopes' \in Seq([filter : Filters, captured : 0..MaxCalls])
        /\ Len(mScopes') = Len(mScopes)
    BY <1>1, <1>3, <1>4, ExceptSeq
  <1>6. PICK m \in ReturnCommands : m = UncapturedError(error)
    BY ReturnsMade
  <1>7. m.ret \notin Telling
    BY <1>6 DEF UncapturedError, Telling
  <1>8. Uncaptured(type, error) = <<>> \/ Uncaptured(type, error) = <<m>>
    BY <1>6 DEF Uncaptured
  <1>9. PICK cmds : cmds = Uncaptured(type, error)
    OBVIOUS
  <1>10. cmds \in Seq(ReturnCommands) /\ \A j \in DOMAIN cmds : cmds[j].ret \notin Telling
    <2>1. CASE cmds = <<>>
      BY <2>1, Nothing
    <2>2. CASE cmds = <<m>>
      <3>1. cmds \in Seq(ReturnCommands) /\ DOMAIN cmds = {1} /\ cmds[1] = m
        BY <2>2, Single
      <3> QED
        BY <1>7, <3>1
    <2> QED
      BY <1>8, <1>9, <2>1, <2>2
  <1> QED
    BY <1>1, <1>3, <1>5, <1>9, <1>10

(* Server::DoDeviceInjectError                                             *)
LEMMA InjectServed ==
    ASSUME WireDeviceInv, DoDeviceInjectError PROVE WireDeviceInv'
  <1>1. Receive("InjectError")
    BY DEF DoDeviceInjectError
  <1>2. /\ toServer[1].cmd = "InjectError" /\ deviceKnown /\ Head(toServer) = toServer[1]
        /\ toServer[1] \in Commands
    BY <1>1, Received
  <1>3. toServer[1].at \in 1..MaxCalls /\ toServer[1].type \in Filters
    BY <1>2, CommandFacts
  <1>4. PICK type \in Filters, error \in 1..MaxCalls : type = toServer[1].type /\ error = toServer[1].at
    BY <1>3
  <1>5. /\ HandleError(type, error)
        /\ toClient' = toClient \o Uncaptured(type, error)
        /\ deviceKnown' = deviceKnown /\ known' = known
        /\ knownSize' = knownSize /\ wireError' = wireError /\ nativeState' = nativeState
        /\ creating' = creating /\ callbackTasks' = callbackTasks
        /\ tasksInFlight' = tasksInFlight
    BY <1>2, <1>4 DEF DoDeviceInjectError, serverVars, Reply
  <1>6. ServerTypeOK
    BY InvParts
  <1>7. /\ mScopes' \in Seq([filter : Filters, captured : 0..MaxCalls])
        /\ Len(mScopes') = Len(mScopes) /\ raised' \subseteq 1..MaxCalls
        /\ Uncaptured(type, error) \in Seq(ReturnCommands)
        /\ \A j \in DOMAIN Uncaptured(type, error) :
              Uncaptured(type, error)[j].ret \notin Telling
    BY <1>5, <1>6, ErrorHandled
  <1>8. PICK cmds \in Seq(ReturnCommands) : cmds = Uncaptured(type, error)
    BY <1>7
  <1>9. TellOnce(cmds) /\ \A j \in DOMAIN cmds : cmds[j].ret \notin Telling
    BY <1>7, <1>8 DEF TellOnce
  <1>10. ServerTypeOK'
    BY <1>5, <1>6, <1>7 DEF ServerTypeOK
  <1>11. Len(mScopes') = ScopesAfter(toServer[1], Len(mScopes))
    BY <1>2, <1>7 DEF ScopesAfter
  <1>12. toClient' = toClient \o cmds
    BY <1>5, <1>8
  <1> QED
    BY <1>1, <1>5, <1>9, <1>10, <1>11, <1>12, QuietServe

(* Server::DoQueueOnSubmittedWorkDone                                      *)
LEMMA WorkServed ==
    ASSUME WireDeviceInv, DoQueueOnSubmittedWorkDone PROVE WireDeviceInv'
  <1>1. Receive("Work")
    BY DEF DoQueueOnSubmittedWorkDone
  <1>2. /\ toServer[1].cmd = "Work" /\ deviceKnown /\ Head(toServer) = toServer[1]
        /\ toServer[1] \in Commands
    BY <1>1, Received
  <1>3. toServer[1].at \in 1..MaxCalls /\ toServer[1].request \in Requests
    BY <1>2, CommandFacts DEF Asking
  <1>4. PICK error \in 1..MaxCalls, r \in Requests : error = toServer[1].at /\ r = toServer[1].request
    BY <1>3
  <1>5. ServerTypeOK
    BY InvParts
  <1>6. CASE nativeState = "Alive"
    <2>1. /\ tasksInFlight' = Append(tasksInFlight, r)
          /\ toClient' = toClient /\ deviceKnown' = deviceKnown /\ known' = known
          /\ knownSize' = knownSize /\ wireError' = wireError /\ nativeState' = nativeState
          /\ creating' = creating /\ callbackTasks' = callbackTasks /\ raised' = raised
          /\ mScopes' = mScopes
      BY <1>2, <1>4, <1>6 DEF DoQueueOnSubmittedWorkDone, serverVars
    <2>2. tasksInFlight' \in Seq(Requests)
      <3>1. tasksInFlight \in Seq(Requests)
        BY <1>5 DEF ServerTypeOK
      <3> QED
        BY <1>4, <2>1, <3>1, Added
    <2>3. ServerTypeOK'
      BY <1>5, <2>1, <2>2 DEF ServerTypeOK
    <2>4. Len(mScopes') = ScopesAfter(toServer[1], Len(mScopes))
      BY <1>2, <2>1 DEF ScopesAfter
    <2>5. PICK cmds \in Seq(ReturnCommands) : cmds = <<>>
      BY Nothing
    <2>6. toClient' = toClient \o cmds
      BY <2>1, <2>5, Nothing, InvTypes
    <2>7. TellOnce(cmds) /\ DOMAIN cmds = {}
      BY <2>5, Nothing DEF TellOnce
    <2> QED
      BY <1>1, <1>4, <2>1, <2>3, <2>4, <2>5, <2>6, <2>7, QuietServe
  <1>7. CASE nativeState # "Alive"
    <2>1. PICK m \in ReturnCommands : m = WorkReply(r, "DeviceLost")
      BY ReturnsMade
    <2>2. m.ret = "Work" /\ m.request = r
      BY <2>1 DEF WorkReply
    <2>3. /\ HandleError("Validation", error)
          /\ toClient' = toClient \o Append(Uncaptured("Validation", error), m)
          /\ deviceKnown' = deviceKnown /\ known' = known
          /\ knownSize' = knownSize /\ wireError' = wireError /\ nativeState' = nativeState
          /\ creating' = creating /\ callbackTasks' = callbackTasks
          /\ tasksInFlight' = tasksInFlight
      BY <1>2, <1>4, <1>7, <2>1 DEF DoQueueOnSubmittedWorkDone, serverVars, Reply
    <2>4. /\ mScopes' \in Seq([filter : Filters, captured : 0..MaxCalls])
          /\ Len(mScopes') = Len(mScopes) /\ raised' \subseteq 1..MaxCalls
          /\ Uncaptured("Validation", error) \in Seq(ReturnCommands)
          /\ \A j \in DOMAIN Uncaptured("Validation", error) :
                Uncaptured("Validation", error)[j].ret \notin Telling
      BY <1>5, <2>3, ErrorHandled
    <2>5. PICK first \in Seq(ReturnCommands) : first = Uncaptured("Validation", error)
      BY <2>4
    <2>6. PICK cmds : cmds = Append(first, m)
      OBVIOUS
    <2>7. /\ cmds \in Seq(ReturnCommands) /\ cmds[Len(first) + 1] = m
          /\ \A j \in DOMAIN cmds : j \in DOMAIN first \/ j = Len(first) + 1
          /\ \A j \in DOMAIN first : cmds[j] = first[j]
      BY <2>6, Added
    <2>8. \A j \in DOMAIN cmds : cmds[j].ret \in Telling => j = Len(first) + 1
      BY <2>4, <2>5, <2>7
    <2>9. TellOnce(cmds)
      BY <2>8 DEF TellOnce
    <2>10. \A j \in DOMAIN cmds : cmds[j].ret \in Telling =>
              "Work" \in Asking /\ cmds[j].ret = "Work" /\ cmds[j].request = toServer[1].request
      BY <1>4, <2>2, <2>7, <2>8 DEF Asking
    <2>11. ServerTypeOK'
      BY <1>5, <2>3, <2>4 DEF ServerTypeOK
    <2>12. Len(mScopes') = ScopesAfter(toServer[1], Len(mScopes))
      BY <1>2, <2>4 DEF ScopesAfter
    <2>13. toClient' = toClient \o cmds
      BY <2>3, <2>5, <2>6
    <2> QED
      BY <1>1, <2>3, <2>7, <2>9, <2>10, <2>11, <2>12, <2>13, QuietServe
  <1> QED
    BY <1>6, <1>7

-----------------------------------------------------------------------------
(* Pipelines that are settled, by their outcomes.                          *)

Outcomes == [request : Requests, status : {"Success", "Error", "DeviceLost", "DeviceDestroyed"}]
SettledOnce(s) == \A j, k \in DOMAIN s : j # k => s[j].request # s[k].request
Settles(s, r) == \E j \in DOMAIN s : s[j].request = r

(* The fields of the outcomes.                                             *)
LEMMA OutcomeFacts ==
    ASSUME NEW o \in Seq(Outcomes)
    PROVE  \A j \in DOMAIN o : o[j] \in Outcomes /\ o[j].request \in Requests
                  /\ o[j].status \in {"Success", "Error", "DeviceLost", "DeviceDestroyed"}
  <1>1. \A j \in DOMAIN o : o[j] \in Outcomes
    BY Indexed
  <1> QED
    BY <1>1 DEF Outcomes

(* The fields of an answer.                                                *)
LEMMA ReplyFields ==
    \A r, status : /\ PipelineReply(r, status).ret = "Pipeline"
                   /\ PipelineReply(r, status).request = r
                   /\ PipelineReply(r, status).status = status
  BY DEF PipelineReply

(* Settle touches no entry but those of its outcomes.                      *)
LEMMA SettleTouches ==
    ASSUME NEW entries \in [Ids -> Entry], NEW o \in Seq(Outcomes)
    PROVE  /\ Settle(entries, o) \in [Ids -> Entry]
           /\ \A i \in Ids : \/ Settle(entries, o)[i] = entries[i]
                             \/ \E j \in DOMAIN o : pipelineId[o[j].request] = i
  <1>1. ASSUME NEW i \in Ids
        PROVE  /\ Settle(entries, o)[i] \in Entry
               /\ \/ Settle(entries, o)[i] = entries[i]
                  \/ \E j \in DOMAIN o : pipelineId[o[j].request] = i
    <2>1. PICK mine : mine = {q \in Range(o) : pipelineId[q.request] = i}
      OBVIOUS
    <2>2. Settle(entries, o)[i] =
             IF mine = {} THEN entries[i]
             ELSE IF \E q \in mine : q.status = "Success"
               THEN [entries[i] EXCEPT !.state = "Allocated"] ELSE NoEntry
      BY <2>1 DEF Settle
    <2>3. entries[i] \in Entry /\ NoEntry \in Entry
      BY WireDeviceBounds DEF NoEntry, Entry
    <2>4. [entries[i] EXCEPT !.state = "Allocated"] \in Entry
      BY <2>3 DEF Entry
    <2>5. mine # {} => \E j \in DOMAIN o : pipelineId[o[j].request] = i
      BY <2>1 DEF Range
    <2> QED
      BY <2>2, <2>3, <2>4, <2>5
  <1>2. Settle(entries, o) = [i \in Ids |-> Settle(entries, o)[i]]
    BY DEF Settle
  <1> QED
    BY <1>1, <1>2

(* The entry of an outcome, which was reserved, is allocated or free.      *)
LEMMA SettleSays ==
    ASSUME KnownTypes, OwnInv, NEW entries \in [Ids -> Entry], NEW o \in Seq(Outcomes),
           SettledOnce(o), NEW j \in DOMAIN o, NEW r \in Requests, r = o[j].request,
           pipelineId[r] # 0, entries[pipelineId[r]] = Reserve(r)
    PROVE  IF o[j].status = "Success" THEN Settle(entries, o)[pipelineId[r]] = Allocate(r)
                                      ELSE Settle(entries, o)[pipelineId[r]].state = "Free"
  <1>1. pipelineId[r] \in Ids /\ \A q \in Requests : q # r => pipelineId[q] # pipelineId[r]
    BY OwnIds
  <1>2. \A k \in DOMAIN o : o[k] \in Outcomes /\ o[k].request \in Requests
    BY OutcomeFacts
  <1>3. \A k \in DOMAIN o : pipelineId[o[k].request] = pipelineId[r] => k = j
    BY <1>1, <1>2 DEF SettledOnce
  <1>4. PICK mine : mine = {q \in Range(o) : pipelineId[q.request] = pipelineId[r]}
    OBVIOUS
  <1>5. mine = {o[j]}
    BY <1>3, <1>4 DEF Range
  <1>6. PICK e : e = entries[pipelineId[r]]
    OBVIOUS
  <1>7. Settle(entries, o)[pipelineId[r]] =
             IF mine = {} THEN e
             ELSE IF \E q \in mine : q.status = "Success"
               THEN [e EXCEPT !.state = "Allocated"] ELSE NoEntry
    BY <1>1, <1>4, <1>6 DEF Settle
  <1>8. Settle(entries, o)[pipelineId[r]] =
             IF o[j].status = "Success" THEN [e EXCEPT !.state = "Allocated"] ELSE NoEntry
    BY <1>5, <1>7
  <1>9. [e EXCEPT !.state = "Allocated"] = Allocate(r)
    BY <1>6 DEF Reserve, Allocate
  <1>10. NoEntry.state = "Free"
    BY DEF NoEntry
  <1> QED
    BY <1>8, <1>9, <1>10

(* The answers about them.                                                 *)
LEMMA PipelineTells ==
    ASSUME NEW o \in Seq(Outcomes), SettledOnce(o),
           \A j \in DOMAIN o : reqKind[o[j].request] = "Pipeline"
    PROVE  /\ PipelineReplies(o) \in Seq(ReturnCommands) /\ DOMAIN PipelineReplies(o) = DOMAIN o
           /\ \A j \in DOMAIN o : PipelineReplies(o)[j] = PipelineReply(o[j].request, o[j].status)
           /\ \A r : Tells(PipelineReplies(o), r) <=> Settles(o, r)
           /\ TellOnce(PipelineReplies(o)) /\ TellKind(PipelineReplies(o), reqKind)
  <1>1. /\ Len(o) \in Nat /\ DOMAIN o = 1..Len(o)
        /\ \A j \in DOMAIN o : o[j] \in Outcomes
    BY Indexed
  <1>2. \A j \in DOMAIN o : PipelineReply(o[j].request, o[j].status) \in ReturnCommands
    BY <1>1, ReturnsMade DEF Outcomes
  <1>3. PICK s : s = PipelineReplies(o)
    OBVIOUS
  <1>4. s \in [1..Len(o) -> ReturnCommands]
    BY <1>1, <1>2, <1>3 DEF PipelineReplies
  <1>5. s \in Seq(ReturnCommands) /\ DOMAIN s = DOMAIN o
    BY <1>1, <1>4, Listed
  <1>6. \A j \in DOMAIN o : s[j] = PipelineReply(o[j].request, o[j].status)
    BY <1>3 DEF PipelineReplies
  <1>7. \A j \in DOMAIN o : s[j].ret = "Pipeline" /\ s[j].request = o[j].request
    BY <1>6, ReplyFields
  <1>8. "Pipeline" \in Telling
    BY DEF Telling
  <1>9. \A r : Tells(s, r) <=> Settles(o, r)
    BY <1>5, <1>7, <1>8 DEF Tells, Settles
  <1>10. TellOnce(s)
    BY <1>5, <1>7 DEF TellOnce, SettledOnce
  <1>11. TellKind(s, reqKind)
    BY <1>5, <1>7 DEF TellKind
  <1> QED
    BY <1>3, <1>5, <1>6, <1>9, <1>10, <1>11

(* What they say is so.                                                    *)
LEMMA PipelineSays ==
    ASSUME KnownTypes, OwnInv, NEW entries \in [Ids -> Entry], NEW o \in Seq(Outcomes),
           SettledOnce(o),
           \A j \in DOMAIN o : /\ reqKind[o[j].request] = "Pipeline" /\ pipelineId[o[j].request] # 0
                               /\ entries[pipelineId[o[j].request]] = Reserve(o[j].request)
    PROVE  \A j \in DOMAIN PipelineReplies(o) :
              ReplyOK(PipelineReplies(o)[j], pipelineId, Settle(entries, o))
  <1>1. /\ DOMAIN PipelineReplies(o) = DOMAIN o
        /\ \A j \in DOMAIN o : PipelineReplies(o)[j] = PipelineReply(o[j].request, o[j].status)
    BY PipelineTells
  <1>2. SUFFICES ASSUME NEW j \in DOMAIN o
                 PROVE  ReplyOK(PipelineReply(o[j].request, o[j].status), pipelineId, Settle(entries, o))
    BY <1>1
  <1>3. PICK r \in Requests : r = o[j].request
    BY OutcomeFacts
  <1>4. IF o[j].status = "Success" THEN Settle(entries, o)[pipelineId[r]] = Allocate(r)
                                   ELSE Settle(entries, o)[pipelineId[r]].state = "Free"
    BY <1>3, SettleSays
  <1>5. PICK m : m = PipelineReply(r, o[j].status)
    OBVIOUS
  <1>6. m.request = r /\ m.status = o[j].status
    BY <1>5, ReplyFields
  <1>7. ReplyOK(m, pipelineId, Settle(entries, o))
    BY <1>4, <1>6 DEF ReplyOK
  <1> QED
    BY <1>3, <1>5, <1>7

(* Server::DoDestroyObject of a pipeline: it is there.                     *)
LEMMA DestroyPipelineServed ==
    ASSUME WireDeviceInv, DoDestroyPipeline PROVE WireDeviceInv'
  <1>1. Receive("DestroyPipeline")
    BY DEF DoDestroyPipeline
  <1>2. /\ toServer # <<>> /\ toServer' = Tail(toServer) /\ Head(toServer) = toServer[1]
        /\ toServer[1] \in Commands /\ toServer[1].cmd = "DestroyPipeline" /\ ~mDisconnected
        /\ deviceKnown /\ ClientSame
    BY <1>1, Received
  <1>3. PICK i \in Ids : i = toServer[1].id
    BY <1>2, CommandFacts
  <1>4. KindInv /\ OnceInv /\ WaitInv /\ OwnInv /\ KnownInv /\ ServerTypeOK
    BY InvParts
  <1>5. KnownTypes
    BY InvTypes
  <1>6. known[i].state = "Allocated"
    BY <1>2, <1>3, <1>4, <1>5, PipelineHeads
  <1>7. /\ known' = [known EXCEPT ![i] = NoEntry] /\ toClient' = toClient
        /\ deviceKnown' = deviceKnown /\ knownSize' = knownSize /\ wireError' = wireError
        /\ nativeState' = nativeState /\ mScopes' = mScopes /\ creating' = creating
        /\ callbackTasks' = callbackTasks /\ tasksInFlight' = tasksInFlight /\ raised' = raised
    BY <1>2, <1>3, <1>6 DEF DoDestroyPipeline, nativeVars
  <1>8. known' \in [Ids -> Entry] /\ known'[i] = NoEntry /\ \A q \in Ids : q # i => known'[q] = known[q]
    <2>1. known \in [Ids -> Entry] /\ NoEntry \in Entry
      BY <1>4, WireDeviceBounds DEF ServerTypeOK, NoEntry, Entry
    <2> QED
      BY <1>7, <2>1
  <1>9. ServerTypeOK'
    BY <1>4, <1>7, <1>8 DEF ServerTypeOK
  <1>10. KnownInv'
    <2>1. /\ live' = live /\ mDisconnected' = mDisconnected /\ pipelineId' = pipelineId
          /\ held' = held /\ mFreeIds' = mFreeIds /\ mCurrentId' = mCurrentId
      BY <1>2 DEF ClientSame
    <2> QED
      BY <1>2, <1>3, <1>4, <1>5, <1>7, <1>8, <2>1, DestroyedKnown
  <1>11. PICK cmds \in Seq(ReturnCommands) : cmds = <<>>
    BY Nothing
  <1>12. toClient' = toClient \o cmds
    BY <1>7, <1>11, Nothing, InvTypes
  <1>13. TellOnce(cmds) /\ TellKind(cmds, reqKind) /\ \A r : ~Tells(cmds, r)
    BY <1>11, Nothing DEF TellOnce, TellKind, Tells
  <1>14. TaskOnce' /\ WorkOnce'
    BY <1>4, <1>7 DEF OnceInv, TaskOnce, WorkOnce
  <1>15. \A r : (InTask(r)' <=> InTask(r)) /\ (InQueue(r)' <=> InQueue(r))
    BY <1>7 DEF InTask, InQueue
  <1>16. /\ Len(mScopes') = ScopesAfter(toServer[1], Len(mScopes))
         /\ deviceKnown' = (deviceKnown /\ toServer[1].cmd # "DestroyDevice")
    BY <1>2, <1>7 DEF ScopesAfter
  <1> QED
    BY <1>2, <1>7, <1>9, <1>10, <1>12, <1>13, <1>14, <1>15, <1>16, ServerStep

(* Server::DoDeviceCreateComputePipelineAsync: the id is free, and not past the next. *)
LEMMA CreatePipelineServed ==
    ASSUME WireDeviceInv, DoDeviceCreatePipelineAsync PROVE WireDeviceInv'
  <1>1. Receive("CreatePipeline") /\ "CreatePipeline" \in Asking
    BY DEF DoDeviceCreatePipelineAsync, Asking
  <1>2. /\ toServer # <<>> /\ toServer' = Tail(toServer) /\ Head(toServer) = toServer[1]
        /\ toServer[1] \in Commands /\ toServer[1].cmd = "CreatePipeline" /\ ~mDisconnected
        /\ deviceKnown /\ ClientSame
        /\ \A r \in Requests : r = toServer[1].request =>
              IsSent(r) /\ ~IsSent(r)' /\ ~Inside(r) /\ reqKind[r] = KindOf("CreatePipeline")
    BY <1>1, Received
  <1>3. PICK i \in Ids : i = toServer[1].id
    BY <1>2, CommandFacts
  <1>4. PICK r \in Requests : r = toServer[1].request
    BY <1>1, <1>2, CommandFacts
  <1>5. KindInv /\ OnceInv /\ WaitInv /\ OwnInv /\ KnownInv /\ ServerTypeOK
    BY InvParts
  <1>6. KnownTypes
    BY InvTypes
  <1>7. known[i].state = "Free" /\ ~(i > knownSize)
    <2>1. known[i].state = "Free" /\ i <= knownSize
      BY <1>2, <1>3, <1>5, <1>6, PipelineHeads
    <2>2. i \in Int /\ knownSize \in Int
      BY <1>6 DEF KnownTypes, Ids
    <2> QED
      BY <2>1, <2>2
  <1>8. IsSent(r) /\ ~IsSent(r)' /\ ~Inside(r) /\ reqKind[r] = "Pipeline"
    BY <1>2, <1>4 DEF KindOf
  <1>9. pipelineId[r] = i /\ pipelineId[r] # 0
    <2>1. 1 \in DOMAIN toServer
      BY <1>2, <1>6, Beheaded DEF KnownTypes
    <2> QED
      BY <1>2, <1>3, <1>4, <1>5, <1>6, <2>1, OnWayFacts
  <1>10. PICK reserved : reserved = [known EXCEPT ![i] = Reserve(r)]
    OBVIOUS
  <1>11. /\ knownSize' = IF i = knownSize THEN knownSize + 1 ELSE knownSize
         /\ deviceKnown' = deviceKnown /\ wireError' = wireError /\ nativeState' = nativeState
         /\ mScopes' = mScopes /\ callbackTasks' = callbackTasks /\ tasksInFlight' = tasksInFlight
         /\ raised' = raised
    BY <1>2, <1>3, <1>7 DEF DoDeviceCreatePipelineAsync
  <1>12. \/ known' = reserved /\ creating' = creating \cup {r} /\ toClient' = toClient
         \/ \E status \in {"Error", "Success"} :
               /\ known' = Settle(reserved, <<[request |-> r, status |-> status]>>)
               /\ toClient' = toClient \o <<PipelineReply(r, status)>> /\ creating' = creating
    BY <1>2, <1>3, <1>4, <1>7, <1>10 DEF DoDeviceCreatePipelineAsync, Reply
  <1>13. /\ reserved \in [Ids -> Entry] /\ reserved[i] = Reserve(r)
         /\ \A q \in Ids : q # i => reserved[q] = known[q]
    <2>1. known \in [Ids -> Entry] /\ Reserve(r) \in Entry
      BY <1>5 DEF ServerTypeOK, Reserve, Entry, Requests
    <2> QED
      BY <1>10, <2>1
  <1>14. knownSize' \in 1..(MaxRequests + 1)
    <2>1. knownSize \in 1..(MaxRequests + 1) /\ i \in 1..MaxRequests
      BY <1>6 DEF KnownTypes, Ids
    <2> QED
      BY <1>11, <2>1, WireDeviceBounds
  <1>15. /\ live' = live /\ mDisconnected' = mDisconnected /\ pipelineId' = pipelineId
         /\ held' = held /\ mFreeIds' = mFreeIds /\ mCurrentId' = mCurrentId
    BY <1>2 DEF ClientSame
  <1>16. TaskOnce' /\ WorkOnce'
    BY <1>5, <1>11 DEF OnceInv, TaskOnce, WorkOnce
  <1>17. \A q : (InTask(q)' <=> InTask(q)) /\ (InQueue(q)' <=> InQueue(q))
    BY <1>11 DEF InTask, InQueue
  <1>18. /\ Len(mScopes') = ScopesAfter(toServer[1], Len(mScopes))
         /\ deviceKnown' = (deviceKnown /\ toServer[1].cmd # "DestroyDevice")
    BY <1>2, <1>11 DEF ScopesAfter
  <1>19. CASE known' = reserved /\ creating' = creating \cup {r} /\ toClient' = toClient
    <2>1. PICK cmds \in Seq(ReturnCommands) : cmds = <<>>
      BY Nothing
    <2>2. toClient' = toClient \o cmds
      BY <1>19, <2>1, Nothing, InvTypes
    <2>3. TellOnce(cmds) /\ TellKind(cmds, reqKind) /\ (\A q : ~Tells(cmds, q)) /\ DOMAIN cmds = {}
      BY <2>1, Nothing DEF TellOnce, TellKind, Tells
    <2>4. creating' \subseteq Requests /\ known' \in [Ids -> Entry]
      BY <1>6, <1>13, <1>19 DEF KnownTypes
    <2>5. ServerTypeOK'
      BY <1>5, <1>11, <1>14, <2>4 DEF ServerTypeOK
    <2>6. \A q \in Ids : q # i => known'[q] = known[q]
      BY <1>13, <1>19
    <2>7. \A q \in Requests : q \in creating' => q \in creating \/ (q = r /\ known'[i] = Reserve(r))
      BY <1>13, <1>19
    <2>8. cmds \in Seq(ReturnCommands) /\ \A j \in DOMAIN cmds : ReplyOK(cmds[j], pipelineId, known')
      BY <2>1, <2>3
    <2>9. KnownInv'
      <3>1. Reserves(r, i)
        BY <1>11, <2>6, <2>7 DEF Reserves
      <3> QED
        BY <1>2, <1>3, <1>4, <1>5, <1>6, <1>11, <1>15, <2>2, <2>4, <2>8, <3>1, CreatedKnown
    <2>10. \A q \in Requests : q \in creating' =>
              q \in creating \/ (IsSent(q) /\ ~IsSent(q)' /\ reqKind[q] = "Pipeline")
      BY <1>8, <1>19
    <2> QED
      BY <1>2, <1>11, <1>16, <1>17, <1>18, <2>2, <2>3, <2>5, <2>9, <2>10, ServerStep
  <1>20. CASE \E status \in {"Error", "Success"} :
               /\ known' = Settle(reserved, <<[request |-> r, status |-> status]>>)
               /\ toClient' = toClient \o <<PipelineReply(r, status)>> /\ creating' = creating
    <2>1. PICK status \in {"Error", "Success"} :
               /\ known' = Settle(reserved, <<[request |-> r, status |-> status]>>)
               /\ toClient' = toClient \o <<PipelineReply(r, status)>> /\ creating' = creating
      BY <1>20
    <2>2. PICK e \in Outcomes : e = [request |-> r, status |-> status]
      BY DEF Outcomes
    <2>3. e.request = r /\ e.status = status
      BY <2>2
    <2>4. PICK o \in Seq(Outcomes) : o = <<e>>
      BY Single
    <2>5. DOMAIN o = {1} /\ o[1] = e /\ Len(o) = 1
      BY <2>4, Single
    <2>6. SettledOnce(o)
      BY <2>5 DEF SettledOnce
    <2>7. \A j \in DOMAIN o : /\ reqKind[o[j].request] = "Pipeline" /\ pipelineId[o[j].request] # 0
                              /\ reserved[pipelineId[o[j].request]] = Reserve(o[j].request)
      BY <1>8, <1>9, <1>13, <2>3, <2>5
    <2>8. known' = Settle(reserved, o)
      BY <2>1, <2>2, <2>4
    <2>9. PICK cmds : cmds = PipelineReplies(o)
      OBVIOUS
    <2>10. /\ cmds \in Seq(ReturnCommands) /\ DOMAIN cmds = DOMAIN o
           /\ \A j \in DOMAIN o : cmds[j] = PipelineReply(o[j].request, o[j].status)
           /\ \A q : Tells(cmds, q) <=> Settles(o, q)
           /\ TellOnce(cmds) /\ TellKind(cmds, reqKind)
      BY <2>6, <2>7, <2>9, PipelineTells
    <2>11. cmds = <<PipelineReply(r, status)>>
      <3>1. cmds[1] = PipelineReply(r, status)
        BY <2>3, <2>5, <2>10
      <3>2. cmds = [j \in {1} |-> PipelineReply(o[j].request, o[j].status)]
        BY <2>5, <2>9 DEF PipelineReplies
      <3>3. Len(cmds) = 1
        BY <2>5, <2>10, Indexed
      <3> QED
        BY <2>10, <3>1, <3>3
    <2>12. toClient' = toClient \o cmds
      BY <2>1, <2>11
    <2>13. /\ known' \in [Ids -> Entry]
           /\ \A q \in Ids : q # i => known'[q] = known[q]
      <3>1. /\ known' \in [Ids -> Entry]
            /\ \A q \in Ids : known'[q] = reserved[q] \/ \E j \in DOMAIN o : pipelineId[o[j].request] = q
        BY <1>13, <2>8, SettleTouches
      <3>2. \A j \in DOMAIN o : pipelineId[o[j].request] = i
        BY <1>9, <2>3, <2>5
      <3> QED
        BY <1>13, <3>1, <3>2
    <2>14. \A j \in DOMAIN cmds : ReplyOK(cmds[j], pipelineId, known')
      BY <1>5, <1>6, <1>13, <2>6, <2>7, <2>8, <2>9, PipelineSays
    <2>15. ServerTypeOK'
      BY <1>5, <1>11, <1>14, <2>1, <2>13 DEF ServerTypeOK
    <2>16. creating' \subseteq Requests /\ \A q \in Requests : q \in creating' => q \in creating
      BY <1>6, <2>1 DEF KnownTypes
    <2>17. KnownInv'
      <3>1. Reserves(r, i)
        BY <1>11, <2>13, <2>16 DEF Reserves
      <3> QED
        BY <1>2, <1>3, <1>4, <1>5, <1>6, <1>11, <1>15, <2>10, <2>12, <2>14, <2>16, <3>1, CreatedKnown
    <2>18. \A q \in Requests : Tells(cmds, q) => ~Inside(q)' /\ ~IsSent(q)' /\ (Inside(q) \/ IsSent(q))
      <3>1. \A q : Settles(o, q) => q = r
        BY <2>3, <2>5 DEF Settles
      <3>2. ~Inside(r)'
        BY <1>8, <1>17, <2>1 DEF Inside
      <3> QED
        BY <1>8, <2>10, <3>1, <3>2
    <2> QED
      BY <1>2, <1>11, <1>16, <1>17, <1>18, <2>10, <2>12, <2>15, <2>16, <2>17, <2>18, ServerStep
  <1> QED
    BY <1>12, <1>19, <1>20

-----------------------------------------------------------------------------
(* The native device's steps, and the handlers that end it.                *)

(* A worker is done.                                                       *)
LEMMA WorkerDoneKeeps ==
    ASSUME WireDeviceInv, NEW r \in Requests, NEW status \in {"Success", "Error"},
           WorkerDone(r, status)
    PROVE  WireDeviceInv'
  <1>1. /\ ~mDisconnected /\ r \in creating /\ creating' = creating \ {r}
        /\ callbackTasks' = Append(callbackTasks, [request |-> r, status |-> status])
        /\ toServer' = toServer /\ toClient' = toClient /\ deviceKnown' = deviceKnown
        /\ known' = known /\ knownSize' = knownSize /\ wireError' = wireError
        /\ nativeState' = nativeState /\ mScopes' = mScopes /\ tasksInFlight' = tasksInFlight
        /\ raised' = raised
    BY DEF WorkerDone, serverVars
  <1>2. ClientSame
    BY DEF WorkerDone, ClientSame, clientVars, requestVars, idVars
  <1>3. KindInv /\ OnceInv /\ OwnInv /\ KnownInv /\ ServerTypeOK
    BY InvParts
  <1>4. KnownTypes
    BY InvTypes
  <1>5. PICK task \in Tasks : task = [request |-> r, status |-> status]
    BY DEF Tasks
  <1>6. task.request = r
    BY <1>5
  <1>7. callbackTasks \in Seq(Tasks) /\ creating \subseteq Requests
    BY <1>4 DEF KnownTypes
  <1>8. callbackTasks' = Append(callbackTasks, task)
    BY <1>1, <1>5
  <1>9. /\ callbackTasks' \in Seq(Tasks)
        /\ \A j \in DOMAIN callbackTasks : callbackTasks'[j] = callbackTasks[j]
        /\ \A j \in DOMAIN callbackTasks' :
              j \in DOMAIN callbackTasks \/ j = Len(callbackTasks) + 1
        /\ callbackTasks'[Len(callbackTasks) + 1] = task
    BY <1>7, <1>8, Added
  <1>10. creating' \subseteq Requests
    BY <1>1, <1>7
  <1>11. ServerTypeOK'
    BY <1>1, <1>3, <1>9, <1>10 DEF ServerTypeOK
  <1>12. \A q : InTask(q)' => InTask(q) \/ q = r
    BY <1>6, <1>9 DEF InTask
  <1>13. \A q : InQueue(q)' <=> InQueue(q)
    BY <1>1 DEF InQueue
  <1>14. ~InTask(r) /\ TaskOnce /\ WorkOnce
    BY <1>1, <1>3, OnceRead
  <1>15. TaskOnce' /\ WorkOnce'
    <2>1. TaskOnce'
      BY <1>6, <1>9, <1>14 DEF TaskOnce, InTask
    <2> QED
      BY <1>1, <1>14, <2>1 DEF WorkOnce
  <1>16. PICK cmds \in Seq(ReturnCommands) : cmds = <<>>
    BY Nothing
  <1>17. toClient' = toClient \o cmds
    BY <1>1, <1>16, Nothing, InvTypes
  <1>18. TellOnce(cmds) /\ TellKind(cmds, reqKind) /\ (\A q : ~Tells(cmds, q)) /\ DOMAIN cmds = {}
    BY <1>16, Nothing DEF TellOnce, TellKind, Tells
  <1>19. KnownInv'
    <2>1. /\ live' = live /\ mDisconnected' = mDisconnected /\ pipelineId' = pipelineId
          /\ held' = held /\ mFreeIds' = mFreeIds /\ mCurrentId' = mCurrentId
      BY <1>2 DEF ClientSame
    <2>2. \A q \in Requests : q \in creating' \/ InTask(q)' =>
              (q \in creating \/ InTask(q)) /\ known'[pipelineId[q]] = known[pipelineId[q]]
      BY <1>1, <1>12
    <2>3. cmds \in Seq(ReturnCommands) /\ \A j \in DOMAIN cmds : ReplyOK(cmds[j], pipelineId, known')
      BY <1>16, <1>18
    <2>4. \A i \in Ids : known'[i] = known[i] \/ known[i].state = "Reserved"
      BY <1>1
    <2>5. toServer' = toServer /\ knownSize' = knownSize /\ callbackTasks' \in Seq(Tasks)
      BY <1>1, <1>9
    <2> QED
      BY <1>3, <1>4, <1>10, <1>17, <2>1, <2>2, <2>3, <2>4, <2>5, SettledKnown
  <1>20. \A q \in Requests : InTask(q)' => InTask(q) \/ (q \in creating /\ q \notin creating')
    BY <1>1, <1>12
  <1>21. \A q \in Requests : q \in creating' => q \in creating
    BY <1>1
  <1> QED
    BY <1>1, <1>2, <1>11, <1>13, <1>15, <1>17, <1>18, <1>19, <1>20, <1>21, ServerStep

(* A pipeline that is not settled.                                         *)
LEMMA Unsettled ==
    ASSUME WireDeviceInv, NEW r \in Requests, r \in creating \/ InTask(r)
    PROVE  /\ reqKind[r] = "Pipeline" /\ pipelineId[r] # 0 /\ known[pipelineId[r]] = Reserve(r)
           /\ pipelineId[r] \in Ids /\ \A q \in Requests : q # r => pipelineId[q] # pipelineId[r]
  <1>1. KindInv /\ OwnInv /\ KnownInv /\ KnownTypes
    BY InvParts, InvTypes
  <1>2. reqKind[r] = "Pipeline"
    BY <1>1 DEF KindInv
  <1>3. Somewhere(r)
    BY DEF Somewhere
  <1>4. pipelineId[r] # 0
    BY <1>1, <1>2, <1>3 DEF OwnInv
  <1>5. EntriesOK
    BY <1>1, KnownRead DEF KnownTypes
  <1>6. known[pipelineId[r]] = Reserve(r)
    BY <1>5 DEF EntriesOK
  <1> QED
    BY <1>1, <1>2, <1>4, <1>6, OwnIds

(* The requests of the queue, answered.                                    *)
LEMMA WorkTells ==
    ASSUME NEW w \in Seq(Requests), \A j, k \in DOMAIN w : j # k => w[j] # w[k],
           \A j \in DOMAIN w : reqKind[w[j]] = "Work", NEW status \in {"Success", "DeviceLost"},
           NEW s, s = [k \in DOMAIN w |-> WorkReply(w[k], status)]
    PROVE  /\ s \in Seq(ReturnCommands) /\ TellOnce(s) /\ TellKind(s, reqKind)
           /\ \A r : Tells(s, r) <=> \E j \in DOMAIN w : w[j] = r
           /\ \A j \in DOMAIN s : s[j].ret # "Pipeline"
  <1>1. Len(w) \in Nat /\ DOMAIN w = 1..Len(w) /\ \A j \in DOMAIN w : w[j] \in Requests
    BY Indexed
  <1>2. \A j \in DOMAIN w : WorkReply(w[j], status) \in ReturnCommands
    BY <1>1, ReturnsMade
  <1>3. s \in [1..Len(w) -> ReturnCommands]
    BY <1>1, <1>2
  <1>4. s \in Seq(ReturnCommands) /\ DOMAIN s = DOMAIN w
    BY <1>1, <1>3, Listed
  <1>5. \A j \in DOMAIN w : s[j] = WorkReply(w[j], status)
    OBVIOUS
  <1>6. \A r : WorkReply(r, status).ret = "Work" /\ WorkReply(r, status).request = r
    BY DEF WorkReply
  <1>7. \A j \in DOMAIN w : s[j].ret = "Work" /\ s[j].request = w[j]
    BY <1>5, <1>6
  <1>8. "Work" \in Telling
    BY DEF Telling
  <1>9. TellOnce(s)
    BY <1>4, <1>7 DEF TellOnce
  <1>10. TellKind(s, reqKind)
    BY <1>4, <1>7 DEF TellKind
  <1>11. \A r : Tells(s, r) <=> \E j \in DOMAIN w : w[j] = r
    BY <1>4, <1>7, <1>8 DEF Tells
  <1> QED
    BY <1>4, <1>7, <1>9, <1>10, <1>11

(* All that are in the queue.                                              *)
LEMMA AllWorkTells ==
    ASSUME WireDeviceInv, NEW status \in {"Success", "DeviceLost"}
    PROVE  /\ WorkReplies(status) \in Seq(ReturnCommands) /\ TellOnce(WorkReplies(status))
           /\ TellKind(WorkReplies(status), reqKind)
           /\ \A r : Tells(WorkReplies(status), r) <=> InQueue(r)
           /\ \A j \in DOMAIN WorkReplies(status) : WorkReplies(status)[j].ret # "Pipeline"
  <1>1. KindInv /\ OnceInv /\ ServerTypeOK
    BY InvParts
  <1>2. tasksInFlight \in Seq(Requests)
    BY <1>1 DEF ServerTypeOK
  <1>3. \A j, k \in DOMAIN tasksInFlight : j # k => tasksInFlight[j] # tasksInFlight[k]
    BY <1>1 DEF OnceInv
  <1>4. \A j \in DOMAIN tasksInFlight : reqKind[tasksInFlight[j]] = "Work"
    <2>1. \A j \in DOMAIN tasksInFlight : tasksInFlight[j] \in Requests
      BY <1>2, Indexed
    <2> QED
      BY <1>1, <2>1 DEF KindInv, InQueue
  <1>5. PICK s : s = WorkReplies(status)
    OBVIOUS
  <1>6. s = [k \in DOMAIN tasksInFlight |-> WorkReply(tasksInFlight[k], status)]
    BY <1>5 DEF WorkReplies
  <1>7. /\ s \in Seq(ReturnCommands) /\ TellOnce(s) /\ TellKind(s, reqKind)
        /\ \A r : Tells(s, r) <=> \E j \in DOMAIN tasksInFlight : tasksInFlight[j] = r
        /\ \A j \in DOMAIN s : s[j].ret # "Pipeline"
    BY <1>2, <1>3, <1>4, <1>6, WorkTells
  <1>8. \A r : Tells(s, r) <=> InQueue(r)
    BY <1>7 DEF InQueue
  <1> QED
    BY <1>5, <1>7, <1>8

(* The pipelines with the callback tasks and on workers, as outcomes.      *)
LEMMA UnansweredFacts ==
    ASSUME creating \subseteq Requests, NEW tasks \in Seq(Tasks), SettledOnce(tasks),
           \A j \in DOMAIN tasks : tasks[j].request \notin creating,
           NEW order \in SetToSeqs(creating), NEW status \in {"DeviceLost", "DeviceDestroyed"}
    PROVE  /\ Unanswered(tasks, order, status) \in Seq(Outcomes)
           /\ SettledOnce(Unanswered(tasks, order, status))
           /\ \A r : Settles(Unanswered(tasks, order, status), r) => Settles(tasks, r) \/ r \in creating
  <1>1. IsFiniteSet(creating)
    <2>1. 1 \in Int /\ MaxRequests \in Int
      BY WireDeviceBounds
    <2>2. IsFiniteSet(Requests)
      BY <2>1, FS_Interval DEF Requests
    <2> QED
      BY <2>2, FS_Subset
  <1>2. PICK n \in Nat : n = Cardinality(creating)
    BY <1>1, FS_CardinalityType
  <1>3. order \in [1..n -> creating] /\ \A j, k \in 1..n : j # k => order[j] # order[k]
    BY <1>2 DEF SetToSeqs
  <1>4. order \in Seq(Requests) /\ DOMAIN order = 1..n
    <2>1. order \in [1..n -> Requests]
      BY <1>3
    <2> QED
      BY <2>1, Listed
  <1>5. /\ Len(tasks) \in Nat /\ DOMAIN tasks = 1..Len(tasks)
        /\ \A j \in DOMAIN tasks : tasks[j].request \in Requests
    BY Indexed, TaskFacts
  <1>6. PICK first : first = [k \in DOMAIN tasks |-> tasks[k].request]
    OBVIOUS
  <1>7. first \in Seq(Requests) /\ DOMAIN first = DOMAIN tasks /\ Len(first) = Len(tasks)
    <2>1. first \in [1..Len(tasks) -> Requests]
      BY <1>5, <1>6
    <2> QED
      BY <1>5, <2>1, Listed
  <1>8. \A j \in DOMAIN tasks : first[j] = tasks[j].request
    BY <1>6
  <1>9. PICK all : all = first \o order
    OBVIOUS
  <1>10. /\ all \in Seq(Requests) /\ DOMAIN all = 1..(Len(first) + Len(order))
         /\ Len(first) \in Nat /\ Len(order) \in Nat
         /\ \A j \in DOMAIN first : all[j] = first[j]
         /\ \A j \in DOMAIN all :
               \/ j \in DOMAIN first
               \/ j > Len(first) /\ j - Len(first) \in DOMAIN order /\ all[j] = order[j - Len(first)]
    <2>1. first \in Seq(Requests) /\ order \in Seq(Requests)
      BY <1>4, <1>7
    <2> QED
      BY <1>9, <2>1, Joined
  <1>11. \A j \in DOMAIN all : \/ j \in DOMAIN tasks /\ all[j] = tasks[j].request
                               \/ j \notin DOMAIN tasks /\ all[j] \in creating
    <2> SUFFICES ASSUME NEW j \in DOMAIN all, j \notin DOMAIN tasks PROVE all[j] \in creating
      BY <1>7, <1>8, <1>10
    <2>1. j - Len(first) \in DOMAIN order /\ all[j] = order[j - Len(first)]
      BY <1>7, <1>10
    <2> QED
      BY <1>3, <1>4, <2>1
  <1>12. \A j, k \in DOMAIN all : j # k => all[j] # all[k]
    <2> SUFFICES ASSUME NEW j \in DOMAIN all, NEW k \in DOMAIN all, j # k PROVE all[j] # all[k]
      OBVIOUS
    <2>1. CASE j \in DOMAIN tasks /\ k \in DOMAIN tasks
      BY <1>11, <2>1 DEF SettledOnce
    <2>2. CASE j \in DOMAIN tasks /\ k \notin DOMAIN tasks
      BY <1>11, <2>2
    <2>3. CASE j \notin DOMAIN tasks /\ k \in DOMAIN tasks
      BY <1>11, <2>3
    <2>4. CASE j \notin DOMAIN tasks /\ k \notin DOMAIN tasks
      <3>1. /\ j - Len(first) \in 1..n /\ all[j] = order[j - Len(first)]
            /\ k - Len(first) \in 1..n /\ all[k] = order[k - Len(first)]
        BY <1>4, <1>7, <1>10, <2>4
      <3>2. j - Len(first) # k - Len(first)
        <4>1. j \in Int /\ k \in Int /\ Len(first) \in Int
          BY <1>10
        <4> QED
          BY <4>1
      <3> QED
        BY <1>3, <3>1, <3>2
    <2> QED
      BY <2>1, <2>2, <2>3, <2>4
  <1>13. PICK o : o = Unanswered(tasks, order, status)
    OBVIOUS
  <1>14. o = [k \in DOMAIN all |-> [request |-> all[k], status |-> status]]
    BY <1>6, <1>9, <1>13 DEF Unanswered
  <1>15. PICK m \in Nat : DOMAIN all = 1..m
    BY <1>10
  <1>16. \A k \in 1..m : [request |-> all[k], status |-> status] \in Outcomes
    <2>1. \A k \in 1..m : all[k] \in Requests
      BY <1>10, <1>15, Indexed
    <2> QED
      BY <2>1 DEF Outcomes
  <1>17. o \in [1..m -> Outcomes] /\ \A k \in DOMAIN all : o[k].request = all[k]
    BY <1>14, <1>15, <1>16
  <1>18. o \in Seq(Outcomes) /\ DOMAIN o = DOMAIN all
    BY <1>15, <1>17, Listed
  <1>19. SettledOnce(o)
    BY <1>12, <1>17, <1>18 DEF SettledOnce
  <1>20. \A r : Settles(o, r) => Settles(tasks, r) \/ r \in creating
    BY <1>11, <1>17, <1>18 DEF Settles
  <1> QED
    BY <1>13, <1>18, <1>19, <1>20

(* The same with no tasks, or with all.                                    *)
LEMMA TasksSettle ==
    ASSUME WireDeviceInv
    PROVE  /\ callbackTasks \in Seq(Tasks) /\ callbackTasks \in Seq(Outcomes)
           /\ SettledOnce(callbackTasks)
           /\ \A r : Settles(callbackTasks, r) <=> InTask(r)
           /\ \A j \in DOMAIN callbackTasks : callbackTasks[j].request \notin creating
           /\ <<>> \in Seq(Tasks) /\ <<>> \in Seq(Outcomes) /\ SettledOnce(<<>>)
           /\ (\A r : ~Settles(<<>>, r)) /\ DOMAIN <<>> = {}
           /\ PipelineReplies(<<>>) = <<>>
           /\ \A entries \in [Ids -> Entry] : Settle(entries, <<>>) = entries
  <1>1. OnceInv /\ KnownTypes
    BY InvParts, InvTypes
  <1>2. callbackTasks \in Seq(Tasks)
    BY <1>1 DEF KnownTypes
  <1>3. \A task \in Tasks : task \in Outcomes
    BY DEF Tasks, Outcomes
  <1>4. callbackTasks \in Seq(Outcomes)
    <2>1. /\ Len(callbackTasks) \in Nat /\ DOMAIN callbackTasks = 1..Len(callbackTasks)
          /\ \A j \in DOMAIN callbackTasks : callbackTasks[j] \in Tasks
      BY <1>2, Indexed
    <2>2. callbackTasks \in [1..Len(callbackTasks) -> Tasks]
      BY <1>2, <2>1
    <2>3. callbackTasks \in [1..Len(callbackTasks) -> Outcomes]
      BY <1>3, <2>2
    <2> QED
      BY <2>1, <2>3, Listed
  <1>5. SettledOnce(callbackTasks) /\ \A r : Settles(callbackTasks, r) <=> InTask(r)
    BY <1>1 DEF OnceInv, SettledOnce, Settles, InTask
  <1>6. ASSUME NEW j \in DOMAIN callbackTasks PROVE callbackTasks[j].request \notin creating
    <2>1. callbackTasks[j].request \in Requests
      BY <1>2, TaskFacts
    <2>2. InTask(callbackTasks[j].request)
      BY DEF InTask
    <2> QED
      BY <1>1, <2>1, <2>2, OnceRead
  <1>7. /\ <<>> \in Seq(Tasks) /\ <<>> \in Seq(Outcomes) /\ SettledOnce(<<>>)
        /\ (\A r : ~Settles(<<>>, r)) /\ DOMAIN <<>> = {}
    BY Nothing DEF SettledOnce, Settles
  <1>8. PipelineReplies(<<>>) = <<>>
    <2>1. PICK s : s = PipelineReplies(<<>>)
      OBVIOUS
    <2>2. s = [k \in {} |-> PipelineReply(<<>>[k].request, <<>>[k].status)]
      BY <2>1, <1>7 DEF PipelineReplies
    <2>3. s \in [1..0 -> ReturnCommands]
      BY <2>2
    <2>4. s \in Seq(ReturnCommands) /\ Len(s) = 0
      BY <2>3, Listed
    <2> QED
      BY <2>1, <2>4, EmptySeq
  <1>9. ASSUME NEW entries \in [Ids -> Entry] PROVE Settle(entries, <<>>) = entries
    <2>1. /\ Settle(entries, <<>>) \in [Ids -> Entry]
          /\ \A i \in Ids : Settle(entries, <<>>)[i] = entries[i]
      BY <1>7, SettleTouches
    <2> QED
      BY <2>1
  <1> QED
    BY <1>2, <1>4, <1>5, <1>6, <1>7, <1>8, <1>9

(* Three runs of answers in a row.                                         *)
MadeOf(s, a, b, c) ==
    \A j \in DOMAIN s : \/ \E k \in DOMAIN a : s[j] = a[k]
                        \/ \E k \in DOMAIN b : s[j] = b[k]
                        \/ \E k \in DOMAIN c : s[j] = c[k]

(* They answer what the three answer, once.                                *)
LEMMA ThreeTell ==
    ASSUME NEW a \in Seq(ReturnCommands), NEW b \in Seq(ReturnCommands), NEW c \in Seq(ReturnCommands),
           TellOnce(a), TellOnce(b), TellOnce(c),
           TellKind(a, reqKind), TellKind(b, reqKind), TellKind(c, reqKind),
           \A r \in Requests : /\ ~(Tells(a, r) /\ Tells(b, r)) /\ ~(Tells(a, r) /\ Tells(c, r))
                               /\ ~(Tells(b, r) /\ Tells(c, r)),
           NEW s, s = a \o b \o c
    PROVE  /\ s \in Seq(ReturnCommands) /\ TellOnce(s) /\ TellKind(s, reqKind)
           /\ \A r : Tells(s, r) <=> Tells(a, r) \/ Tells(b, r) \/ Tells(c, r)
           /\ MadeOf(s, a, b, c)
  <1>1. PICK ab : ab = a \o b
    OBVIOUS
  <1>2. /\ ab \in Seq(ReturnCommands)
        /\ \A j \in DOMAIN ab : \/ \E k \in DOMAIN a : ab[j] = a[k]
                                \/ \E k \in DOMAIN b : ab[j] = b[k]
    <2>1. /\ ab \in Seq(ReturnCommands)
          /\ \A j \in DOMAIN a : ab[j] = a[j]
          /\ \A j \in DOMAIN ab : \/ j \in DOMAIN a
                                  \/ j - Len(a) \in DOMAIN b /\ ab[j] = b[j - Len(a)]
      BY <1>1, Joined
    <2> QED
      BY <2>1
  <1>3. /\ TellOnce(ab) /\ TellKind(ab, reqKind) /\ \A r : Tells(ab, r) <=> Tells(a, r) \/ Tells(b, r)
    BY <1>1, TellsJoined
  <1>4. s = ab \o c
    BY <1>1
  <1>5. /\ s \in Seq(ReturnCommands)
        /\ \A j \in DOMAIN s : \/ \E k \in DOMAIN ab : s[j] = ab[k]
                               \/ \E k \in DOMAIN c : s[j] = c[k]
    <2>1. /\ s \in Seq(ReturnCommands)
          /\ \A j \in DOMAIN ab : s[j] = ab[j]
          /\ \A j \in DOMAIN s : \/ j \in DOMAIN ab
                                 \/ j - Len(ab) \in DOMAIN c /\ s[j] = c[j - Len(ab)]
      BY <1>2, <1>4, Joined
    <2> QED
      BY <2>1
  <1>6. /\ TellOnce(s) /\ TellKind(s, reqKind) /\ \A r : Tells(s, r) <=> Tells(ab, r) \/ Tells(c, r)
    <2>1. \A r \in Requests : ~(Tells(ab, r) /\ Tells(c, r))
      BY <1>3
    <2> QED
      BY <1>2, <1>3, <1>4, <2>1, TellsJoined
  <1>7. \A j \in DOMAIN s : \/ \E k \in DOMAIN a : s[j] = a[k]
                            \/ \E k \in DOMAIN b : s[j] = b[k]
                            \/ \E k \in DOMAIN c : s[j] = c[k]
    <2> SUFFICES ASSUME NEW j \in DOMAIN s, NEW i \in DOMAIN ab, s[j] = ab[i]
                 PROVE  \/ \E k \in DOMAIN a : s[j] = a[k]
                        \/ \E k \in DOMAIN b : s[j] = b[k]
      BY <1>5
    <2> QED
      BY <1>2
  <1>8. MadeOf(s, a, b, c)
    BY <1>7 DEF MadeOf
  <1> QED
    BY <1>3, <1>5, <1>6, <1>8

(* Every pipeline and every request of the queue is answered at once.      *)
LEMMA NativeAnswered ==
    ASSUME WireDeviceInv, ClientSame, wireError' = wireError, ~mDisconnected,
           deviceKnown' = deviceKnown, knownSize' = knownSize, mScopes' = mScopes,
           raised' = raised, nativeState' \in {"Alive", "Disconnected", "Destroyed"},
           \/ toServer' = toServer
           \/ toServer # <<>> /\ toServer' = Tail(toServer) /\ toServer[1].cmd = "Destroy",
           NEW order \in SetToSeqs(creating), NEW status \in {"DeviceLost", "DeviceDestroyed"},
           NEW a \in Seq(ReturnCommands), NEW c \in Seq(ReturnCommands),
           TellOnce(a), TellOnce(c), TellKind(a, reqKind), TellKind(c, reqKind),
           \A j \in DOMAIN a : a[j].ret # "Pipeline", \A j \in DOMAIN c : c[j].ret # "Pipeline",
           \A r : /\ Tells(a, r) \/ Tells(c, r) => InQueue(r)
                  /\ ~(Tells(a, r) /\ Tells(c, r)),
           NativeAnswers(known, Unanswered(callbackTasks, order, status), a, c)
    PROVE  WireDeviceInv'
  <1>1. KindInv /\ OnceInv /\ OwnInv /\ KnownInv /\ ServerTypeOK
    BY InvParts
  <1>2. KnownTypes
    BY InvTypes
  <1>3. known \in [Ids -> Entry] /\ creating \subseteq Requests
    BY <1>2 DEF KnownTypes
  <1>4. PICK o : o = Unanswered(callbackTasks, order, status)
    OBVIOUS
  <1>5. o \in Seq(Outcomes) /\ SettledOnce(o) /\ \A r : Settles(o, r) => InTask(r) \/ r \in creating
    BY <1>3, <1>4, TasksSettle, UnansweredFacts
  <1>6. \A j \in DOMAIN o : /\ o[j].request \in Requests
                            /\ InTask(o[j].request) \/ o[j].request \in creating
    BY <1>5, OutcomeFacts DEF Settles
  <1>7. \A j \in DOMAIN o : /\ reqKind[o[j].request] = "Pipeline" /\ pipelineId[o[j].request] # 0
                            /\ known[pipelineId[o[j].request]] = Reserve(o[j].request)
    BY <1>6, Unsettled
  <1>8. /\ known' = Settle(known, o) /\ creating' = {} /\ callbackTasks' = <<>>
        /\ tasksInFlight' = <<>> /\ toClient' = toClient \o (a \o PipelineReplies(o) \o c)
    BY <1>4 DEF NativeAnswers, Reply
  <1>9. PICK b : b = PipelineReplies(o)
    OBVIOUS
  <1>10. /\ b \in Seq(ReturnCommands) /\ TellOnce(b) /\ TellKind(b, reqKind)
         /\ \A r : Tells(b, r) <=> Settles(o, r)
    BY <1>5, <1>7, <1>9, PipelineTells
  <1>11. \A j \in DOMAIN b : ReplyOK(b[j], pipelineId, known')
    BY <1>1, <1>2, <1>3, <1>5, <1>7, <1>8, <1>9, PipelineSays
  <1>12. \A r \in Requests : InQueue(r) => ~(InTask(r) \/ r \in creating)
    BY <1>1 DEF KindInv
  <1>13. \A r \in Requests : /\ ~(Tells(a, r) /\ Tells(b, r)) /\ ~(Tells(a, r) /\ Tells(c, r))
                             /\ ~(Tells(b, r) /\ Tells(c, r))
    BY <1>5, <1>10, <1>12
  <1>14. PICK cmds : cmds = a \o b \o c
    OBVIOUS
  <1>15. /\ cmds \in Seq(ReturnCommands) /\ TellOnce(cmds) /\ TellKind(cmds, reqKind)
         /\ \A r : Tells(cmds, r) <=> Tells(a, r) \/ Tells(b, r) \/ Tells(c, r)
         /\ MadeOf(cmds, a, b, c)
    BY <1>10, <1>13, <1>14, ThreeTell
  <1>16. toClient' = toClient \o cmds
    BY <1>8, <1>9, <1>14
  <1>17. \A j \in DOMAIN cmds : ReplyOK(cmds[j], pipelineId, known')
    <2>1. \A j \in DOMAIN a : ReplyOK(a[j], pipelineId, known')
      BY DEF ReplyOK
    <2>2. \A j \in DOMAIN c : ReplyOK(c[j], pipelineId, known')
      BY DEF ReplyOK
    <2>3. ASSUME NEW j \in DOMAIN cmds PROVE ReplyOK(cmds[j], pipelineId, known')
      <3>1. CASE \E k \in DOMAIN a : cmds[j] = a[k]
        BY <2>1, <3>1
      <3>2. CASE \E k \in DOMAIN b : cmds[j] = b[k]
        BY <1>11, <3>2
      <3>3. CASE \E k \in DOMAIN c : cmds[j] = c[k]
        BY <2>2, <3>3
      <3> QED
        BY <1>15, <3>1, <3>2, <3>3 DEF MadeOf
    <2> QED
      BY <2>3
  <1>18. /\ known' \in [Ids -> Entry]
         /\ \A i \in Ids : known'[i] = known[i] \/ known[i].state = "Reserved"
    <2>1. /\ known' \in [Ids -> Entry]
          /\ \A i \in Ids : known'[i] = known[i] \/ \E j \in DOMAIN o : pipelineId[o[j].request] = i
      BY <1>3, <1>5, <1>8, SettleTouches
    <2>2. \A r : Reserve(r).state = "Reserved"
      BY DEF Reserve
    <2>3. \A j \in DOMAIN o : known[pipelineId[o[j].request]].state = "Reserved"
      BY <1>7, <2>2
    <2> QED
      BY <2>1, <2>3
  <1>19. /\ creating' \subseteq Requests /\ callbackTasks' \in Seq(Tasks)
         /\ tasksInFlight' \in Seq(Requests)
         /\ DOMAIN callbackTasks' = {} /\ DOMAIN tasksInFlight' = {}
    BY <1>8, Nothing
  <1>20. ServerTypeOK'
    BY <1>1, <1>18, <1>19 DEF ServerTypeOK
  <1>21. (\A r : ~Inside(r)' /\ ~InTask(r)' /\ ~InQueue(r)' /\ r \notin creating') /\ TaskOnce' /\ WorkOnce'
    BY <1>8, <1>19 DEF Inside, InTask, InQueue, TaskOnce, WorkOnce
  <1>22. KnownInv'
    <2>1. /\ live' = live /\ mDisconnected' = mDisconnected /\ pipelineId' = pipelineId
          /\ held' = held /\ mFreeIds' = mFreeIds /\ mCurrentId' = mCurrentId
      BY DEF ClientSame
    <2>2. \A r \in Requests : r \in creating' \/ InTask(r)' =>
              (r \in creating \/ InTask(r)) /\ known'[pipelineId[r]] = known[pipelineId[r]]
      BY <1>21
    <2>3. \/ toServer' = toServer
          \/ /\ toServer # <<>> /\ toServer' = Tail(toServer)
             /\ toServer[1].cmd \notin {"CreatePipeline", "DestroyPipeline"}
      OBVIOUS
    <2> QED
      BY <1>1, <1>2, <1>15, <1>16, <1>17, <1>18, <1>19, <2>1, <2>2, <2>3, SettledKnown
  <1>23. \A r \in Requests : Tells(cmds, r) => ~Inside(r)' /\ ~IsSent(r)' /\ (Inside(r) \/ IsSent(r))
    <2> SUFFICES ASSUME NEW r \in Requests, Tells(cmds, r)
                 PROVE  ~IsSent(r)' /\ Inside(r)
      BY <1>21
    <2>1. Inside(r)
      BY <1>5, <1>10, <1>15 DEF Inside
    <2>2. ~IsSent(r)
      BY <1>1, <2>1, OnceRead
    <2>3. IsSent(r)' => IsSent(r)
      <3>1. AskOnce(toServer) /\ toServer \in Seq(Commands)
        BY <1>1, <1>2, PlacesRead DEF KnownTypes
      <3>2. CASE toServer' = toServer
        BY <3>2 DEF IsSent
      <3>3. CASE toServer # <<>> /\ toServer' = Tail(toServer)
        BY <3>1, <3>3, AsksTail, PlacesRead, PlacesRead2
      <3> QED
        BY <3>2, <3>3
    <2> QED
      BY <2>1, <2>2, <2>3
  <1>24. \/ toServer' = toServer /\ mScopes' = mScopes /\ deviceKnown' = deviceKnown
         \/ /\ toServer # <<>> /\ toServer' = Tail(toServer)
            /\ Len(mScopes') = ScopesAfter(toServer[1], Len(mScopes))
            /\ deviceKnown' = (deviceKnown /\ toServer[1].cmd # "DestroyDevice")
    <2>1. deviceKnown \in BOOLEAN
      BY <1>1 DEF ServerTypeOK
    <2> QED
      BY <2>1 DEF ScopesAfter
  <1> QED
    BY <1>15, <1>16, <1>20, <1>21, <1>22, <1>23, <1>24, ServerStep

(* The loss, told.                                                         *)
LEMMA LossTold ==
    ASSUME WireDeviceInv, NEW lost, lost = <<>> \/ lost = <<[ret |-> "Lost"]>>
    PROVE  /\ lost \in Seq(ReturnCommands) /\ TellOnce(lost) /\ TellKind(lost, reqKind)
           /\ (\A r : ~Tells(lost, r)) /\ \A j \in DOMAIN lost : lost[j].ret # "Pipeline"
  <1>1. PICK m \in ReturnCommands : m = [ret |-> "Lost"]
    BY ReturnsMade
  <1>2. m.ret = "Lost" /\ m.ret \notin Telling
    BY <1>1 DEF Telling
  <1>3. lost \in Seq(ReturnCommands) /\ \A j \in DOMAIN lost : lost[j].ret = "Lost" /\ lost[j].ret \notin Telling
    <2>1. CASE lost = <<>>
      BY <2>1, Nothing
    <2>2. CASE lost = <<m>>
      <3>1. lost \in Seq(ReturnCommands) /\ DOMAIN lost = {1} /\ lost[1] = m
        BY <2>2, Single
      <3> QED
        BY <1>2, <3>1
    <2> QED
      BY <1>1, <2>1, <2>2
  <1> QED
    BY <1>3 DEF TellOnce, TellKind, Tells

(* The native device is lost.                                              *)
LEMMA LoseDeviceKeeps ==
    ASSUME WireDeviceInv, LoseDevice PROVE WireDeviceInv'
  <1>1. PICK order \in SetToSeqs(creating) :
           NativeAnswers(known, Unanswered(callbackTasks, order, "DeviceLost"),
                         <<[ret |-> "Lost"]>> \o WorkReplies("DeviceLost"), <<>>)
    BY DEF LoseDevice
  <1>2. /\ ~mDisconnected /\ nativeState' = "Disconnected" /\ toServer' = toServer
        /\ deviceKnown' = deviceKnown /\ knownSize' = knownSize /\ wireError' = wireError
        /\ mScopes' = mScopes /\ raised' = raised
    BY DEF LoseDevice
  <1>3. ClientSame
    BY DEF LoseDevice, ClientSame, clientVars, requestVars, idVars
  <1>4. PICK lost : lost = <<[ret |-> "Lost"]>>
    OBVIOUS
  <1>5. /\ lost \in Seq(ReturnCommands) /\ TellOnce(lost) /\ TellKind(lost, reqKind)
        /\ (\A r : ~Tells(lost, r)) /\ \A j \in DOMAIN lost : lost[j].ret # "Pipeline"
    BY <1>4, LossTold
  <1>6. PICK w : w = WorkReplies("DeviceLost")
    OBVIOUS
  <1>7. /\ w \in Seq(ReturnCommands) /\ TellOnce(w) /\ TellKind(w, reqKind)
        /\ (\A r : Tells(w, r) <=> InQueue(r)) /\ \A j \in DOMAIN w : w[j].ret # "Pipeline"
    BY <1>6, AllWorkTells
  <1>8. PICK a : a = lost \o w
    OBVIOUS
  <1>9. /\ a \in Seq(ReturnCommands) /\ TellOnce(a) /\ TellKind(a, reqKind)
        /\ \A r : Tells(a, r) <=> InQueue(r)
    <2>1. /\ a \in Seq(ReturnCommands) /\ TellOnce(a) /\ TellKind(a, reqKind)
          /\ \A r : Tells(a, r) <=> Tells(lost, r) \/ Tells(w, r)
      BY <1>5, <1>7, <1>8, Joined, TellsJoined
    <2> QED
      BY <1>5, <1>7, <2>1
  <1>10. \A j \in DOMAIN a : a[j].ret # "Pipeline"
    <2>1. /\ \A j \in DOMAIN lost : a[j] = lost[j]
          /\ \A j \in DOMAIN a : \/ j \in DOMAIN lost
                                 \/ j - Len(lost) \in DOMAIN w /\ a[j] = w[j - Len(lost)]
      BY <1>5, <1>7, <1>8, Joined
    <2> QED
      BY <1>5, <1>7, <2>1
  <1>11. PICK c : c = <<>>
    OBVIOUS
  <1>12. /\ c \in Seq(ReturnCommands) /\ TellOnce(c) /\ TellKind(c, reqKind)
         /\ (\A r : ~Tells(c, r)) /\ \A j \in DOMAIN c : c[j].ret # "Pipeline"
    BY <1>11, LossTold
  <1>13. NativeAnswers(known, Unanswered(callbackTasks, order, "DeviceLost"), a, c)
    BY <1>1, <1>4, <1>6, <1>8, <1>11
  <1> QED
    BY <1>2, <1>3, <1>9, <1>10, <1>12, <1>13, NativeAnswered

(* Server::DoDeviceDestroy                                                 *)
LEMMA DestroyServed ==
    ASSUME WireDeviceInv, DoDeviceDestroy PROVE WireDeviceInv'
  <1>1. Receive("Destroy")
    BY DEF DoDeviceDestroy
  <1>2. /\ toServer # <<>> /\ toServer' = Tail(toServer) /\ toServer[1].cmd = "Destroy"
        /\ ~mDisconnected /\ deviceKnown /\ ClientSame
    BY <1>1, Received
  <1>3. /\ deviceKnown' = deviceKnown /\ knownSize' = knownSize /\ wireError' = wireError
        /\ mScopes' = mScopes /\ raised' = raised
    BY <1>2 DEF DoDeviceDestroy
  <1>4. CASE nativeState = "Destroyed"
    <2>1. /\ toClient' = toClient /\ known' = known /\ nativeState' = nativeState
          /\ creating' = creating /\ callbackTasks' = callbackTasks /\ tasksInFlight' = tasksInFlight
      BY <1>2, <1>4 DEF DoDeviceDestroy
    <2>2. ServerTypeOK
      BY InvParts
    <2>3. ServerTypeOK'
      BY <1>3, <2>1, <2>2 DEF ServerTypeOK
    <2>4. Len(mScopes') = ScopesAfter(toServer[1], Len(mScopes))
      BY <1>2, <1>3 DEF ScopesAfter
    <2>5. PICK cmds \in Seq(ReturnCommands) : cmds = <<>>
      BY Nothing
    <2>6. toClient' = toClient \o cmds
      BY <2>1, <2>5, Nothing, InvTypes
    <2>7. TellOnce(cmds) /\ DOMAIN cmds = {}
      BY <2>5, Nothing DEF TellOnce
    <2> QED
      BY <1>1, <1>3, <2>1, <2>3, <2>4, <2>5, <2>6, <2>7, QuietServe
  <1>5. CASE nativeState # "Destroyed"
    <2>1. PICK lost : lost = IF nativeState = "Alive" THEN <<[ret |-> "Lost"]>> ELSE <<>>
      OBVIOUS
    <2>2. NativeDestroy(known, lost, <<>>, callbackTasks)
      BY <1>2, <1>5, <2>1 DEF DoDeviceDestroy
    <2>3. PICK order \in SetToSeqs(creating) :
             NativeAnswers(Settle(known, <<>>), Unanswered(callbackTasks, order, "DeviceDestroyed"),
                           lost \o PipelineReplies(<<>>), WorkReplies("Success"))
      BY <2>2 DEF NativeDestroy
    <2>4. nativeState' = "Destroyed"
      BY <2>2 DEF NativeDestroy
    <2>5. /\ lost \in Seq(ReturnCommands) /\ TellOnce(lost) /\ TellKind(lost, reqKind)
          /\ (\A r : ~Tells(lost, r)) /\ \A j \in DOMAIN lost : lost[j].ret # "Pipeline"
      BY <2>1, LossTold
    <2>6. PICK w : w = WorkReplies("Success")
      OBVIOUS
    <2>7. /\ w \in Seq(ReturnCommands) /\ TellOnce(w) /\ TellKind(w, reqKind)
          /\ (\A r : Tells(w, r) <=> InQueue(r)) /\ \A j \in DOMAIN w : w[j].ret # "Pipeline"
      BY <2>6, AllWorkTells
    <2>8. Settle(known, <<>>) = known /\ PipelineReplies(<<>>) = <<>>
      BY InvTypes, TasksSettle DEF KnownTypes
    <2>9. lost \o PipelineReplies(<<>>) = lost
      BY <2>5, <2>8, Nothing
    <2>10. NativeAnswers(known, Unanswered(callbackTasks, order, "DeviceDestroyed"), lost, w)
      BY <2>3, <2>6, <2>8, <2>9
    <2> QED
      BY <1>2, <1>3, <2>4, <2>5, <2>7, <2>10, NativeAnswered
  <1> QED
    BY <1>4, <1>5

(* The release of the device: the queue of commands is empty after it.     *)
LEMMA DestroyDeviceServed ==
    ASSUME WireDeviceInv, DoDestroyDevice PROVE WireDeviceInv'
  <1>1. Receive("DestroyDevice")
    BY DEF DoDestroyDevice
  <1>2. /\ toServer # <<>> /\ toServer' = Tail(toServer) /\ toServer[1].cmd = "DestroyDevice"
        /\ ~mDisconnected /\ deviceKnown /\ ClientSame
    BY <1>1, Received
  <1>3. /\ deviceKnown' = FALSE /\ knownSize' = knownSize /\ wireError' = wireError
        /\ mScopes' = mScopes /\ raised' = raised
    BY <1>2 DEF DoDestroyDevice
  <1>4. KindInv /\ OnceInv /\ OwnInv /\ KnownInv /\ ServerTypeOK /\ DeviceInv
    BY InvParts
  <1>5. KnownTypes
    BY InvTypes
  <1>6. known \in [Ids -> Entry] /\ creating \subseteq Requests /\ toServer \in Seq(Commands)
    BY <1>5 DEF KnownTypes
  <1>7. toServer' = <<>> /\ ~live'
    <2>1. 1 \in DOMAIN toServer /\ Tail(toServer) \in Seq(Commands) /\ Len(Tail(toServer)) = Len(toServer) - 1
      BY <1>2, <1>6, Beheaded
    <2>2. ~live /\ 1 = Len(toServer)
      BY <1>2, <1>4, <2>1 DEF DeviceInv
    <2>3. Len(Tail(toServer)) = 0
      <3>1. Len(Tail(toServer)) = 1 - 1
        BY <2>1, <2>2
      <3> QED
        BY <3>1
    <2> QED
      BY <1>2, <2>1, <2>2, <2>3, EmptySeq DEF ClientSame
  <1>8. PICK childless :
           childless = [i \in Ids |-> IF known[i].state = "Allocated" THEN NoEntry ELSE known[i]]
    OBVIOUS
  <1>9. childless \in [Ids -> Entry]
    <2>1. NoEntry \in Entry
      BY WireDeviceBounds DEF NoEntry, Entry
    <2> QED
      BY <1>6, <1>8, <2>1
  <1>10. /\ Len(mScopes') = ScopesAfter(toServer[1], Len(mScopes))
         /\ deviceKnown' = (deviceKnown /\ toServer[1].cmd # "DestroyDevice")
    BY <1>2, <1>3 DEF ScopesAfter
  <1>11. /\ live' = live /\ mDisconnected' = mDisconnected /\ pipelineId' = pipelineId
         /\ held' = held /\ mFreeIds' = mFreeIds /\ mCurrentId' = mCurrentId
    BY <1>2 DEF ClientSame
  <1>12. \A r : ~IsSent(r)'
    BY <1>7, Nothing DEF IsSent
  <1>13. CASE nativeState = "Destroyed"
    <2>1. /\ known' = childless /\ toClient' = toClient /\ nativeState' = nativeState
          /\ creating' = creating /\ callbackTasks' = callbackTasks /\ tasksInFlight' = tasksInFlight
      BY <1>2, <1>8, <1>13 DEF DoDestroyDevice
    <2>2. ServerTypeOK'
      BY <1>3, <1>4, <1>9, <2>1 DEF ServerTypeOK
    <2>3. PICK cmds \in Seq(ReturnCommands) : cmds = <<>>
      BY Nothing
    <2>4. toClient' = toClient \o cmds
      BY <2>1, <2>3, Nothing, InvTypes
    <2>5. TellOnce(cmds) /\ TellKind(cmds, reqKind) /\ (\A r : ~Tells(cmds, r))
      BY <2>3, Nothing DEF TellOnce, TellKind, Tells
    <2>6. \A r : (InTask(r)' <=> InTask(r)) /\ (InQueue(r)' <=> InQueue(r))
      BY <2>1 DEF InTask, InQueue
    <2>7. TaskOnce' /\ WorkOnce'
      BY <1>4, <2>1 DEF OnceInv, TaskOnce, WorkOnce
    <2>8. KnownInv'
      <3>1. \A r \in Requests : r \in creating \/ InTask(r) => known'[pipelineId[r]] = known[pipelineId[r]]
        <4>1. \A r : Reserve(r).state = "Reserved"
          BY DEF Reserve
        <4>2. \A i \in Ids : known[i].state = "Reserved" => childless[i] = known[i]
          BY <1>8
        <4> QED
          BY <2>1, <4>1, <4>2, Unsettled
      <3> QED
        BY <1>4, <1>5, <1>3, <1>7, <1>11, <2>1, <3>1, SilentKnown
    <2> QED
      BY <1>2, <1>3, <1>10, <2>1, <2>2, <2>4, <2>5, <2>6, <2>7, <2>8, ServerStep
  <1>14. CASE nativeState # "Destroyed"
    <2>1. PICK flushed, rest : IF nativeState = "Alive" THEN flushed = callbackTasks /\ rest = <<>>
                                                       ELSE flushed = <<>> /\ rest = callbackTasks
      OBVIOUS
    <2>2. NativeDestroy(childless, <<>>, flushed, rest)
      BY <1>2, <1>8, <1>14, <2>1 DEF DoDestroyDevice
    <2>3. PICK order \in SetToSeqs(creating) :
             NativeAnswers(Settle(childless, flushed), Unanswered(rest, order, "DeviceDestroyed"),
                           <<>> \o PipelineReplies(flushed), WorkReplies("Success"))
      BY <2>2 DEF NativeDestroy
    <2>4. nativeState' = "Destroyed"
      BY <2>2 DEF NativeDestroy
    <2>5. /\ flushed \in Seq(Outcomes) /\ SettledOnce(flushed)
          /\ \A r : Settles(flushed, r) => InTask(r)
      BY <2>1, TasksSettle
    <2>6. /\ rest \in Seq(Tasks) /\ SettledOnce(rest)
          /\ \A j \in DOMAIN rest : rest[j].request \notin creating
          /\ \A r : Settles(rest, r) => InTask(r) /\ ~Settles(flushed, r)
      BY <2>1, TasksSettle
    <2>7. PICK o : o = Unanswered(rest, order, "DeviceDestroyed")
      OBVIOUS
    <2>8. /\ o \in Seq(Outcomes) /\ SettledOnce(o)
          /\ \A r : Settles(o, r) => Settles(rest, r) \/ r \in creating
      BY <1>6, <2>6, <2>7, UnansweredFacts
    <2>9. PICK a, b, c : a = PipelineReplies(flushed) /\ b = PipelineReplies(o) /\ c = WorkReplies("Success")
      OBVIOUS
    <2>10. /\ a \in Seq(ReturnCommands) /\ TellOnce(a) /\ TellKind(a, reqKind)
           /\ \A r : Tells(a, r) <=> Settles(flushed, r)
      <3>1. \A j \in DOMAIN flushed : reqKind[flushed[j].request] = "Pipeline"
        BY <2>5, OutcomeFacts, Unsettled DEF Settles
      <3> QED
        BY <2>5, <2>9, <3>1, PipelineTells
    <2>11. /\ b \in Seq(ReturnCommands) /\ TellOnce(b) /\ TellKind(b, reqKind)
           /\ \A r : Tells(b, r) <=> Settles(o, r)
      <3>1. \A j \in DOMAIN o : o[j].request \in Requests /\ Settles(o, o[j].request)
        BY <2>8, OutcomeFacts DEF Settles
      <3>2. \A j \in DOMAIN o : InTask(o[j].request) \/ o[j].request \in creating
        BY <2>6, <2>8, <3>1
      <3>3. \A j \in DOMAIN o : reqKind[o[j].request] = "Pipeline"
        BY <3>1, <3>2, Unsettled
      <3> QED
        BY <2>8, <2>9, <3>3, PipelineTells
    <2>12. /\ c \in Seq(ReturnCommands) /\ TellOnce(c) /\ TellKind(c, reqKind)
           /\ \A r : Tells(c, r) <=> InQueue(r)
      BY <2>9, AllWorkTells
    <2>13. \A r \in Requests : (InTask(r) => r \notin creating) /\ (InQueue(r) => ~(InTask(r) \/ r \in creating))
      BY <1>4, OnceRead DEF KindInv
    <2>14. \A r \in Requests : /\ ~(Tells(a, r) /\ Tells(b, r)) /\ ~(Tells(a, r) /\ Tells(c, r))
                               /\ ~(Tells(b, r) /\ Tells(c, r))
      BY <2>5, <2>6, <2>8, <2>10, <2>11, <2>12, <2>13
    <2>15. PICK cmds : cmds = a \o b \o c
      OBVIOUS
    <2>16. /\ cmds \in Seq(ReturnCommands) /\ TellOnce(cmds) /\ TellKind(cmds, reqKind)
           /\ \A r : Tells(cmds, r) <=> Tells(a, r) \/ Tells(b, r) \/ Tells(c, r)
           /\ MadeOf(cmds, a, b, c)
      <3>1. a \in Seq(ReturnCommands) /\ TellOnce(a) /\ TellKind(a, reqKind)
        BY <2>10
      <3>2. b \in Seq(ReturnCommands) /\ TellOnce(b) /\ TellKind(b, reqKind)
        BY <2>11
      <3>3. c \in Seq(ReturnCommands) /\ TellOnce(c) /\ TellKind(c, reqKind)
        BY <2>12
      <3> QED
        BY <2>14, <2>15, <3>1, <3>2, <3>3, ThreeTell
    <2>17. /\ known' = Settle(Settle(childless, flushed), o) /\ creating' = {} /\ callbackTasks' = <<>>
           /\ tasksInFlight' = <<>> /\ toClient' = toClient \o ((<<>> \o a) \o b \o c)
      BY <2>3, <2>7, <2>9 DEF NativeAnswers, Reply
    <2>18. toClient' = toClient \o cmds
      <3>1. <<>> \o a = a
        BY <2>10, ConcatEmptySeq
      <3> QED
        BY <2>15, <2>17, <3>1
    <2>19. known' \in [Ids -> Entry]
      <3>1. Settle(childless, flushed) \in [Ids -> Entry]
        BY <1>9, <2>5, SettleTouches
      <3> QED
        BY <2>8, <2>17, <3>1, SettleTouches
    <2>20. /\ creating' \subseteq Requests /\ callbackTasks' \in Seq(Tasks)
           /\ tasksInFlight' \in Seq(Requests)
           /\ DOMAIN callbackTasks' = {} /\ DOMAIN tasksInFlight' = {}
      BY <2>17, Nothing
    <2>21. ServerTypeOK'
      BY <1>3, <1>4, <2>4, <2>19, <2>20 DEF ServerTypeOK
    <2>22. (\A r : ~Inside(r)' /\ ~InTask(r)' /\ ~InQueue(r)' /\ r \notin creating') /\ TaskOnce' /\ WorkOnce'
      BY <2>17, <2>20 DEF Inside, InTask, InQueue, TaskOnce, WorkOnce
    <2>23. KnownInv'
      BY <1>3, <1>4, <1>5, <1>7, <1>11, <2>17, SilentKnown
    <2>24. \A r \in Requests : Tells(cmds, r) => Inside(r)
      BY <2>5, <2>6, <2>8, <2>10, <2>11, <2>12, <2>16 DEF Inside
    <2> QED
      BY <1>2, <1>3, <1>10, <1>12, <2>16, <2>18, <2>21, <2>22, <2>23, <2>24, ServerStep
  <1> QED
    BY <1>13, <1>14

(* A sequence in two.                                                      *)
LEMMA Parted ==
    ASSUME NEW S, NEW s \in Seq(S), NEW n \in 0..Len(s)
    PROVE  /\ SubSeq(s, 1, n) \in Seq(S) /\ DOMAIN SubSeq(s, 1, n) = 1..n
           /\ \A j \in 1..n : j \in DOMAIN s /\ SubSeq(s, 1, n)[j] = s[j]
           /\ SubSeq(s, n + 1, Len(s)) \in Seq(S) /\ Len(s) \in Nat
           /\ DOMAIN SubSeq(s, n + 1, Len(s)) = 1..(Len(s) - n)
           /\ \A j \in 1..(Len(s) - n) : j + n \in DOMAIN s /\ SubSeq(s, n + 1, Len(s))[j] = s[j + n]
  <1>1. /\ Len(s) \in Nat /\ DOMAIN s = 1..Len(s) /\ n \in Nat /\ n <= Len(s)
        /\ \A j \in DOMAIN s : s[j] \in S
    BY Indexed
  <1>2. \A j \in 1..n : j \in DOMAIN s /\ s[j] \in S
    BY <1>1
  <1>3. \A j \in (n + 1)..Len(s) : s[j] \in S
    BY <1>1
  <1>4. PICK a : a = SubSeq(s, 1, n)
    OBVIOUS
  <1>5. /\ a \in Seq(S) /\ Len(a) = (IF 1 <= n THEN n - 1 + 1 ELSE 0)
        /\ \A j \in 1..(n - 1 + 1) : a[j] = s[1 + j - 1]
    <2>1. 1 \in Int /\ n \in Int
      BY <1>1
    <2> QED
      BY <1>2, <1>4, <2>1, SubSeqProperties
  <1>6. Len(a) = n /\ (\A j \in 1..n : a[j] = s[j]) /\ DOMAIN a = 1..n
    <2>1. Len(a) = n
      BY <1>1, <1>5
    <2>2. ASSUME NEW j \in 1..n PROVE a[j] = s[j]
      <3>1. j \in 1..(n - 1 + 1) /\ 1 + j - 1 = j
        BY <1>1
      <3> QED
        BY <1>5, <3>1
    <2>3. DOMAIN a = 1..n
      BY <1>5, <2>1, Indexed
    <2> QED
      BY <2>1, <2>2, <2>3
  <1>7. PICK b : b = SubSeq(s, n + 1, Len(s))
    OBVIOUS
  <1>8. /\ b \in Seq(S) /\ Len(b) = (IF n + 1 <= Len(s) THEN Len(s) - (n + 1) + 1 ELSE 0)
        /\ \A j \in 1..(Len(s) - (n + 1) + 1) : b[j] = s[n + 1 + j - 1]
    <2>1. n + 1 \in Int /\ Len(s) \in Int
      BY <1>1
    <2> QED
      BY <1>3, <1>7, <2>1, SubSeqProperties
  <1>9. Len(b) = Len(s) - n
    <2>1. Len(b) = IF n + 1 <= Len(s) THEN Len(s) - (n + 1) + 1 ELSE 0
      BY <1>8
    <2>2. Len(s) \in Nat /\ n \in Nat /\ n <= Len(s)
      BY <1>1
    <2> QED
      BY <2>1, <2>2
  <1>10. \A j \in 1..(Len(s) - n) : j + n \in DOMAIN s /\ b[j] = s[j + n]
    <2> SUFFICES ASSUME NEW j \in 1..(Len(s) - n) PROVE j + n \in DOMAIN s /\ b[j] = s[j + n]
      OBVIOUS
    <2>1. j \in 1..(Len(s) - (n + 1) + 1) /\ n + 1 + j - 1 = j + n /\ j + n \in 1..Len(s)
      BY <1>1
    <2> QED
      BY <1>1, <1>8, <2>1
  <1>11. DOMAIN b = 1..(Len(s) - n)
    BY <1>8, <1>9, Indexed
  <1> QED
    BY <1>1, <1>2, <1>4, <1>5, <1>6, <1>7, <1>8, <1>10, <1>11

(* DeviceBase::APITick                                                     *)
LEMMA TickKeeps ==
    ASSUME WireDeviceInv, NEW finished \in 0..Len(tasksInFlight), Tick(finished)
    PROVE  WireDeviceInv'
  <1>1. PICK done : done = SubSeq(tasksInFlight, 1, finished)
    OBVIOUS
  <1>2. PICK w : w = [k \in DOMAIN done |-> WorkReply(done[k], "Success")]
    OBVIOUS
  <1>3. /\ ~mDisconnected /\ toServer' = toServer /\ creating' = creating /\ callbackTasks' = <<>>
        /\ toClient' = toClient \o (w \o PipelineReplies(callbackTasks))
        /\ known' = Settle(known, callbackTasks) /\ deviceKnown' = deviceKnown
        /\ knownSize' = knownSize /\ wireError' = wireError /\ nativeState' = nativeState
        /\ mScopes' = mScopes /\ raised' = raised
        /\ tasksInFlight' = SubSeq(tasksInFlight, finished + 1, Len(tasksInFlight))
    BY <1>1, <1>2 DEF Tick, Reply
  <1>4. ClientSame
    BY DEF Tick, ClientSame, clientVars, requestVars, idVars
  <1>5. KindInv /\ OnceInv /\ OwnInv /\ KnownInv /\ ServerTypeOK
    BY InvParts
  <1>6. KnownTypes
    BY InvTypes
  <1>7. known \in [Ids -> Entry] /\ creating \subseteq Requests
    BY <1>6 DEF KnownTypes
  <1>8. tasksInFlight \in Seq(Requests) /\ WorkOnce
    BY <1>5 DEF ServerTypeOK, OnceInv, WorkOnce
  <1>9. /\ done \in Seq(Requests) /\ DOMAIN done = 1..finished
        /\ \A j \in DOMAIN done : j \in DOMAIN tasksInFlight /\ done[j] = tasksInFlight[j]
        /\ tasksInFlight' \in Seq(Requests) /\ Len(tasksInFlight) \in Nat
        /\ DOMAIN tasksInFlight' = 1..(Len(tasksInFlight) - finished)
        /\ \A j \in DOMAIN tasksInFlight' : /\ j + finished \in DOMAIN tasksInFlight
                                            /\ tasksInFlight'[j] = tasksInFlight[j + finished]
    BY <1>1, <1>3, <1>8, Parted
  <1>10. \A j \in DOMAIN done : done[j] \in Requests /\ InQueue(done[j]) /\ reqKind[done[j]] = "Work"
    <2>1. \A j \in DOMAIN done : done[j] \in Requests /\ InQueue(done[j])
      BY <1>8, <1>9, Indexed DEF InQueue
    <2> QED
      BY <1>5, <2>1 DEF KindInv
  <1>11. /\ w \in Seq(ReturnCommands) /\ TellOnce(w) /\ TellKind(w, reqKind)
         /\ \A r : Tells(w, r) <=> \E j \in DOMAIN done : done[j] = r
         /\ \A j \in DOMAIN w : w[j].ret # "Pipeline"
    <2>1. \A j, k \in DOMAIN done : j # k => done[j] # done[k]
      BY <1>8, <1>9 DEF WorkOnce
    <2>2. done \in Seq(Requests) /\ \A j \in DOMAIN done : reqKind[done[j]] = "Work"
      BY <1>9, <1>10
    <2> QED
      BY <1>2, <2>1, <2>2, WorkTells
  <1>12. /\ \A r : InQueue(r)' => InQueue(r) /\ ~Tells(w, r)
         /\ WorkOnce'
    <2>1. finished \in Nat
      BY <1>9
    <2>2. \A j, k \in DOMAIN tasksInFlight' : j # k => j + finished # k + finished
      BY <1>9, <2>1
    <2>3. WorkOnce'
      BY <1>8, <1>9, <2>2 DEF WorkOnce
    <2>4. ASSUME NEW k \in DOMAIN tasksInFlight', NEW j \in DOMAIN done
          PROVE  tasksInFlight'[k] # done[j]
      <3>1. j # k + finished
        <4>1. j \in 1..finished /\ k \in Nat /\ k >= 1
          BY <1>9
        <4> QED
          BY <2>1, <4>1
      <3> QED
        BY <1>8, <1>9, <3>1 DEF WorkOnce
    <2> QED
      BY <1>9, <1>11, <2>3, <2>4 DEF InQueue
  <1>13. /\ callbackTasks \in Seq(Outcomes) /\ SettledOnce(callbackTasks)
         /\ \A r : Settles(callbackTasks, r) <=> InTask(r)
    BY TasksSettle
  <1>14. \A j \in DOMAIN callbackTasks :
            callbackTasks[j].request \in Requests /\ InTask(callbackTasks[j].request)
    BY <1>13, OutcomeFacts DEF Settles
  <1>15. \A j \in DOMAIN callbackTasks :
            /\ reqKind[callbackTasks[j].request] = "Pipeline"
            /\ pipelineId[callbackTasks[j].request] # 0
            /\ known[pipelineId[callbackTasks[j].request]] = Reserve(callbackTasks[j].request)
    BY <1>14, Unsettled
  <1>16. PICK b : b = PipelineReplies(callbackTasks)
    OBVIOUS
  <1>17. /\ b \in Seq(ReturnCommands) /\ TellOnce(b) /\ TellKind(b, reqKind)
         /\ \A r : Tells(b, r) <=> InTask(r)
    <2>1. /\ b \in Seq(ReturnCommands) /\ TellOnce(b) /\ TellKind(b, reqKind)
          /\ \A r : Tells(b, r) <=> Settles(callbackTasks, r)
      BY <1>13, <1>15, <1>16, PipelineTells
    <2> QED
      BY <1>13, <2>1
  <1>18. \A j \in DOMAIN b : ReplyOK(b[j], pipelineId, known')
    BY <1>3, <1>5, <1>6, <1>7, <1>13, <1>15, <1>16, PipelineSays
  <1>19. PICK cmds : cmds = w \o b
    OBVIOUS
  <1>20. \A r \in Requests : (InTask(r) => r \notin creating) /\ (InQueue(r) => ~(InTask(r) \/ r \in creating))
    BY <1>5, OnceRead DEF KindInv
  <1>21. \A r : Tells(w, r) => InQueue(r)
    BY <1>10, <1>11
  <1>22. /\ cmds \in Seq(ReturnCommands) /\ TellOnce(cmds) /\ TellKind(cmds, reqKind)
         /\ \A r : Tells(cmds, r) <=> Tells(w, r) \/ Tells(b, r)
    <2>1. \A r \in Requests : ~(Tells(w, r) /\ Tells(b, r))
      BY <1>17, <1>20, <1>21
    <2>2. cmds \in Seq(ReturnCommands)
      BY <1>11, <1>17, <1>19, Joined
    <2> QED
      BY <1>11, <1>17, <1>19, <2>1, <2>2, TellsJoined
  <1>23. \A j \in DOMAIN cmds : ReplyOK(cmds[j], pipelineId, known')
    <2>1. /\ \A j \in DOMAIN w : cmds[j] = w[j]
          /\ \A j \in DOMAIN cmds : \/ j \in DOMAIN w
                                    \/ j - Len(w) \in DOMAIN b /\ cmds[j] = b[j - Len(w)]
      BY <1>11, <1>17, <1>19, Joined
    <2>2. \A j \in DOMAIN w : ReplyOK(w[j], pipelineId, known')
      BY <1>11 DEF ReplyOK
    <2> QED
      BY <1>18, <2>1, <2>2
  <1>24. toClient' = toClient \o cmds
    BY <1>3, <1>16, <1>19
  <1>25. /\ known' \in [Ids -> Entry]
         /\ \A i \in Ids : \/ known'[i] = known[i]
                           \/ \E j \in DOMAIN callbackTasks : pipelineId[callbackTasks[j].request] = i
    BY <1>3, <1>7, <1>13, SettleTouches
  <1>26. \A i \in Ids : known'[i] = known[i] \/ known[i].state = "Reserved"
    <2>1. \A r : Reserve(r).state = "Reserved"
      BY DEF Reserve
    <2>2. \A j \in DOMAIN callbackTasks : known[pipelineId[callbackTasks[j].request]].state = "Reserved"
      BY <1>15, <2>1
    <2> QED
      BY <1>25, <2>2
  <1>27. ASSUME NEW r \in Requests, r \in creating
         PROVE  known'[pipelineId[r]] = known[pipelineId[r]]
    <2>1. pipelineId[r] \in Ids /\ \A q \in Requests : q # r => pipelineId[q] # pipelineId[r]
      BY <1>27, Unsettled
    <2>2. \A j \in DOMAIN callbackTasks : callbackTasks[j].request # r
      BY <1>14, <1>20, <1>27
    <2> QED
      BY <1>14, <1>25, <2>1, <2>2
  <1>28. /\ callbackTasks' \in Seq(Tasks) /\ DOMAIN callbackTasks' = {} /\ creating' \subseteq Requests
    BY <1>3, <1>7, Nothing
  <1>29. ServerTypeOK'
    BY <1>3, <1>5, <1>9, <1>25, <1>28 DEF ServerTypeOK
  <1>30. (\A r : ~InTask(r)') /\ TaskOnce'
    BY <1>28 DEF InTask, TaskOnce
  <1>31. KnownInv'
    <2>1. /\ live' = live /\ mDisconnected' = mDisconnected /\ pipelineId' = pipelineId
          /\ held' = held /\ mFreeIds' = mFreeIds /\ mCurrentId' = mCurrentId
      BY <1>4 DEF ClientSame
    <2>2. \A r \in Requests : r \in creating' \/ InTask(r)' =>
              (r \in creating \/ InTask(r)) /\ known'[pipelineId[r]] = known[pipelineId[r]]
      BY <1>3, <1>27, <1>30
    <2>3. toServer' = toServer /\ knownSize' = knownSize
      BY <1>3
    <2> QED
      BY <1>5, <1>6, <1>22, <1>23, <1>24, <1>26, <1>28, <2>1, <2>2, <2>3, SettledKnown
  <1>32. \A r \in Requests : Tells(cmds, r) => ~Inside(r)' /\ ~IsSent(r)' /\ (Inside(r) \/ IsSent(r))
    <2> SUFFICES ASSUME NEW r \in Requests, Tells(cmds, r)
                 PROVE  ~Inside(r)' /\ ~IsSent(r)' /\ Inside(r)
      OBVIOUS
    <2>1. Inside(r)
      BY <1>17, <1>21, <1>22 DEF Inside
    <2>2. ~IsSent(r)'
      <3>1. ~IsSent(r)
        BY <1>5, <2>1, OnceRead
      <3> QED
        BY <1>3, <3>1 DEF IsSent
    <2>3. r \notin creating'
      BY <1>3, <1>17, <1>20, <1>21, <1>22
    <2>4. ~InQueue(r)'
      BY <1>12, <1>17, <1>20, <1>22
    <2> QED
      BY <1>30, <2>1, <2>2, <2>3, <2>4 DEF Inside
  <1>33. \A r \in Requests : (r \in creating' => r \in creating) /\ (InQueue(r)' => InQueue(r))
    BY <1>3, <1>12
  <1>34. toServer' = toServer /\ mScopes' = mScopes /\ deviceKnown' = deviceKnown
         /\ wireError' = wireError /\ ~mDisconnected
    BY <1>3
  <1> QED
    BY <1>4, <1>12, <1>22, <1>24, <1>29, <1>30, <1>31, <1>32, <1>33, <1>34, ServerStep

-----------------------------------------------------------------------------
(* The invariant holds of the initial states and is kept by every step.    *)

(* It holds of the initial states.                                         *)
LEMMA WireDeviceInit ==
    Init => WireDeviceInv
  <1> SUFFICES ASSUME Init PROVE WireDeviceInv
    OBVIOUS
  <1>1. /\ toServer = <<>> /\ toClient = <<>> /\ log = <<>> /\ callbackTasks = <<>>
        /\ tasksInFlight = <<>> /\ mFreeIds = <<>> /\ reported = <<>> /\ mScopes = <<>>
        /\ creating = {} /\ raised = {}
    BY DEF Init
  <1>2. /\ live = TRUE /\ mDisconnected = FALSE /\ mErrorScopeStackSize = 0
        /\ mDidRunLostCallback = FALSE /\ mCurrentId = 1 /\ knownSize = 1 /\ deviceKnown = TRUE
        /\ wireError = "None" /\ nativeState = "Alive"
    BY DEF Init
  <1>3. \A r \in Requests : /\ reqKind[r] = "None" /\ answer[r] = "None" /\ message[r] = 0
                            /\ pipelineId[r] = 0 /\ held[r] = FALSE
    BY DEF Init
  <1>4. \A i \in Ids : known[i] = NoEntry /\ known[i].state = "Free"
    BY DEF Init, NoEntry
  <1>5. MaxCalls \in Nat /\ MaxRequests \in Nat
    BY WireDeviceBounds
  <1>6. /\ toServer \in Seq(Commands) /\ toClient \in Seq(ReturnCommands) /\ log \in Seq(Events)
        /\ callbackTasks \in Seq(Tasks) /\ tasksInFlight \in Seq(Requests) /\ mFreeIds \in Seq(Ids)
        /\ reported \in Seq(1..MaxCalls) /\ mScopes \in Seq([filter : Filters, captured : 0..MaxCalls])
    BY <1>1, Nothing
  <1>7. /\ DOMAIN toServer = {} /\ DOMAIN toClient = {} /\ DOMAIN callbackTasks = {}
        /\ DOMAIN tasksInFlight = {} /\ DOMAIN mFreeIds = {} /\ Len(toServer) = 0 /\ Len(mScopes) = 0
        /\ Len(log) = 0
    BY <1>1, Nothing
  <1>8. ClientTypeOK
    <2>1. /\ reqKind \in [Requests -> {"None", "Pop", "Pipeline", "Work"}]
          /\ answer \in [Requests -> {"None", "Waiting", "NoError", "Validation", "OutOfMemory",
                                "Unknown", "DeviceLost", "DeviceDestroyed", "Error", "Success"}]
      BY DEF Init
    <2>2. message \in [Requests -> 0..MaxCalls] /\ pipelineId \in [Requests -> 0..MaxRequests]
      BY <1>5 DEF Init
    <2>3. held \in [Requests -> BOOLEAN]
      BY DEF Init
    <2>4. mErrorScopeStackSize \in 0..MaxCalls /\ mCurrentId \in 1..(MaxRequests + 1)
      BY <1>2, <1>5
    <2> QED
      BY <1>2, <1>6, <2>1, <2>2, <2>3, <2>4 DEF ClientTypeOK
  <1>9. ServerTypeOK
    <2>1. known \in [Ids -> Entry]
      BY <1>5 DEF Init, NoEntry, Entry
    <2>2. knownSize \in 1..(MaxRequests + 1)
      BY <1>2, <1>5
    <2> QED
      BY <1>1, <1>2, <1>6, <2>1, <2>2 DEF ServerTypeOK
  <1>10. ChannelTypeOK
    BY <1>2, <1>5, <1>6, <1>7 DEF ChannelTypeOK
  <1>11. DeviceInv
    BY <1>2, <1>7 DEF DeviceInv
  <1>12. ScopeInv
    <2>1. PICK d : d = [k \in 0..0 |-> 0]
      OBVIOUS
    <2>2. d \in [0..Len(toServer) -> 0..MaxCalls] /\ d[0] = 0
      BY <1>5, <1>7, <2>1
    <2>3. Counts(d)
      BY <1>2, <1>7, <2>2 DEF Counts
    <2> QED
      BY <2>2, <2>3 DEF ScopeInv
  <1>13. \A r : ~IsSent(r) /\ ~InTask(r) /\ ~InQueue(r) /\ ~IsReplied(r) /\ r \notin creating /\ ~Somewhere(r)
    BY <1>1, <1>7 DEF IsSent, InTask, InQueue, IsReplied, Somewhere
  <1>14. KindInv /\ OnceInv /\ WaitInv
    BY <1>7, <1>13 DEF KindInv, OnceInv, WaitInv
  <1>15. OwnInv
    <2>1. \A r \in Requests : 1 <= r /\ 0 < 1
      BY DEF Requests
    <2> QED
      BY <1>2, <1>3, <1>7, <1>13, <2>1 DEF OwnInv
  <1>16. EntriesOK
    BY <1>3, <1>4, <1>7, <1>13 DEF EntriesOK
  <1>17. FreeOK /\ LastOK
    <2>1. knownSize..(mCurrentId - 1) = {}
      BY <1>2
    <2> QED
      BY <1>7, <2>1 DEF FreeOK, LastOK
  <1>18. KnownInv
    <2>1. creating \subseteq Requests /\ knownSize <= mCurrentId
      BY <1>1, <1>2
    <2> QED
      BY <1>6, <1>7, <1>16, <1>17, <2>1, KnownRead
  <1>19. NoHandlerFails
    BY <1>2 DEF NoHandlerFails
  <1> QED
    BY <1>8, <1>9, <1>10, <1>11, <1>12, <1>14, <1>15, <1>18, <1>19, InvParts

(* Every step keeps it.                                                    *)
LEMMA WireDevicePreserved ==
    WireDeviceInv /\ [Next]_vars => WireDeviceInv'
  <1> SUFFICES ASSUME WireDeviceInv, [Next]_vars PROVE WireDeviceInv'
    OBVIOUS
  <1>1. CASE \E filter \in Filters : PushErrorScope(filter) \/ InjectError(filter)
    BY <1>1, PushKeeps, InjectKeeps
  <1>2. CASE \E r \in Requests :
               PopErrorScope(r) \/ OnSubmittedWorkDone(r) \/ CreatePipelineAsync(r) \/ ReleasePipeline(r)
    BY <1>2, PopKeeps, WorkKeeps, CreatePipelineKeeps, ReleasePipelineKeeps
  <1>3. CASE \E r \in Requests : \E status \in {"Success", "Error"} : WorkerDone(r, status)
    BY <1>3, WorkerDoneKeeps
  <1>4. CASE Destroy \/ ReleaseDevice \/ Disconnect
    BY <1>4, DestroyKeeps, ReleaseDeviceKeeps, DisconnectKeeps
  <1>5. CASE ClientHandles
    BY <1>5, UncapturedKeeps, LostKeeps, PopAnsweredKeeps, PipelineAnsweredKeeps, WorkAnsweredKeeps
       DEF ClientHandles
  <1>6. CASE ServerHandles
    BY <1>6, PushServed, PopServed, InjectServed, WorkServed, CreatePipelineServed,
       DestroyPipelineServed, DestroyServed, DestroyDeviceServed DEF ServerHandles
  <1>7. CASE LoseDevice
    BY <1>7, LoseDeviceKeeps
  <1>8. CASE \E finished \in 0..Len(tasksInFlight) : Tick(finished)
    BY <1>8, TickKeeps
  <1>9. CASE UNCHANGED vars
    <2>1. /\ live' = live /\ mDisconnected' = mDisconnected
          /\ mErrorScopeStackSize' = mErrorScopeStackSize /\ mDidRunLostCallback' = mDidRunLostCallback
          /\ reported' = reported /\ reqKind' = reqKind /\ answer' = answer /\ message' = message
          /\ pipelineId' = pipelineId /\ held' = held /\ mFreeIds' = mFreeIds
          /\ mCurrentId' = mCurrentId /\ toServer' = toServer /\ toClient' = toClient
          /\ deviceKnown' = deviceKnown /\ known' = known /\ knownSize' = knownSize
          /\ wireError' = wireError /\ nativeState' = nativeState /\ mScopes' = mScopes
          /\ creating' = creating /\ callbackTasks' = callbackTasks
          /\ tasksInFlight' = tasksInFlight /\ raised' = raised /\ log' = log
      BY <1>9 DEF vars, clientVars, requestVars, idVars, serverVars, nativeVars
    <2>2. NoHandlerFails' /\ ClientTypeOK' /\ ServerTypeOK' /\ ChannelTypeOK'
      BY <2>1, InvParts DEF NoHandlerFails, ClientTypeOK, ServerTypeOK, ChannelTypeOK
    <2>3. DeviceInv' /\ ScopeInv' /\ KindInv' /\ OnceInv'
      BY <2>1, InvParts DEF DeviceInv, ScopeInv, Counts, KindInv, OnceInv, IsSent, InTask, InQueue, IsReplied
    <2>4. WaitInv' /\ OwnInv'
      BY <2>1, InvParts DEF WaitInv, OwnInv, Waiting, Somewhere, IsSent, InTask, InQueue, IsReplied
    <2>5. KnownInv'
      BY <2>1, InvParts DEF KnownInv, ReservedUntilSettled, HeldIsKnown, PipelineCommandInv,
            PipelineReplyInv, FreeIdInv, NumberInv, Before, OnWay, IsSent
    <2> QED
      BY <2>2, <2>3, <2>4, <2>5, InvMade
  <1> QED
    BY <1>1, <1>2, <1>3, <1>4, <1>5, <1>6, <1>7, <1>8, <1>9 DEF Next

(* The inductive invariant: a request is in one place between the two      *)
(* sides and waited for there, the client's count of scopes is the         *)
(* server's after the commands on their way, and the ids of both sides     *)
(* match through the commands and answers on their way.                    *)
THEOREM WireDeviceCorrect == Spec => []WireDeviceInv
  BY WireDeviceInit, WireDevicePreserved, PTL DEF Spec

(* The client and the server mean the same pipeline by an id: the id of a  *)
(* pipeline on a worker or with the callback tasks stays reserved for it   *)
(* (the assertions of ServerDevice.cpp), and the one the application holds *)
(* names it, although ObjectAllocator gives an id out again as soon as its *)
(* object is released, ahead of the server.                                *)
THEOREM IdsAlwaysAgree == Spec => []IdsAgree
  <1>1. WireDeviceInv => IdsAgree
    BY DEF WireDeviceInv
  <1> QED
    BY <1>1, WireDeviceCorrect, PTL

(* No handler of either side fails: the server finds a scope to pop, an id *)
(* that is free and in order to reserve, a pipeline to destroy and its     *)
(* device; the client finds each request that is answered in its           *)
(* RequestTracker; whatever the loss, the destruction, the release and the *)
(* disconnection of the device interleave with.                            *)
THEOREM NoHandlerEverFails == Spec => []NoHandlerFails
  <1>1. WireDeviceInv => NoHandlerFails
    BY DEF WireDeviceInv
  <1> QED
    BY <1>1, WireDeviceCorrect, PTL

(* The client counts error scopes by itself (Device::PopErrorScope refuses *)
(* a pop without asking the server): its count is the number of scopes of  *)
(* the native device whenever no command is on its way.                    *)
THEOREM ScopesCountedAlike == Spec => []ScopeCountsAgree
  <1>1. WireDeviceInv => ScopeCountsAgree
    <2> SUFFICES ASSUME WireDeviceInv, ~mDisconnected, toServer = <<>>
                 PROVE  mErrorScopeStackSize = Len(mScopes)
      BY DEF ScopeCountsAgree
    <2>1. PICK d \in [0..Len(toServer) -> 0..MaxCalls] : Counts(d)
      BY DEF WireDeviceInv, ScopeInv
    <2>2. Len(toServer) = 0
      BY Nothing
    <2> QED
      BY <2>1, <2>2 DEF Counts
  <1> QED
    BY <1>1, WireDeviceCorrect, PTL

=============================================================================
