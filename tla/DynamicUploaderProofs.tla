----------------------- MODULE DynamicUploaderProofs -----------------------
(***************************************************************************)
(* Proofs about DynamicUploader: uploads in flight never overlap, for any  *)
(* ring size, any sizes and alignments and any number of rings.            *)
(***************************************************************************)
EXTENDS DynamicUploader, TLAPS

(* What the type invariant says of one ring and of one upload.             *)
LEMMA RingTypes ==
    ASSUME UploaderTypeOK
    PROVE  /\ \A r \in Rings : /\ mUsedStartOffset[r] \in Nat /\ mUsedEndOffset[r] \in Nat
                               /\ mUsedSize[r] \in Nat
           /\ \A u \in Uploads : /\ uploadStart[u] \in Nat /\ endOffset[u] \in Nat
                                 /\ requestSize[u] \in Nat /\ uploadSerial[u] \in Nat
           /\ RingSize \in Nat /\ RingSize > 0
           /\ \A u \in Uploads : u \in Nat /\ u > 0
           /\ \A r \in Rings : r \in Nat /\ r # OwnBuffer
  <1>1. RingSize \in Nat /\ RingSize > 0 /\ MaxUploads \in Nat
    BY UploaderAssumption
  <1>2. /\ \A u \in Uploads : u \in Nat /\ u > 0
        /\ \A r \in Rings : r \in Nat /\ r # OwnBuffer
    BY <1>1 DEF Rings, Uploads, OwnBuffer
  <1> QED
    BY <1>1, <1>2 DEF UploaderTypeOK

(* It holds initially.                                                     *)
LEMMA UploaderInit == Init => UploaderTypeOK /\ UploaderInv
  <1> SUFFICES ASSUME Init PROVE UploaderTypeOK /\ UploaderInv
    OBVIOUS
  <1>1. UploaderTypeOK
    BY UploaderAssumption DEF Init, UploaderTypeOK, Rings, Uploads, OwnBuffer
  <1>2. VectorInv
    BY UploaderAssumption DEF Init, VectorInv, Rings, Uploads
  <1>3. SerialInv /\ HandlesFit
    BY UploaderAssumption DEF Init, SerialInv, HandlesFit, Uploads
  <1>4. \A r \in Rings : RingInv(r)
    BY UploaderAssumption DEF Init, RingInv, OffsetsInv, RequestsInv, OrderInv, SizesInv, InRing,
       Wrapped, Empty
  <1> QED
    BY <1>1, <1>2, <1>3, <1>4 DEF UploaderInv

(* A ring whose offsets and requests do not change keeps its invariant.    *)
LEMMA OtherRing ==
    ASSUME NEW r \in Rings, RingInv(r),
           mUsedStartOffset'[r] = mUsedStartOffset[r], mUsedEndOffset'[r] = mUsedEndOffset[r],
           mUsedSize'[r] = mUsedSize[r],
           \A u \in Uploads : InRing(u, r)' <=> InRing(u, r),
           \A u \in Uploads : InRing(u, r) =>
                /\ uploadStart'[u] = uploadStart[u] /\ endOffset'[u] = endOffset[u]
                /\ requestSize'[u] = requestSize[u]
    PROVE  RingInv(r)'
  <1>1. Wrapped(r)' <=> Wrapped(r)
    BY DEF Wrapped
  <1>2. \A u \in Uploads : InRing(u, r) => (Upper(u, r)' <=> Upper(u, r))
    BY DEF Upper
  <1>3. OffsetsInv(r)'
    BY <1>1 DEF RingInv, OffsetsInv, Empty
  <1>4. RequestsInv(r)'
    BY <1>1, <1>2 DEF RingInv, RequestsInv
  <1>5. OrderInv(r)'
    BY <1>2 DEF RingInv, OrderInv
  <1>6. SizesInv(r)'
    BY <1>2 DEF RingInv, SizesInv, FollowsHead, Follows
  <1> QED
    BY <1>3, <1>4, <1>5, <1>6 DEF RingInv

(* A request is appended to ring r.                                        *)
LEMMA AppendRequest ==
    ASSUME UploaderTypeOK, NEW r \in Rings, RingInv(r), NEW u \in Uploads,
           NEW n \in Nat, n > 0, CanSubAllocate(r, n), SubAllocate(r, n, u),
           ~InRing(u, r), InRing(u, r)',
           \A v \in Uploads : InRing(v, r) => v < u,
           \A v \in Uploads : v # u => (InRing(v, r)' <=> InRing(v, r))
    PROVE  RingInv(r)' /\ mUsedSize'[r] \in Nat
  <1> DEFINE S == mUsedStartOffset[r]
             E == mUsedEndOffset[r]
             start == SubAllocStart(r, n)
             size == RequestSize(r, n)
  <1>1. /\ S \in Nat /\ E \in Nat /\ mUsedSize[r] \in Nat /\ RingSize \in Nat /\ RingSize > 0
        /\ \A v \in Uploads : uploadStart[v] \in Nat /\ endOffset[v] \in Nat /\ v \in Nat
    BY RingTypes
  <1>2. /\ mUsedStartOffset'[r] = S /\ mUsedEndOffset'[r] = start + n
        /\ mUsedSize'[r] = mUsedSize[r] + size
        /\ uploadStart'[u] = start /\ endOffset'[u] = start + n /\ requestSize'[u] = size
        /\ \A v \in Uploads : v # u => /\ uploadStart'[v] = uploadStart[v]
                                       /\ endOffset'[v] = endOffset[v]
                                       /\ requestSize'[v] = requestSize[v]
    BY DEF SubAllocate, UploaderTypeOK
  <1>3. \/ ~Wrapped(r) /\ S <= E /\ mUsedSize[r] = E - S /\ start = E /\ size = n
           /\ E + n <= RingSize
        \/ ~Wrapped(r) /\ S <= E /\ mUsedSize[r] = E - S /\ start = 0 /\ n <= S
           /\ size = RingSize - E + n /\ E <= RingSize
        \/ Wrapped(r) /\ E < S /\ mUsedSize[r] = RingSize - S + E /\ start = E /\ size = n
           /\ E + n <= S /\ S <= RingSize
    <2>1. OffsetsInv(r)
      BY DEF RingInv
    <2>2. CASE Wrapped(r)
      <3>1. E < S /\ mUsedSize[r] = RingSize - S + E /\ S <= RingSize
        BY <1>1, <2>1, <2>2 DEF OffsetsInv, CanSubAllocate, HasRoom
      <3> QED
        BY <1>1, <2>2, <3>1 DEF CanSubAllocate, FitsAtEnd, FitsAtFront, FitsBetween, Split,
           SubAllocStart, RequestSize
    <2>3. CASE ~Wrapped(r)
      <3>1. S <= E /\ mUsedSize[r] = E - S /\ E <= RingSize
        BY <1>1, <2>1, <2>3 DEF Wrapped, OffsetsInv
      <3> QED
        BY <1>1, <2>3, <3>1 DEF CanSubAllocate, FitsAtEnd, FitsAtFront, FitsBetween, Split,
           SubAllocStart, RequestSize
    <2> QED
      BY <2>2, <2>3
  <1>4. \A v \in Uploads : InRing(v, r) => v # u /\ v < u
    OBVIOUS
  <1> HIDE DEF S, E, start, size
  <1>5. \A v \in Uploads : InRing(v, r) => (Upper(v, r)' <=> Upper(v, r))
    BY <1>2, <1>4 DEF Upper, S
  <1>6. /\ \A v \in Uploads : InRing(v, r)' <=> InRing(v, r) \/ v = u
        /\ OffsetsInv(r) /\ RequestsInv(r) /\ OrderInv(r) /\ SizesInv(r)
    BY DEF RingInv
  <1>7. /\ (\A v \in Uploads : ~InRing(v, r)) => S = E
        /\ \A v \in Uploads : InRing(v, r) /\ (\A w \in Uploads : InRing(w, r) => w <= v) =>
                endOffset[v] = E
    BY <1>6 DEF OffsetsInv, RequestsInv, Empty, S, E
  <1>8. \A v \in Uploads : InRing(v, r) =>
          /\ uploadStart[v] < endOffset[v] /\ endOffset[v] <= RingSize
          /\ Upper(v, r) \/ (Wrapped(r) /\ endOffset[v] <= E)
          /\ ~Wrapped(r) => endOffset[v] <= E
          /\ Upper(v, r) => S <= uploadStart[v]
    BY <1>6 DEF RequestsInv, Upper, S, E
  <1>9. /\ Wrapped(r)' <=> mUsedSize[r] + size # start + n - S
        /\ Upper(u, r)' <=> start >= S
        /\ ~Empty(r)'
    <2>1. Wrapped(r)' <=> mUsedSize[r] + size # start + n - S
      BY <1>1, <1>2, <1>3 DEF Wrapped
    <2>2. Upper(u, r)' <=> start >= S
      BY <1>2 DEF Upper
    <2>3. ~Empty(r)'
      BY DEF Empty
    <2> QED
      BY <2>1, <2>2, <2>3
  <1>10. \A v, w \in Uploads : v < w /\ InRing(v, r)' /\ InRing(w, r)' =>
           InRing(v, r) /\ (InRing(w, r) \/ w = u)
    BY <1>1, <1>4, <1>6
  <1>11. OffsetsInv(r)' /\ mUsedSize'[r] \in Nat
    BY <1>1, <1>2, <1>3, <1>9 DEF OffsetsInv
  <1>12. Upper(u, r)' <=> start = E /\ S <= E
    BY <1>1, <1>3, <1>9
  <1>13. RequestsInv(r)'
    <2>1. ASSUME NEW v \in Uploads, InRing(v, r)
          PROVE  /\ uploadStart'[v] < endOffset'[v] /\ endOffset'[v] <= RingSize
                 /\ Upper(v, r)' \/ (Wrapped(r)' /\ endOffset'[v] <= mUsedEndOffset'[r])
                 /\ ~Wrapped(r)' => endOffset'[v] <= mUsedEndOffset'[r]
                 /\ ~(u <= v)
      BY <1>1, <1>2, <1>3, <1>4, <1>5, <1>8, <1>9, <2>1
    <2>2. /\ uploadStart'[u] < endOffset'[u] /\ endOffset'[u] <= RingSize
          /\ Upper(u, r)' \/ (Wrapped(r)' /\ endOffset'[u] <= mUsedEndOffset'[r])
          /\ endOffset'[u] = mUsedEndOffset'[r]
      BY <1>1, <1>2, <1>3, <1>9
    <2>3. \A v \in Uploads : InRing(v, r) => ~(\A w \in Uploads : InRing(w, r)' => w <= v)
      BY <2>1
    <2>4. \A v \in Uploads : InRing(v, r)' => InRing(v, r) \/ v = u
      BY <1>6
    <2> SUFFICES ASSUME NEW v \in Uploads, InRing(v, r)'
                 PROVE  /\ uploadStart'[v] < endOffset'[v] /\ endOffset'[v] <= RingSize
                        /\ Upper(v, r)' \/ (Wrapped(r)' /\ endOffset'[v] <= mUsedEndOffset'[r])
                        /\ ~Wrapped(r)' => endOffset'[v] <= mUsedEndOffset'[r]
                        /\ (\A w \in Uploads : InRing(w, r)' => w <= v) =>
                                endOffset'[v] = mUsedEndOffset'[r]
      BY DEF RequestsInv
    <2>5. CASE InRing(v, r)
      BY <2>1, <2>3, <2>5
    <2>6. CASE v = u
      BY <1>1, <1>2, <1>3, <2>2, <2>6
    <2> QED
      BY <2>4, <2>5, <2>6
  <1>14. OrderInv(r)'
    <2>1. ASSUME NEW v \in Uploads, InRing(v, r)
          PROVE  /\ Upper(u, r)' => Upper(v, r)'
                 /\ (Upper(v, r)' <=> Upper(u, r)') => endOffset'[v] <= uploadStart'[u]
      BY <1>1, <1>2, <1>3, <1>4, <1>5, <1>8, <1>9, <2>1
    <2>2. ASSUME NEW v \in Uploads, NEW w \in Uploads, v < w, InRing(v, r), InRing(w, r)
          PROVE  /\ Upper(w, r)' => Upper(v, r)'
                 /\ (Upper(v, r)' <=> Upper(w, r)') => endOffset'[v] <= uploadStart'[w]
      BY <1>2, <1>4, <1>5, <1>6, <2>2 DEF OrderInv
    <2> QED
      BY <1>10, <2>1, <2>2 DEF OrderInv
  <1>15. SizesInv(r)'
    <2>1. ASSUME \A v \in Uploads : v < u => ~InRing(v, r)'
          PROVE  FollowsHead(u, r)'
      <3>1. S = E
        BY <1>4, <1>6, <1>7, <2>1
      <3> QED
        BY <1>1, <1>2, <1>3, <1>9, <3>1 DEF FollowsHead
    <2>2. ASSUME NEW v \in Uploads, InRing(v, r),
                 \A w \in Uploads : v < w /\ w < u => ~InRing(w, r)'
          PROVE  Follows(u, v, r)'
      <3>1. endOffset'[v] = E
        <4>1. \A w \in Uploads : InRing(w, r) => w <= v
          BY <1>1, <1>4, <1>6, <2>2
        <4> QED
          BY <1>2, <1>4, <1>7, <2>2, <4>1
      <3> QED
        BY <1>1, <1>2, <1>3, <1>5, <1>8, <1>9, <2>2, <3>1 DEF Follows
    <2>3. ASSUME NEW w \in Uploads, InRing(w, r)
          PROVE  /\ (\A v \in Uploads : v < w => ~InRing(v, r)') => FollowsHead(w, r)'
                 /\ \A v \in Uploads :
                      /\ v < w /\ InRing(v, r)
                      /\ \A x \in Uploads : v < x /\ x < w => ~InRing(x, r)'
                      => Follows(w, v, r)'
      <3>1. /\ (\A v \in Uploads : v < w => ~InRing(v, r)) => FollowsHead(w, r)
            /\ \A v \in Uploads :
                 /\ v < w /\ InRing(v, r)
                 /\ \A x \in Uploads : v < x /\ x < w => ~InRing(x, r)
                 => Follows(w, v, r)
        BY <1>6, <2>3 DEF SizesInv
      <3>2. FollowsHead(w, r) => FollowsHead(w, r)'
        BY <1>2, <1>4, <1>5, <2>3 DEF FollowsHead, S
      <3>3. \A v \in Uploads : InRing(v, r) /\ Follows(w, v, r) => Follows(w, v, r)'
        BY <1>2, <1>4, <1>5, <2>3 DEF Follows
      <3> QED
        BY <1>6, <3>1, <3>2, <3>3
    <2> QED
      BY <1>4, <1>6, <1>10, <2>1, <2>2, <2>3 DEF SizesInv
  <1> QED
    BY <1>11, <1>13, <1>14, <1>15 DEF RingInv

(* The request at the head of ring r is reclaimed.                         *)
LEMMA RemoveRequest ==
    ASSUME UploaderTypeOK, NEW r \in Rings, RingInv(r), NEW u \in Uploads, InRing(u, r),
           \A v \in Uploads : v < u => ~InRing(v, r),
           mUsedStartOffset'[r] = endOffset[u], mUsedEndOffset'[r] = mUsedEndOffset[r],
           mUsedSize'[r] = mUsedSize[r] - requestSize[u],
           UNCHANGED <<uploadStart, endOffset, requestSize>>,
           \A v \in Uploads : InRing(v, r)' <=> InRing(v, r) /\ v # u
    PROVE  RingInv(r)' /\ mUsedSize'[r] \in Nat
  <1> DEFINE S == mUsedStartOffset[r]
             E == mUsedEndOffset[r]
  <1>1. /\ S \in Nat /\ E \in Nat /\ mUsedSize[r] \in Nat /\ RingSize \in Nat /\ RingSize > 0
        /\ \A v \in Uploads : uploadStart[v] \in Nat /\ endOffset[v] \in Nat /\ v \in Nat
    BY RingTypes
  <1>2. /\ OffsetsInv(r) /\ RequestsInv(r) /\ OrderInv(r) /\ SizesInv(r)
        /\ \A v \in Uploads : InRing(v, r) /\ v # u => u < v
    BY <1>1 DEF RingInv
  <1>3. \A v \in Uploads : InRing(v, r) =>
          /\ uploadStart[v] < endOffset[v] /\ endOffset[v] <= RingSize
          /\ Upper(v, r) <=> S <= uploadStart[v]
          /\ Upper(v, r) \/ (Wrapped(r) /\ endOffset[v] <= E)
          /\ ~Wrapped(r) => endOffset[v] <= E
    BY <1>1, <1>2 DEF RequestsInv, Upper
  <1>4. /\ S <= RingSize /\ E <= RingSize
        /\ Wrapped(r) => E <= S /\ mUsedSize[r] = RingSize - S + E
        /\ ~Wrapped(r) => mUsedSize[r] = E - S
    BY <1>2 DEF OffsetsInv, Wrapped
  <1>5. FollowsHead(u, r)
    BY <1>2 DEF SizesInv
  <1> DEFINE T == endOffset[u]
  (* u and what is left of the used part: still wrapped only if u is Upper. *)
  <1>6. \/ /\ ~Wrapped(r) /\ ~Wrapped(r)' /\ Upper(u, r)
           /\ mUsedSize'[r] = E - T /\ T <= E /\ S < T
        \/ /\ Wrapped(r) /\ Wrapped(r)' /\ Upper(u, r)
           /\ mUsedSize'[r] = RingSize - T + E /\ E < T /\ S < T /\ T <= RingSize
        \/ /\ Wrapped(r) /\ ~Wrapped(r)' /\ ~Upper(u, r)
           /\ mUsedSize'[r] = E - T /\ T <= E /\ E <= S
    <2>1. CASE ~Wrapped(r)
      <3>1. requestSize[u] = T - S /\ T <= E /\ S < T
        BY <1>1, <1>3, <1>5, <2>1 DEF FollowsHead
      <3> QED
        BY <1>1, <1>3, <1>4, <2>1, <3>1 DEF Wrapped
    <2>2. CASE Wrapped(r) /\ Upper(u, r)
      <3>1. requestSize[u] = T - S /\ S < T /\ T <= RingSize
        BY <1>1, <1>3, <1>5, <2>2 DEF FollowsHead
      <3>2. mUsedSize'[r] = RingSize - T + E /\ E < T
        BY <1>1, <1>4, <2>2, <3>1
      <3>3. Wrapped(r)'
        BY <1>1, <3>2 DEF Wrapped
      <3> QED
        BY <2>2, <3>1, <3>2, <3>3
    <2>3. CASE Wrapped(r) /\ ~Upper(u, r)
      <3>1. requestSize[u] = RingSize - S + T /\ T <= E
        BY <1>1, <1>3, <1>5, <2>3 DEF FollowsHead
      <3>2. mUsedSize'[r] = E - T
        BY <1>1, <1>4, <2>3, <3>1
      <3>3. ~Wrapped(r)'
        BY <3>2 DEF Wrapped
      <3> QED
        BY <1>4, <2>3, <3>1, <3>2, <3>3
    <2> QED
      BY <2>1, <2>2, <2>3
  <1>7. \A v \in Uploads : InRing(v, r)' =>
          /\ InRing(v, r) /\ u < v
          /\ Upper(v, r) => Upper(u, r)
          /\ (Upper(v, r) <=> Upper(u, r)) => T <= uploadStart[v]
    BY <1>2 DEF OrderInv
  <1>8. \A v \in Uploads : InRing(v, r)' => (Upper(v, r)' <=> T <= uploadStart[v])
    BY <1>1 DEF Upper
  <1> HIDE DEF S, E, T
  (* The requests that are left stay Upper, or all of them become Upper.   *)
  <1>9. \A v \in Uploads : InRing(v, r)' => (Upper(v, r)' <=> Upper(v, r) \/ ~Wrapped(r)')
    BY <1>1, <1>3, <1>6, <1>7, <1>8 DEF T
  <1>10. /\ mUsedStartOffset'[r] = T /\ mUsedEndOffset'[r] = E
         /\ T \in Nat /\ T <= RingSize
    BY <1>1, <1>3 DEF T, E
  <1>11. RequestsInv(r)'
    <2>1. \A v \in Uploads : InRing(v, r)' =>
            /\ uploadStart[v] < endOffset[v] /\ endOffset[v] <= RingSize
            /\ Upper(v, r)' \/ (Wrapped(r)' /\ endOffset[v] <= E)
            /\ ~Wrapped(r)' => endOffset[v] <= E
      BY <1>1, <1>3, <1>6, <1>7, <1>9
    <2>2. \A v \in Uploads :
            InRing(v, r)' /\ (\A w \in Uploads : InRing(w, r)' => w <= v) => endOffset[v] = E
      <3> SUFFICES ASSUME NEW v \in Uploads, InRing(v, r)',
                          \A w \in Uploads : InRing(w, r)' => w <= v
                   PROVE  endOffset[v] = E
        OBVIOUS
      <3>1. \A w \in Uploads : InRing(w, r) => w <= v
        BY <1>1, <1>7
      <3> QED
        BY <1>2, <1>7, <3>1 DEF RequestsInv, E
    <2> QED
      BY <1>10, <2>1, <2>2 DEF RequestsInv
  <1>12. OffsetsInv(r)' /\ mUsedSize'[r] \in Nat
    <2>1. Empty(r)' => T = E /\ ~Wrapped(r)'
      <3> SUFFICES ASSUME Empty(r)' PROVE T = E /\ ~Wrapped(r)'
        OBVIOUS
      <3>1. \A w \in Uploads : InRing(w, r) => w <= u
        BY <1>1 DEF Empty
      <3>2. T = E
        BY <1>2, <3>1 DEF RequestsInv, T, E
      <3> QED
        BY <1>1, <1>6, <1>10, <3>2
    <2> QED
      BY <1>1, <1>4, <1>6, <1>10, <2>1 DEF OffsetsInv
  <1>13. OrderInv(r)'
    <2> SUFFICES ASSUME NEW v \in Uploads, NEW w \in Uploads, v < w, InRing(v, r)', InRing(w, r)'
                 PROVE  /\ Upper(w, r)' => Upper(v, r)'
                        /\ (Upper(v, r)' <=> Upper(w, r)') => endOffset[v] <= uploadStart[w]
      BY DEF OrderInv
    <2>1. /\ Upper(w, r) => Upper(v, r)
          /\ (Upper(v, r) <=> Upper(w, r)) => endOffset[v] <= uploadStart[w]
      BY <1>2, <1>7 DEF OrderInv
    <2>2. ~Wrapped(r)' => (Upper(v, r) <=> Upper(w, r))
      BY <1>3, <1>6, <1>7
    <2> QED
      BY <1>9, <2>1, <2>2
  <1>14. SizesInv(r)'
    <2> SUFFICES ASSUME NEW w \in Uploads, InRing(w, r)'
                 PROVE  /\ (\A v \in Uploads : v < w => ~InRing(v, r)') => FollowsHead(w, r)'
                        /\ \A v \in Uploads :
                             /\ v < w /\ InRing(v, r)'
                             /\ \A x \in Uploads : v < x /\ x < w => ~InRing(x, r)'
                             => Follows(w, v, r)'
      BY DEF SizesInv
    <2>1. ASSUME \A v \in Uploads : v < w => ~InRing(v, r)'
          PROVE  FollowsHead(w, r)'
      <3>1. \A x \in Uploads : u < x /\ x < w => ~InRing(x, r)
        BY <1>1, <2>1
      <3>2. Follows(w, u, r)
        BY <1>2, <1>7, <3>1 DEF SizesInv
      <3> QED
        BY <1>1, <1>3, <1>6, <1>7, <1>9, <1>10, <3>2 DEF Follows, FollowsHead, T
    <2>2. ASSUME NEW v \in Uploads, v < w, InRing(v, r)',
                 \A x \in Uploads : v < x /\ x < w => ~InRing(x, r)'
          PROVE  Follows(w, v, r)'
      <3>1. \A x \in Uploads : v < x /\ x < w => ~InRing(x, r)
        BY <1>1, <1>7, <2>2
      <3>2. Follows(w, v, r)
        BY <1>2, <1>7, <2>2, <3>1 DEF SizesInv
      <3>3. (Upper(v, r)' /\ ~Upper(w, r)') <=> (Upper(v, r) /\ ~Upper(w, r))
        BY <1>3, <1>6, <1>7, <1>9, <2>2
      <3> QED
        BY <3>2, <3>3 DEF Follows
    <2> QED
      BY <2>1, <2>2
  <1> QED
    BY <1>11, <1>12, <1>13, <1>14 DEF RingInv

-----------------------------------------------------------------------------
(* One lemma for each operation.                                           *)

(* Allocate puts the upload at the end of ring r.                          *)
LEMMA UseRingStep ==
    ASSUME UploaderTypeOK, UploaderInv,
           NEW u \in Uploads, NEW r \in Rings, NEW size \in Sizes, NEW alignment \in Alignments,
           NextUpload(u), r \in mRingBuffers \/ r = u + 1,
           CanSubAllocate(r, size + alignment - 1), UseRing(u, r, size, alignment),
           mRingBuffers' = mRingBuffers \cup {r},
           UNCHANGED <<mPendingSerial, mCompletedSerial, cursor>>
    PROVE  UploaderTypeOK' /\ UploaderInv'
  <1> DEFINE n == size + alignment - 1
             start == SubAllocStart(r, n)
  <1>1. n \in Nat /\ n > 0 /\ size \in Nat /\ alignment \in Nat /\ size > 0 /\ alignment > 0
    BY UploaderAssumption
  <1>2. /\ SubAllocate(r, n, u) /\ Enqueue(u, r) /\ CanSubAllocate(r, n)
        /\ Handle(u, start, size, alignment)
        /\ mStagingBuffer' = [mStagingBuffer EXCEPT ![r] = IF handleSize'[u] = 0 THEN @ ELSE "Created"]
    BY DEF UseRing
  <1>3. /\ VectorInv /\ SerialInv /\ HandlesFit
        /\ \A q \in Rings : RingInv(q)
        /\ \A v \in Uploads : v \in Nat /\ v + 1 \in Rings
    BY UploaderAssumption DEF UploaderInv, Uploads, Rings
  <1>4. /\ uploadState[u] = "Unused"
        /\ \A v \in Uploads : uploadState[v] # "Unused" <=> v < u
    BY <1>3 DEF NextUpload, VectorInv
  <1>5. /\ uploadState' = [uploadState EXCEPT ![u] = "InFlight"]
        /\ uploadRing' = [uploadRing EXCEPT ![u] = r]
        /\ uploadSerial' = [uploadSerial EXCEPT ![u] = mPendingSerial]
    BY <1>2 DEF Enqueue
  <1>6. \A v \in Uploads, q \in Rings : InRing(v, q)' <=> InRing(v, q) \/ (v = u /\ q = r)
    BY <1>4, <1>5 DEF InRing, UploaderTypeOK
  <1>7. RingInv(r)' /\ mUsedSize'[r] \in Nat
    <2>1. /\ ~InRing(u, r) /\ InRing(u, r)'
          /\ \A v \in Uploads : InRing(v, r) => v < u
          /\ \A v \in Uploads : v # u => (InRing(v, r)' <=> InRing(v, r))
      BY <1>4, <1>6 DEF InRing
    <2> HIDE DEF n
    <2> QED
      BY <1>1, <1>2, <1>3, <2>1, AppendRequest
  <1>8. /\ \A v \in Uploads : v # u => /\ uploadStart'[v] = uploadStart[v]
                                       /\ endOffset'[v] = endOffset[v]
                                       /\ requestSize'[v] = requestSize[v]
        /\ \A q \in Rings : q # r => /\ mUsedStartOffset'[q] = mUsedStartOffset[q]
                                     /\ mUsedEndOffset'[q] = mUsedEndOffset[q]
                                     /\ mUsedSize'[q] = mUsedSize[q]
        /\ uploadStart'[u] = start /\ endOffset'[u] = start + n
    BY <1>2 DEF SubAllocate, UploaderTypeOK
  <1>9. \A q \in Rings : RingInv(q)'
    <2> SUFFICES ASSUME NEW q \in Rings, q # r PROVE RingInv(q)'
      BY <1>7
    <2>1. /\ \A v \in Uploads : InRing(v, q)' <=> InRing(v, q)
          /\ \A v \in Uploads : InRing(v, q) => v # u
      BY <1>4, <1>6 DEF InRing
    <2> QED
      BY <1>3, <1>8, <2>1, OtherRing
  <1>10. start \in Nat /\ RequestSize(r, n) \in Nat /\ start + n <= RingSize
    <2>1. /\ mUsedEndOffset[r] \in Nat /\ mUsedStartOffset[r] \in Nat
          /\ mUsedStartOffset[r] <= RingSize /\ mUsedEndOffset[r] <= RingSize
          /\ RingSize \in Nat
      BY <1>3, RingTypes DEF RingInv, OffsetsInv
    <2> HIDE DEF n
    <2> QED
      BY <1>1, <1>2, <2>1 DEF SubAllocStart, RequestSize, CanSubAllocate, FitsAtEnd, FitsAtFront,
         FitsBetween
  <1> HIDE DEF start
  <1>11. PICK length \in {0, size}, offset \in start..(start + alignment - 1) :
            /\ handleOffset' = [handleOffset EXCEPT ![u] = offset]
            /\ handleSize' = [handleSize EXCEPT ![u] = length]
    BY <1>2 DEF Handle
  <1>12. /\ offset \in Nat /\ length \in Nat
         /\ start <= offset /\ offset + length <= start + n
    BY <1>1, <1>10, <1>11
  <1>13. UploaderTypeOK'
    <2>1. /\ mRingBuffers' \in SUBSET Rings /\ cursor' \in Rings \cup {0}
          /\ mPendingSerial' \in Nat /\ mCompletedSerial' \in Nat
          /\ mStagingBuffer' \in [Rings -> {"Null", "Created"}]
      BY <1>2 DEF UploaderTypeOK
    <2>2. /\ mUsedStartOffset' \in [Rings -> Nat] /\ mUsedEndOffset' \in [Rings -> Nat]
          /\ uploadStart' \in [Uploads -> Nat] /\ endOffset' \in [Uploads -> Nat]
          /\ requestSize' \in [Uploads -> Nat]
      BY <1>1, <1>2, <1>10 DEF SubAllocate, UploaderTypeOK, start
    <2>3. mUsedSize' \in [Rings -> Nat]
      <3>1. mUsedSize' = [mUsedSize EXCEPT ![r] = mUsedSize'[r]]
        BY <1>2 DEF SubAllocate, UploaderTypeOK
      <3> QED
        BY <1>7, <3>1 DEF UploaderTypeOK
    <2>4. /\ uploadState' \in [Uploads -> {"Unused", "InFlight", "Reclaimed"}]
          /\ uploadRing' \in [Uploads -> Rings \cup {OwnBuffer}]
          /\ uploadSerial' \in [Uploads -> Nat]
      BY <1>5 DEF UploaderTypeOK
    <2>5. handleOffset' \in [Uploads -> Nat] /\ handleSize' \in [Uploads -> Nat]
      BY <1>11, <1>12 DEF UploaderTypeOK
    <2> QED
      BY <2>1, <2>2, <2>3, <2>4, <2>5 DEF UploaderTypeOK
  <1>14. VectorInv'
    <2>1. \A v \in Uploads : uploadState'[v] = "Unused" => uploadState[v] = "Unused" /\ u < v
      BY <1>3, <1>4, <1>5 DEF UploaderTypeOK
    <2>2. \A v \in Uploads : uploadState[v] = "Unused" /\ u < v =>
            v + 1 # r /\ v + 1 \in Rings /\ v + 1 \notin mRingBuffers
      BY <1>3 DEF VectorInv
    <2>3. \A v \in Uploads : uploadState'[v] = "InFlight" /\ uploadRing'[v] # OwnBuffer =>
            uploadRing'[v] \in mRingBuffers'
      BY <1>3, <1>4, <1>5 DEF VectorInv, UploaderTypeOK
    <2>4. \A v \in Uploads : uploadState'[v] = "Unused" =>
            \A w \in Uploads : v < w => uploadState'[w] = "Unused"
      BY <1>3, <1>5, <2>1 DEF VectorInv, UploaderTypeOK
    <2>5. mRingBuffers' # {} /\ (cursor' # 0 => cursor' \in mRingBuffers')
      BY <1>3 DEF VectorInv
    <2> QED
      BY <1>3, <1>8, <2>1, <2>2, <2>3, <2>4, <2>5 DEF VectorInv
  <1>15. SerialInv'
    <2>1. /\ mPendingSerial \in Nat
          /\ \A v \in Uploads : uploadSerial'[v] = IF v = u THEN mPendingSerial ELSE uploadSerial[v]
          /\ \A v \in Uploads : uploadState'[v] = IF v = u THEN "InFlight" ELSE uploadState[v]
          /\ \A v \in Uploads : uploadSerial[v] <= mPendingSerial
      BY <1>3, <1>5 DEF UploaderTypeOK, SerialInv
    <2>2. \A v, w \in Uploads : v < w /\ uploadState'[w] # "Unused" =>
            uploadSerial'[v] <= uploadSerial'[w]
      BY <1>3, <1>4, <2>1 DEF SerialInv
    <2>3. \A v \in Uploads : /\ uploadState'[v] = "InFlight" /\ uploadRing'[v] # OwnBuffer
                             /\ handleSize'[v] > 0
                             => mStagingBuffer'[uploadRing'[v]] = "Created"
      <3> SUFFICES ASSUME NEW v \in Uploads, uploadState'[v] = "InFlight",
                          uploadRing'[v] # OwnBuffer, handleSize'[v] > 0
                   PROVE  mStagingBuffer'[uploadRing'[v]] = "Created"
        OBVIOUS
      <3>1. CASE v = u
        BY <1>2, <1>5, <3>1 DEF UploaderTypeOK
      <3>2. CASE v # u
        <4>1. /\ uploadState[v] = "InFlight" /\ uploadRing'[v] = uploadRing[v]
              /\ uploadRing[v] \in Rings /\ handleSize[v] > 0
          BY <1>5, <1>11, <3>2 DEF UploaderTypeOK
        <4>2. mStagingBuffer[uploadRing[v]] = "Created"
          BY <1>3, <4>1 DEF SerialInv
        <4> QED
          BY <1>2, <4>1, <4>2 DEF UploaderTypeOK
      <3> QED
        BY <3>1, <3>2
    <2> QED
      BY <1>3, <2>1, <2>2, <2>3 DEF SerialInv
  <1>16. HandlesFit'
    <2> SUFFICES ASSUME NEW v \in Uploads, uploadState'[v] = "InFlight"
                 PROVE  /\ uploadStart'[v] <= handleOffset'[v]
                        /\ handleOffset'[v] + handleSize'[v] <= endOffset'[v]
                        /\ uploadRing'[v] # OwnBuffer => endOffset'[v] <= RingSize
      BY DEF HandlesFit
    <2>1. CASE v = u
      BY <1>8, <1>10, <1>11, <1>12, <2>1 DEF UploaderTypeOK
    <2>2. CASE v # u
      BY <1>3, <1>5, <1>8, <1>11, <2>2 DEF UploaderTypeOK, HandlesFit
    <2> QED
      BY <2>1, <2>2
  <1> QED
    BY <1>9, <1>13, <1>14, <1>15, <1>16 DEF UploaderInv

(* Allocate, in all its outcomes.                                          *)
LEMMA AllocateStep ==
    ASSUME UploaderTypeOK, UploaderInv,
           NEW u \in Uploads, NEW size \in Sizes, NEW alignment \in Alignments,
           AllocateInRing(u, size, alignment) \/ AllocateInNewRing(u, size, alignment)
    PROVE  UploaderTypeOK' /\ UploaderInv'
  <1>1. CASE AllocateInRing(u, size, alignment)
    <2>1. PICK r \in mRingBuffers : /\ CanSubAllocate(r, size + alignment - 1)
                                    /\ UseRing(u, r, size, alignment)
      BY <1>1 DEF AllocateInRing
    <2>2. r \in Rings /\ mRingBuffers' = mRingBuffers \cup {r}
      BY <1>1, <2>1 DEF AllocateInRing, UploaderTypeOK
    <2> QED
      BY <1>1, <2>1, <2>2, UseRingStep DEF AllocateInRing, Fitting
  <1>2. CASE AllocateInNewRing(u, size, alignment)
    <2>1. /\ u + 1 \in Rings /\ RingSize \in Nat /\ RingSize > 0
          /\ size + alignment - 1 \in Nat /\ size + alignment - 1 <= RingSize
      BY <1>2, UploaderAssumption DEF AllocateInNewRing, Fitting, Uploads, Rings
    <2>2. mUsedSize[u + 1] = 0 /\ mUsedStartOffset[u + 1] = 0 /\ mUsedEndOffset[u + 1] = 0
      BY <1>2 DEF AllocateInNewRing, Fitting, NextUpload, UploaderInv, VectorInv
    <2>3. CanSubAllocate(u + 1, size + alignment - 1)
      BY <2>1, <2>2 DEF CanSubAllocate, HasRoom, Remaining, FitsAtEnd, Split
    <2> QED
      BY <1>2, <2>1, <2>3, UseRingStep DEF AllocateInNewRing, Fitting
  <1> QED
    BY <1>1, <1>2

(* An upload with a staging buffer of its own leaves the rings alone.      *)
LEMMA OwnBufferStep ==
    ASSUME UploaderTypeOK, UploaderInv,
           NEW u \in Uploads, NEW size \in Sizes, NEW alignment \in Alignments,
           AllocateOwnBuffer(u, size, alignment)
    PROVE  UploaderTypeOK' /\ UploaderInv'
  <1> USE DEF ringVars
  <1>1. size + alignment - 1 \in Nat /\ size \in Nat /\ size <= size + alignment - 1
    BY UploaderAssumption
  <1>2. /\ VectorInv /\ SerialInv /\ HandlesFit
        /\ \A q \in Rings : RingInv(q)
        /\ \A v \in Uploads : v \in Nat
    BY UploaderAssumption DEF UploaderInv, Uploads
  <1>3. /\ uploadState' = [uploadState EXCEPT ![u] = "InFlight"]
        /\ uploadRing' = [uploadRing EXCEPT ![u] = OwnBuffer]
        /\ uploadSerial' = [uploadSerial EXCEPT ![u] = mPendingSerial]
        /\ UNCHANGED <<mRingBuffers, ringVars, mStagingBuffer, mPendingSerial, mCompletedSerial,
                       cursor>>
    BY DEF AllocateOwnBuffer, Enqueue
  <1>4. /\ uploadState[u] = "Unused"
        /\ \A v \in Uploads : uploadState[v] # "Unused" <=> v < u
    BY <1>2 DEF AllocateOwnBuffer, NextUpload, VectorInv
  <1>5. UploaderTypeOK'
    BY <1>1, <1>3 DEF AllocateOwnBuffer, UploaderTypeOK
  <1>6. \A q \in Rings : RingInv(q)'
    <2> SUFFICES ASSUME NEW q \in Rings PROVE RingInv(q)'
      OBVIOUS
    <2>1. /\ \A v \in Uploads : InRing(v, q)' <=> InRing(v, q)
          /\ \A v \in Uploads : InRing(v, q) => v # u
      BY <1>3, <1>4, RingTypes DEF InRing, UploaderTypeOK
    <2>2. \A v \in Uploads : v # u => /\ uploadStart'[v] = uploadStart[v]
                                      /\ endOffset'[v] = endOffset[v]
                                      /\ requestSize'[v] = requestSize[v]
      BY DEF AllocateOwnBuffer, UploaderTypeOK
    <2> QED
      BY <1>2, <1>3, <2>1, <2>2, OtherRing
  <1>7. VectorInv'
    BY <1>2, <1>3, <1>4 DEF VectorInv, UploaderTypeOK
  <1>8. SerialInv'
    <2>1. /\ \A v \in Uploads : uploadSerial'[v] = IF v = u THEN mPendingSerial ELSE uploadSerial[v]
          /\ \A v \in Uploads : uploadState'[v] = IF v = u THEN "InFlight" ELSE uploadState[v]
          /\ \A v \in Uploads : uploadRing'[v] = IF v = u THEN OwnBuffer ELSE uploadRing[v]
          /\ \A v \in Uploads : v # u => handleSize'[v] = handleSize[v]
          /\ \A v \in Uploads : uploadSerial[v] <= mPendingSerial
          /\ mPendingSerial \in Nat
      BY <1>2, <1>3 DEF UploaderTypeOK, SerialInv, AllocateOwnBuffer
    <2>2. \A v, w \in Uploads : v < w /\ uploadState'[w] # "Unused" =>
            uploadSerial'[v] <= uploadSerial'[w]
      BY <1>2, <1>4, <2>1 DEF SerialInv
    <2> QED
      BY <1>2, <1>3, <2>1, <2>2 DEF SerialInv
  <1>9. HandlesFit'
    BY <1>1, <1>2, <1>3 DEF AllocateOwnBuffer, HandlesFit, UploaderTypeOK
  <1> QED
    BY <1>5, <1>6, <1>7, <1>8, <1>9 DEF UploaderInv

(* RingBufferAllocator::Deallocate takes back the head of its queue.       *)
LEMMA ReclaimStep ==
    ASSUME UploaderTypeOK, UploaderInv, NEW u \in Uploads, Reclaim(u)
    PROVE  UploaderTypeOK' /\ UploaderInv'
  <1>1. /\ VectorInv /\ SerialInv /\ HandlesFit
        /\ \A q \in Rings : RingInv(q)
        /\ cursor \in Rings
    BY DEF UploaderInv, UploaderTypeOK, Reclaim
  <1>2. /\ InRing(u, cursor) /\ uploadSerial[u] <= mCompletedSerial
        /\ \A v \in Uploads : v < u => ~InRing(v, cursor)
        /\ uploadState' = [uploadState EXCEPT ![u] = "Reclaimed"]
        /\ UNCHANGED <<mRingBuffers, mUsedEndOffset, mStagingBuffer, uploadRing, uploadStart,
                       endOffset, requestSize, uploadSerial, handleOffset, handleSize,
                       mPendingSerial, mCompletedSerial, cursor>>
    BY DEF Reclaim, Reclaimable
  <1>3. /\ \A q \in Rings : mUsedStartOffset'[q] = IF q = cursor THEN endOffset[u]
                                                                 ELSE mUsedStartOffset[q]
        /\ \A q \in Rings : mUsedSize'[q] = IF q = cursor THEN mUsedSize[q] - requestSize[u]
                                                          ELSE mUsedSize[q]
    BY DEF Reclaim, UploaderTypeOK
  <1>4. \A v \in Uploads, q \in Rings : InRing(v, q)' <=> InRing(v, q) /\ v # u
    BY <1>2 DEF InRing, UploaderTypeOK
  <1>5. RingInv(cursor)' /\ mUsedSize'[cursor] \in Nat
    BY <1>1, <1>2, <1>3, <1>4, RemoveRequest
  <1>6. \A q \in Rings : RingInv(q)'
    <2> SUFFICES ASSUME NEW q \in Rings, q # cursor PROVE RingInv(q)'
      <3>1. cursor' = cursor
        BY <1>2
      <3> QED
        BY <1>5, <3>1
    <2>1. \A v \in Uploads : InRing(v, q)' <=> InRing(v, q)
      BY <1>2, <1>4 DEF InRing
    <2> QED
      BY <1>1, <1>2, <1>3, <2>1, OtherRing
  <1>7. UploaderTypeOK'
    <2>1. mUsedSize' \in [Rings -> Nat]
      <3>1. mUsedSize' = [mUsedSize EXCEPT ![cursor] = mUsedSize'[cursor]]
        BY <1>1 DEF Reclaim, UploaderTypeOK
      <3> QED
        BY <1>5, <3>1 DEF UploaderTypeOK
    <2> QED
      BY <1>2, <2>1 DEF Reclaim, UploaderTypeOK
  <1>8. VectorInv'
    <2>1. \A v \in Uploads : /\ uploadState'[v] = "InFlight" => uploadState[v] = "InFlight"
                             /\ uploadState'[v] = "Unused" <=> uploadState[v] = "Unused"
      BY <1>2 DEF InRing, UploaderTypeOK
    <2>2. \A v \in Uploads : uploadState[v] = "Unused" => v + 1 # cursor /\ v + 1 \in Rings
      BY <1>1, UploaderAssumption DEF VectorInv, Uploads, Rings, Reclaim
    <2> QED
      BY <1>1, <1>2, <1>3, <2>1, <2>2 DEF VectorInv
  <1>9. SerialInv' /\ HandlesFit'
    BY <1>1, <1>2 DEF SerialInv, HandlesFit, InRing, UploaderTypeOK
  <1> QED
    BY <1>6, <1>7, <1>8, <1>9 DEF UploaderInv

(* The loop over the rings erases empty rings only, and not all of them.   *)
LEMMA NextRingStep ==
    ASSUME UploaderTypeOK, UploaderInv, NextRing
    PROVE  UploaderTypeOK' /\ UploaderInv'
  <1> DEFINE remaining == IF Erasable(cursor) THEN mRingBuffers \ {cursor} ELSE mRingBuffers
             later == {q \in remaining : q > cursor}
  <1> USE DEF ringVars
  <1>1. /\ VectorInv /\ SerialInv /\ HandlesFit
        /\ \A q \in Rings : RingInv(q)
        /\ cursor \in mRingBuffers
        /\ mRingBuffers \subseteq Rings
    BY DEF UploaderInv, UploaderTypeOK, NextRing, VectorInv
  <1>2. /\ mRingBuffers' = remaining
        /\ UNCHANGED <<ringVars, mStagingBuffer, uploadRing, uploadStart, endOffset, requestSize,
                       uploadSerial, handleOffset, handleSize, mPendingSerial, mCompletedSerial>>
        /\ uploadState' = uploadState \/ ClearUpTo(mCompletedSerial)
    BY DEF NextRing
  <1>3. cursor' \in remaining \cup {0}
    BY DEF NextRing, IsNext
  <1>4. /\ uploadState' \in [Uploads -> {"Unused", "InFlight", "Reclaimed"}]
        /\ \A v \in Uploads : \/ uploadState'[v] = uploadState[v]
                              \/ /\ uploadState[v] = "InFlight" /\ uploadRing[v] = OwnBuffer
                                 /\ uploadState'[v] = "Reclaimed"
                                 /\ uploadSerial[v] <= mCompletedSerial
    BY <1>2 DEF UploaderTypeOK, ClearUpTo, InRing
  <1>5. \A r \in Rings : RingInv(r)'
    <2> SUFFICES ASSUME NEW r \in Rings PROVE RingInv(r)'
      OBVIOUS
    <2>1. \A v \in Uploads : InRing(v, r)' <=> InRing(v, r)
      BY <1>2, <1>4, RingTypes DEF InRing
    <2> QED
      BY <1>1, <1>2, <2>1, OtherRing
  <1>6. remaining # {}
    <2>1. CASE Erasable(cursor)
      <3>1. PICK q \in mRingBuffers : ~(q <= cursor)
        BY <1>1, <2>1 DEF Erasable, Last
      <3>2. cursor \in Nat
        BY <1>1, RingTypes
      <3>3. q \in remaining
        BY <2>1, <3>1, <3>2
      <3> QED
        BY <3>3
    <2>2. CASE ~Erasable(cursor)
      BY <1>1, <2>2
    <2> QED
      BY <2>1, <2>2
  <1>7. \A v \in Uploads : uploadState[v] = "InFlight" /\ uploadRing[v] # OwnBuffer =>
          uploadRing[v] \in remaining
    BY <1>1 DEF VectorInv, Erasable, Empty, InRing
  <1>8. VectorInv'
    <2>1. \A v \in Uploads : /\ uploadState'[v] = "InFlight" => uploadState[v] = "InFlight"
                             /\ uploadState'[v] = "Unused" <=> uploadState[v] = "Unused"
      BY <1>4
    <2> HIDE DEF remaining
    <2>2. \A v \in Uploads : uploadState'[v] = "Unused" => v + 1 \notin mRingBuffers'
      BY <1>1, <1>2, <2>1 DEF VectorInv, remaining
    <2> QED
      BY <1>1, <1>2, <1>3, <1>6, <1>7, <2>1, <2>2 DEF VectorInv
  <1>9. SerialInv' /\ HandlesFit'
    BY <1>1, <1>2, <1>4 DEF SerialInv, HandlesFit
  <1>10. UploaderTypeOK'
    <2>1. mRingBuffers' \in SUBSET Rings /\ cursor' \in Rings \cup {0}
      BY <1>1, <1>2, <1>3
    <2> QED
      BY <1>2, <1>4, <2>1 DEF UploaderTypeOK
  <1> QED
    BY <1>5, <1>8, <1>9, <1>10 DEF UploaderInv

(* The device's steps change serials only.                                 *)
LEMMA DeviceStep ==
    ASSUME UploaderTypeOK, UploaderInv, Submit \/ Tick \/ UNCHANGED vars
    PROVE  UploaderTypeOK' /\ UploaderInv'
  <1> USE DEF ringVars, uploadVars
  <1>1. /\ UNCHANGED <<mRingBuffers, ringVars, mStagingBuffer, uploadVars>>
        /\ mPendingSerial' \in Nat /\ mPendingSerial <= mPendingSerial'
        /\ mCompletedSerial' \in Nat /\ mCompletedSerial <= mCompletedSerial'
        /\ cursor' = cursor \/ cursor' \in mRingBuffers
    BY DEF Submit, Tick, vars, UploaderTypeOK
  <1>2. UploaderTypeOK'
    BY <1>1 DEF UploaderTypeOK
  <1>3. \A r \in Rings : RingInv(r)'
    BY <1>1, OtherRing DEF UploaderInv, InRing
  <1>4. VectorInv' /\ HandlesFit'
    BY <1>1 DEF UploaderInv, VectorInv, HandlesFit
  <1>5. SerialInv'
    BY <1>1 DEF UploaderInv, SerialInv, UploaderTypeOK
  <1> QED
    BY <1>2, <1>3, <1>4, <1>5 DEF UploaderInv

-----------------------------------------------------------------------------
(* The used part of every ring is exactly the requests in its queue, and   *)
(* mUsedSize never underflows, for every ring size and every use.          *)
THEOREM UploaderInvariant == Spec => [](UploaderTypeOK /\ UploaderInv)
  <1>1. UploaderTypeOK /\ UploaderInv /\ [Next]_vars => UploaderTypeOK' /\ UploaderInv'
    BY AllocateStep, OwnBufferStep, ReclaimStep, NextRingStep, DeviceStep DEF Next
  <1> QED
    BY <1>1, UploaderInit, PTL DEF Spec

(* Uploads in flight in one ring never overlap.                            *)
THEOREM UploadsNeverOverlap == Spec => []NoOverlap
  <1>1. UploaderTypeOK /\ UploaderInv => NoOverlap
    <2> SUFFICES ASSUME UploaderTypeOK, UploaderInv,
                        NEW r \in Rings, NEW u \in Uploads, NEW v \in Uploads,
                        u < v, InRing(u, r), InRing(v, r)
                 PROVE  endOffset[u] <= uploadStart[v] \/ endOffset[v] <= uploadStart[u]
      BY DEF NoOverlap
    <2>1. OffsetsInv(r) /\ RequestsInv(r) /\ OrderInv(r)
      BY DEF UploaderInv, RingInv
    <2>2. CASE Upper(u, r) <=> Upper(v, r)
      BY <2>1, <2>2 DEF OrderInv
    <2>3. CASE Upper(u, r) /\ ~Upper(v, r)
      <3>1. endOffset[v] <= mUsedEndOffset[r] /\ mUsedEndOffset[r] <= mUsedStartOffset[r]
            /\ mUsedStartOffset[r] <= uploadStart[u]
        BY <2>1, <2>3 DEF OffsetsInv, RequestsInv, Upper
      <3> QED
        BY <3>1, RingTypes
    <2> QED
      BY <2>1, <2>2, <2>3 DEF OrderInv
  <1> QED
    BY <1>1, UploaderInvariant, PTL

(* Memory whose serial has not completed is neither reclaimed nor freed,   *)
(* although Deallocate erases rings while it walks over them.              *)
THEOREM UploadsStayBacked == Spec => []InUseIsBacked
  <1>1. UploaderTypeOK /\ UploaderInv => InUseIsBacked
    <2> SUFFICES ASSUME UploaderTypeOK, UploaderInv, NEW u \in Uploads,
                        uploadState[u] # "Unused", uploadSerial[u] > mCompletedSerial
                 PROVE  /\ uploadState[u] = "InFlight"
                        /\ uploadRing[u] # OwnBuffer =>
                                /\ uploadRing[u] \in mRingBuffers
                                /\ handleSize[u] > 0 => mStagingBuffer[uploadRing[u]] = "Created"
      BY DEF InUseIsBacked
    <2>1. uploadState[u] # "Reclaimed"
      BY DEF UploaderInv, SerialInv, UploaderTypeOK
    <2>2. uploadState[u] = "InFlight"
      BY <2>1 DEF UploaderTypeOK
    <2> QED
      BY <2>2 DEF UploaderInv, SerialInv, VectorInv
  <1> QED
    BY <1>1, UploaderInvariant, PTL

(* The handle a caller gets lies inside its allocation and its buffer.     *)
THEOREM HandlesAlwaysFit == Spec => []HandlesFit
  <1>1. UploaderInv => HandlesFit
    BY DEF UploaderInv
  <1> QED
    BY <1>1, UploaderInvariant, PTL

(* The uploader's assertions hold.                                         *)
THEOREM UploaderAssertsHold == Spec => []UploaderAsserts
  <1>1. UploaderInv => UploaderAsserts
    BY DEF UploaderInv, UploaderAsserts, VectorInv, SerialInv, RingInv, OffsetsInv, InRing
  <1> QED
    BY <1>1, UploaderInvariant, PTL
=============================================================================
