----------------------- MODULE SubresourceStorageProofs -----------------------
(***************************************************************************)
(* Proofs that the compressed storage of SubresourceStorage.h behaves as a *)
(* plain map from subresources to values, for every number of layers and   *)
(* levels, every set of values and every update or merge function.  The    *)
(* shape ShapeOK is what makes it true: an update must keep it, and the    *)
(* ranges it is given must not be empty.                                   *)
(***************************************************************************)
EXTENDS SubresourceStorage, TLAPS

\* The layers of a storage, and the value a layer gives one of its levels.
LayerSet(levelCount, Values) ==
    [compressed : BOOLEAN, data : [0..levelCount - 1 -> Values]]

GetInLayer(ly, m) == IF ly.compressed THEN ly.data[0] ELSE ly.data[m]

-----------------------------------------------------------------------------
(* One layer                                                               *)

\* DecompressLayer copies the layer's value to all its levels.
LEMMA OpenLayerExact ==
    ASSUME NEW ML \in Nat \ {0}, NEW Values, NEW ly \in LayerSet(ML, Values)
    PROVE  /\ OpenLayer(ly) \in LayerSet(ML, Values)
           /\ ~OpenLayer(ly).compressed
           /\ \A m \in 0..ML - 1 : OpenLayer(ly).data[m] = GetInLayer(ly, m)
<1>1. 0 \in 0..ML - 1
  OBVIOUS
<1>2. CASE ly.compressed
  BY <1>1, <1>2 DEF OpenLayer, DecompressLayer, LayerSet, GetInLayer
<1>3. CASE ~ly.compressed
  BY <1>3 DEF OpenLayer, LayerSet, GetInLayer
<1>4. QED
  BY <1>2, <1>3

\* RecompressLayer changes no value.
LEMMA RecompressLayerExact ==
    ASSUME NEW ML \in Nat \ {0}, NEW Values, NEW ly \in LayerSet(ML, Values),
           ~ly.compressed
    PROVE  /\ RecompressLayer(ly) \in LayerSet(ML, Values)
           /\ \A m \in 0..ML - 1 : GetInLayer(RecompressLayer(ly), m) = ly.data[m]
           /\ ML = 1 => RecompressLayer(ly).compressed
<1> DEFINE r == RecompressLayer(ly)
<1>1. DOMAIN ly.data = 0..ML - 1
  BY DEF LayerSet
<1>2. r.data = ly.data /\ (r.compressed <=> \A m \in 0..ML - 1 : ly.data[m] = ly.data[0])
  BY <1>1 DEF RecompressLayer
<1>3. r \in LayerSet(ML, Values)
  BY DEF LayerSet, RecompressLayer
<1> HIDE DEF r
<1>4. \A m \in 0..ML - 1 : GetInLayer(r, m) = ly.data[m]
  BY <1>2 DEF GetInLayer
<1>5. ML = 1 => r.compressed
  <2> SUFFICES ASSUME ML = 1 PROVE r.compressed
    OBVIOUS
  <2>1. \A m \in 0..ML - 1 : m = 0
    OBVIOUS
  <2>2. QED
    BY <1>2, <2>1
<1>6. QED
  BY <1>3, <1>4, <1>5 DEF r

\* Update, on one layer of its range.
LEMMA UpdateLayerExact ==
    ASSUME NEW ML \in Nat \ {0}, NEW Values, NEW ly \in LayerSet(ML, Values),
           NEW M \in SUBSET (0..ML - 1), NEW f \in [Values -> Values]
    PROVE  /\ UpdateLayer(ly, M, f) \in LayerSet(ML, Values)
           /\ \A m \in 0..ML - 1 :
                 GetInLayer(UpdateLayer(ly, M, f), m) =
                     IF m \in M THEN f[GetInLayer(ly, m)] ELSE GetInLayer(ly, m)
           /\ M # 0..ML - 1 => ~UpdateLayer(ly, M, f).compressed
           /\ (ly.compressed /\ M = 0..ML - 1) => UpdateLayer(ly, M, f).compressed
<1> DEFINE open == OpenLayer(ly)
           updated == [compressed |-> FALSE,
                       data |-> [m \in DOMAIN open.data |->
                                    IF m \in M THEN f[open.data[m]] ELSE open.data[m]]]
<1>1. /\ open \in LayerSet(ML, Values)
      /\ ~open.compressed
      /\ \A m \in 0..ML - 1 : open.data[m] = GetInLayer(ly, m)
  BY OpenLayerExact
<1>2. DOMAIN ly.data = 0..ML - 1 /\ DOMAIN open.data = 0..ML - 1
  BY <1>1 DEF LayerSet
<1>3. updated = [compressed |-> FALSE,
                 data |-> [m \in 0..ML - 1 |->
                              IF m \in M THEN f[open.data[m]] ELSE open.data[m]]]
  BY <1>1, <1>2 DEF LayerSet
<1>4. /\ updated \in LayerSet(ML, Values)
      /\ ~updated.compressed
      /\ \A m \in 0..ML - 1 :
            updated.data[m] = IF m \in M THEN f[GetInLayer(ly, m)] ELSE GetInLayer(ly, m)
  <2> HIDE DEF open
  <2>1. \A m \in 0..ML - 1 : open.data[m] \in Values
    BY <1>1 DEF LayerSet
  <2> HIDE DEF updated
  <2>2. [m \in 0..ML - 1 |-> IF m \in M THEN f[open.data[m]] ELSE open.data[m]]
           \in [0..ML - 1 -> Values]
    BY <2>1
  <2>3. QED
    BY <1>1, <1>3, <2>2 DEF LayerSet
<1>5. CASE ly.compressed /\ M = 0..ML - 1
  <2>1. UpdateLayer(ly, M, f) =
            [compressed |-> TRUE, data |-> [ly.data EXCEPT ![0] = f[ly.data[0]]]]
    BY <1>2, <1>5 DEF UpdateLayer
  <2>2. 0 \in 0..ML - 1
    OBVIOUS
  <2>3. ly.data[0] \in Values
    BY <2>2 DEF LayerSet
  <2> DEFINE d == [ly.data EXCEPT ![0] = f[ly.data[0]]]
  <2>4. ly.data \in [0..ML - 1 -> Values]
    BY DEF LayerSet
  <2>5. d \in [0..ML - 1 -> Values] /\ d[0] = f[ly.data[0]]
    BY <2>2, <2>3, <2>4
  <2> HIDE DEF d
  <2>6. UpdateLayer(ly, M, f) = [compressed |-> TRUE, data |-> d]
    BY <2>1 DEF d
  <2>7. UpdateLayer(ly, M, f) \in LayerSet(ML, Values) /\ UpdateLayer(ly, M, f).compressed
    BY <2>5, <2>6 DEF LayerSet
  <2>8. \A m \in 0..ML - 1 : /\ GetInLayer(UpdateLayer(ly, M, f), m) = f[ly.data[0]]
                            /\ GetInLayer(ly, m) = ly.data[0]
    BY <1>5, <2>5, <2>6 DEF GetInLayer
  <2>9. QED
    BY <1>5, <2>7, <2>8
<1>6. CASE ~ly.compressed /\ M = 0..ML - 1
  <2>1. UpdateLayer(ly, M, f) = RecompressLayer(updated)
    BY <1>2, <1>6 DEF UpdateLayer
  <2> HIDE DEF updated
  <2>2. QED
    BY <1>4, <1>6, <2>1, RecompressLayerExact
<1>7. CASE M # 0..ML - 1
  <2>1. UpdateLayer(ly, M, f) = updated
    BY <1>2, <1>7 DEF UpdateLayer
  <2> HIDE DEF updated
  <2>2. QED
    BY <1>4, <1>7, <2>1 DEF GetInLayer
<1>8. QED
  BY <1>5, <1>6, <1>7

\* Merge, on one layer.
LEMMA MergeLayerExact ==
    ASSUME NEW ML \in Nat \ {0}, NEW Values,
           NEW ly \in LayerSet(ML, Values), NEW o \in LayerSet(ML, Values),
           NEW g \in [Values -> [Values -> Values]]
    PROVE  /\ MergeLayer(ly, o, g) \in LayerSet(ML, Values)
           /\ \A m \in 0..ML - 1 :
                 GetInLayer(MergeLayer(ly, o, g), m) = g[GetInLayer(o, m)][GetInLayer(ly, m)]
           /\ ML = 1 /\ ly.compressed => MergeLayer(ly, o, g).compressed
<1> DEFINE open == OpenLayer(ly)
           merged == [compressed |-> FALSE,
                      data |-> [m \in DOMAIN open.data |-> g[o.data[m]][open.data[m]]]]
<1>1. /\ open \in LayerSet(ML, Values)
      /\ \A m \in 0..ML - 1 : open.data[m] = GetInLayer(ly, m)
  BY OpenLayerExact
<1>2. DOMAIN ly.data = 0..ML - 1 /\ DOMAIN open.data = 0..ML - 1
  BY <1>1 DEF LayerSet
<1>3. 0 \in 0..ML - 1
  OBVIOUS
<1>4. \A m \in 0..ML - 1 : o.data[m] \in Values
  BY DEF LayerSet
<1>5. CASE o.compressed
  <2>1. MergeLayer(ly, o, g) = UpdateLayer(ly, 0..ML - 1, g[o.data[0]])
    BY <1>2, <1>5 DEF MergeLayer
  <2>2. g[o.data[0]] \in [Values -> Values]
    BY <1>3, <1>4
  <2>3. /\ UpdateLayer(ly, 0..ML - 1, g[o.data[0]]) \in LayerSet(ML, Values)
        /\ \A m \in 0..ML - 1 :
              GetInLayer(UpdateLayer(ly, 0..ML - 1, g[o.data[0]]), m) =
                  IF m \in 0..ML - 1 THEN g[o.data[0]][GetInLayer(ly, m)] ELSE GetInLayer(ly, m)
        /\ ly.compressed => UpdateLayer(ly, 0..ML - 1, g[o.data[0]]).compressed
    BY <2>2, UpdateLayerExact
  <2>4. \A m \in 0..ML - 1 : GetInLayer(o, m) = o.data[0]
    BY <1>5 DEF GetInLayer
  <2>5. QED
    BY <2>1, <2>3, <2>4
<1>6. CASE ~o.compressed
  <2>1. MergeLayer(ly, o, g) = RecompressLayer(merged)
    BY <1>6 DEF MergeLayer
  <2> HIDE DEF open
  <2>2. \A m \in 0..ML - 1 : open.data[m] \in Values
    BY <1>1 DEF LayerSet
  <2>3. merged = [compressed |-> FALSE,
                  data |-> [m \in 0..ML - 1 |-> g[o.data[m]][open.data[m]]]]
    BY <1>2
  <2>4. [m \in 0..ML - 1 |-> g[o.data[m]][open.data[m]]] \in [0..ML - 1 -> Values]
    BY <1>4, <2>2
  <2> HIDE DEF merged
  <2>5. /\ merged \in LayerSet(ML, Values)
        /\ ~merged.compressed
        /\ \A m \in 0..ML - 1 : merged.data[m] = g[o.data[m]][open.data[m]]
    BY <2>3, <2>4 DEF LayerSet
  <2>6. \A m \in 0..ML - 1 : GetInLayer(o, m) = o.data[m]
    BY <1>6 DEF GetInLayer
  <2>7. QED
    BY <1>1, <2>1, <2>5, <2>6, RecompressLayerExact
<1>7. QED
  BY <1>5, <1>6

-----------------------------------------------------------------------------
(* One aspect                                                              *)

\* A storage is a flag, a value and layers; Layers and Levels are its sizes.
LEMMA StorageParts ==
    ASSUME NEW NL \in Nat \ {0}, NEW ML \in Nat \ {0}, NEW Values,
           NEW n \in Storages(NL, ML, Values)
    PROVE  /\ Layers(n) = 0..NL - 1
           /\ Levels(n) = 0..ML - 1
           /\ n.inline \in Values
           /\ n.layer \in [0..NL - 1 -> LayerSet(ML, Values)]
           /\ 0 \in 0..NL - 1 /\ 0 \in 0..ML - 1
<1>1. 0 \in 0..NL - 1 /\ 0 \in 0..ML - 1
  OBVIOUS
<1>2. n.layer \in [0..NL - 1 -> LayerSet(ML, Values)] /\ n.inline \in Values
  BY DEF Storages, LayerSet
<1>3. n.layer[0] \in LayerSet(ML, Values)
  BY <1>1, <1>2
<1>4. QED
  BY <1>1, <1>2, <1>3 DEF Layers, Levels, LayerSet

\* Get looks into a layer unless the aspect is compressed.
LEMMA GetParts ==
    ASSUME NEW n, NEW l, NEW m
    PROVE  /\ n.compressed => Get(n, l, m) = n.inline
           /\ ~n.compressed => Get(n, l, m) = GetInLayer(n.layer[l], m)
  BY DEF Get, GetInLayer

\* DecompressAspect gives every layer the value of the aspect, and leaves all
\* the layers compressed.
LEMMA OpenAspectExact ==
    ASSUME NEW NL \in Nat \ {0}, NEW ML \in Nat \ {0}, NEW Values,
           NEW n \in Storages(NL, ML, Values), CompressedDownwards(n)
    PROVE  /\ OpenAspect(n) \in Storages(NL, ML, Values)
           /\ ~OpenAspect(n).compressed
           /\ \A l \in 0..NL - 1 : OpenAspect(n).layer[l].compressed = n.layer[l].compressed
           /\ \A l \in 0..NL - 1, m \in 0..ML - 1 :
                 GetInLayer(OpenAspect(n).layer[l], m) = Get(n, l, m)
<1>1. /\ Layers(n) = 0..NL - 1
      /\ n.inline \in Values
      /\ n.layer \in [0..NL - 1 -> LayerSet(ML, Values)]
      /\ 0 \in 0..ML - 1
  BY StorageParts
<1>2. CASE ~n.compressed
  BY <1>2, GetParts DEF OpenAspect
<1>3. CASE n.compressed
  <2> DEFINE d(l) == [n.layer[l].data EXCEPT ![0] = n.inline]
             ly(l) == [compressed |-> n.layer[l].compressed, data |-> d(l)]
  <2>1. OpenAspect(n) = [compressed |-> FALSE, inline |-> n.inline,
                         layer |-> [l \in 0..NL - 1 |-> ly(l)]]
    BY <1>1, <1>3 DEF OpenAspect, DecompressAspect
  <2>2. ASSUME NEW l \in 0..NL - 1
        PROVE  ly(l) \in LayerSet(ML, Values) /\ ly(l).compressed /\ ly(l).data[0] = n.inline
    <3>1. n.layer[l] \in LayerSet(ML, Values)
      BY <1>1
    <3>2. n.layer[l].data \in [0..ML - 1 -> Values] /\ n.layer[l].compressed \in BOOLEAN
      BY <3>1 DEF LayerSet
    <3>3. d(l) \in [0..ML - 1 -> Values] /\ d(l)[0] = n.inline
      BY <1>1, <3>2
    <3> HIDE DEF d
    <3>4. n.layer[l].compressed
      BY <1>1, <1>3 DEF CompressedDownwards
    <3>5. QED
      BY <3>2, <3>3, <3>4 DEF LayerSet
  <2>3. \A l \in 0..NL - 1 : ly(l).compressed = n.layer[l].compressed
    OBVIOUS
  <2> HIDE DEF ly, d
  <2>4. [l \in 0..NL - 1 |-> ly(l)] \in [0..NL - 1 -> LayerSet(ML, Values)]
    BY <2>2
  <2>5. OpenAspect(n) \in Storages(NL, ML, Values)
    BY <1>1, <2>1, <2>4 DEF Storages, LayerSet
  <2>6. QED
    BY <1>3, <2>1, <2>2, <2>3, <2>5, GetParts DEF GetInLayer
<1>4. QED
  BY <1>2, <1>3

\* RecompressAspect changes no value and no layer, and closes the aspect when
\* it has a single layer and that is compressed.
LEMMA RecompressAspectExact ==
    ASSUME NEW NL \in Nat \ {0}, NEW ML \in Nat \ {0}, NEW Values,
           NEW n \in Storages(NL, ML, Values), ~n.compressed
    PROVE  /\ RecompressAspect(n) \in Storages(NL, ML, Values)
           /\ RecompressAspect(n).layer = n.layer
           /\ CompressedDownwards(RecompressAspect(n))
           /\ SingleLayerIsOpen(RecompressAspect(n))
           /\ \A l \in 0..NL - 1, m \in 0..ML - 1 :
                 Get(RecompressAspect(n), l, m) = GetInLayer(n.layer[l], m)
<1> DEFINE r == RecompressAspect(n)
           all == \A l \in 0..NL - 1 : /\ n.layer[l].compressed
                                       /\ n.layer[l].data[0] = n.layer[0].data[0]
<1>1. /\ Layers(n) = 0..NL - 1
      /\ n.layer \in [0..NL - 1 -> LayerSet(ML, Values)]
      /\ 0 \in 0..NL - 1 /\ 0 \in 0..ML - 1
  BY StorageParts
<1>2. CASE all
  <2>1. r = [compressed |-> TRUE, inline |-> n.layer[0].data[0], layer |-> n.layer]
    BY <1>1, <1>2 DEF RecompressAspect
  <2>2. n.layer[0].data[0] \in Values
    BY <1>1 DEF LayerSet
  <2>3. r \in Storages(NL, ML, Values)
    BY <1>1, <2>1, <2>2 DEF Storages, LayerSet
  <2>4. r.compressed /\ r.inline = n.layer[0].data[0] /\ r.layer = n.layer
    BY <2>1
  <2> HIDE DEF r
  <2>5. CompressedDownwards(r) /\ SingleLayerIsOpen(r)
    BY <1>1, <1>2, <2>4 DEF CompressedDownwards, SingleLayerIsOpen, Layers
  <2>6. \A l \in 0..NL - 1, m \in 0..ML - 1 : Get(r, l, m) = GetInLayer(n.layer[l], m)
    BY <1>2, <2>4 DEF Get, GetInLayer
  <2>7. QED
    BY <2>3, <2>4, <2>5, <2>6 DEF r
<1>3. CASE ~all
  <2>1. r = n
    BY <1>1, <1>3 DEF RecompressAspect
  <2>2. SingleLayerIsOpen(n)
    <3> SUFFICES ASSUME Layers(n) = {0}, n.layer[0].compressed
                 PROVE  FALSE
      BY DEF SingleLayerIsOpen
    <3>1. \A l \in 0..NL - 1 : l = 0
      BY <1>1
    <3>2. QED
      BY <1>3, <3>1
  <2>3. CompressedDownwards(n)
    BY DEF CompressedDownwards
  <2>4. QED
    BY <2>1, <2>2, <2>3, GetParts
<1>4. QED
  BY <1>2, <1>3

\* What an open aspect with the layers ly[l] has of the shape: nothing, except
\* that a single layer must be open and single levels compressed.
LEMMA ShapeOfOpen ==
    ASSUME NEW NL \in Nat \ {0}, NEW ML \in Nat \ {0}, NEW Values,
           NEW n \in Storages(NL, ML, Values), ~n.compressed,
           NL = 1 => ~n.layer[0].compressed,
           ML = 1 => \A l \in 0..NL - 1 : n.layer[l].compressed
    PROVE  ShapeOK(n)
<1>1. Layers(n) = 0..NL - 1 /\ Levels(n) = 0..ML - 1
  BY StorageParts
<1>2. \A k \in Nat \ {0} : 0..k - 1 = {0} => k = 1
  <2> SUFFICES ASSUME NEW k \in Nat \ {0}, 0..k - 1 = {0}
               PROVE  k = 1
    OBVIOUS
  <2>1. k - 1 \in 0..k - 1
    OBVIOUS
  <2>2. QED
    BY <2>1
<1>3. QED
  BY <1>1, <1>2 DEF ShapeOK, CompressedDownwards, SingleLayerIsOpen, SingleLevelIsCompressed

-----------------------------------------------------------------------------
(* The storage is a map.                                                   *)

\* SubresourceStorage::Update applies updateFunc to the value of exactly the
\* subresources of its range, however the storage is compressed before, and
\* leaves a storage of the shape the class asserts.
THEOREM UpdateIsExact ==
    ASSUME NEW NL \in Nat \ {0}, NEW ML \in Nat \ {0}, NEW Values,
           NEW n \in Storages(NL, ML, Values), ShapeOK(n),
           NEW L \in SUBSET (0..NL - 1), NEW M \in SUBSET (0..ML - 1), L # {}, M # {},
           NEW f \in [Values -> Values]
    PROVE  /\ UpdateAspect(n, L, M, f) \in Storages(NL, ML, Values)
           /\ ShapeOK(UpdateAspect(n, L, M, f))
           /\ \A l \in 0..NL - 1, m \in 0..ML - 1 :
                 Get(UpdateAspect(n, L, M, f), l, m) =
                     IF l \in L /\ m \in M THEN f[Get(n, l, m)] ELSE Get(n, l, m)
<1> DEFINE U == UpdateAspect(n, L, M, f)
           open == OpenAspect(n)
           ly == [l \in 0..NL - 1 |-> IF l \in L THEN UpdateLayer(open.layer[l], M, f)
                                               ELSE open.layer[l]]
           updated == [compressed |-> FALSE, inline |-> open.inline, layer |-> ly]
<1>1. /\ Layers(n) = 0..NL - 1 /\ Levels(n) = 0..ML - 1
      /\ n.inline \in Values
      /\ n.layer \in [0..NL - 1 -> LayerSet(ML, Values)]
      /\ 0 \in 0..NL - 1 /\ 0 \in 0..ML - 1
  BY StorageParts
<1>2. /\ CompressedDownwards(n)
      /\ SingleLayerIsOpen(n)
      /\ SingleLevelIsCompressed(n)
  BY DEF ShapeOK
<1>3. /\ open \in Storages(NL, ML, Values)
      /\ \A l \in 0..NL - 1 : open.layer[l].compressed = n.layer[l].compressed
      /\ \A l \in 0..NL - 1, m \in 0..ML - 1 : GetInLayer(open.layer[l], m) = Get(n, l, m)
  BY <1>2, OpenAspectExact
<1>4. /\ open.inline \in Values /\ Layers(open) = 0..NL - 1
      /\ \A l \in 0..NL - 1 : open.layer[l] \in LayerSet(ML, Values)
  BY <1>3, StorageParts
<1>5. ML = 1 => /\ M = 0..ML - 1
                /\ \A l \in 0..NL - 1 : n.layer[l].compressed
  <2> SUFFICES ASSUME ML = 1
               PROVE  M = 0..ML - 1 /\ \A l \in 0..NL - 1 : n.layer[l].compressed
    OBVIOUS
  <2>1. 0..ML - 1 = {0}
    OBVIOUS
  <2>2. QED
    BY <1>1, <1>2, <2>1 DEF SingleLevelIsCompressed
<1> HIDE DEF open
<1>6. ASSUME NEW l \in 0..NL - 1
      PROVE  /\ ly[l] \in LayerSet(ML, Values)
             /\ \A m \in 0..ML - 1 :
                   GetInLayer(ly[l], m) =
                       IF l \in L /\ m \in M THEN f[Get(n, l, m)] ELSE Get(n, l, m)
             /\ l \in L /\ M # 0..ML - 1 => ~ly[l].compressed
             /\ ML = 1 => ly[l].compressed
  <2>1. CASE l \in L
    <3>1. ly[l] = UpdateLayer(open.layer[l], M, f)
      BY <2>1
    <3>2. /\ UpdateLayer(open.layer[l], M, f) \in LayerSet(ML, Values)
          /\ \A m \in 0..ML - 1 :
                GetInLayer(UpdateLayer(open.layer[l], M, f), m) =
                    IF m \in M THEN f[GetInLayer(open.layer[l], m)]
                               ELSE GetInLayer(open.layer[l], m)
          /\ M # 0..ML - 1 => ~UpdateLayer(open.layer[l], M, f).compressed
          /\ open.layer[l].compressed /\ M = 0..ML - 1 =>
                UpdateLayer(open.layer[l], M, f).compressed
      <4> DEFINE x == open.layer[l]
      <4>1. x \in LayerSet(ML, Values)
        BY <1>4
      <4> HIDE DEF x, ly, U, updated
      <4>2. /\ UpdateLayer(x, M, f) \in LayerSet(ML, Values)
            /\ \A m \in 0..ML - 1 :
                  GetInLayer(UpdateLayer(x, M, f), m) =
                      IF m \in M THEN f[GetInLayer(x, m)] ELSE GetInLayer(x, m)
            /\ M # 0..ML - 1 => ~UpdateLayer(x, M, f).compressed
            /\ (x.compressed /\ M = 0..ML - 1) => UpdateLayer(x, M, f).compressed
        BY <4>1, UpdateLayerExact
      <4>3. QED
        BY <4>2 DEF x
    <3> HIDE DEF ly
    <3>3. QED
      BY <1>3, <1>5, <2>1, <3>1, <3>2
  <2>2. CASE l \notin L
    <3>1. ly[l] = open.layer[l]
      BY <2>2
    <3> HIDE DEF ly
    <3>2. QED
      BY <1>3, <1>4, <1>5, <2>2, <3>1
  <2>3. QED
    BY <2>1, <2>2
<1>7. ly \in [0..NL - 1 -> LayerSet(ML, Values)]
  <2>1. \A l \in 0..NL - 1 : ly[l] \in LayerSet(ML, Values)
    BY <1>6
  <2>2. ly = [l \in 0..NL - 1 |-> ly[l]]
    OBVIOUS
  <2> HIDE DEF ly
  <2>3. QED
    BY <2>1, <2>2
<1>8. U = IF n.compressed /\ L = 0..NL - 1 /\ M = 0..ML - 1
          THEN [compressed |-> TRUE, inline |-> f[n.inline], layer |-> n.layer]
          ELSE IF L = 0..NL - 1 /\ M = 0..ML - 1 THEN RecompressAspect(updated)
          ELSE updated
  BY <1>1, <1>4 DEF UpdateAspect, open
<1> HIDE DEF ly, U
<1>9. /\ updated \in Storages(NL, ML, Values)
      /\ ~updated.compressed
      /\ updated.layer = ly
  BY <1>4, <1>7 DEF Storages, LayerSet
<1> HIDE DEF updated
<1>10. CASE n.compressed /\ L = 0..NL - 1 /\ M = 0..ML - 1
  <2>1. U = [compressed |-> TRUE, inline |-> f[n.inline], layer |-> n.layer]
    BY <1>8, <1>10
  <2>2. U \in Storages(NL, ML, Values)
    BY <1>1, <2>1 DEF Storages, LayerSet
  <2>3. U.compressed /\ U.inline = f[n.inline] /\ U.layer = n.layer
    BY <2>1
  <2>4. ShapeOK(U)
    BY <1>2, <1>10, <2>3
       DEF ShapeOK, CompressedDownwards, SingleLayerIsOpen, SingleLevelIsCompressed, Layers, Levels
  <2>5. QED
    BY <1>10, <2>2, <2>3, <2>4, GetParts DEF U
<1>11. CASE ~n.compressed /\ L = 0..NL - 1 /\ M = 0..ML - 1
  <2>1. U = RecompressAspect(updated)
    BY <1>8, <1>11
  <2>2. /\ U \in Storages(NL, ML, Values)
        /\ U.layer = ly
        /\ CompressedDownwards(U) /\ SingleLayerIsOpen(U)
        /\ \A l \in 0..NL - 1, m \in 0..ML - 1 : Get(U, l, m) = GetInLayer(ly[l], m)
    BY <1>9, <2>1, RecompressAspectExact
  <2>3. SingleLevelIsCompressed(U)
    <3>0. U \in Storages(NL, ML, Values)
      BY <2>2
    <3>1. Layers(U) = 0..NL - 1 /\ Levels(U) = 0..ML - 1
      BY <3>0, StorageParts
    <3> SUFFICES ASSUME Levels(U) = {0}
                 PROVE  \A l \in Layers(U) : U.layer[l].compressed
      BY DEF SingleLevelIsCompressed
    <3>2. ML - 1 \in 0..ML - 1
      OBVIOUS
    <3>3. ML = 1
      BY <3>1, <3>2
    <3>4. QED
      BY <1>6, <2>2, <3>1, <3>3
  <2>4. QED
    BY <1>6, <2>2, <2>3 DEF ShapeOK, U
<1>12. CASE ~(L = 0..NL - 1 /\ M = 0..ML - 1)
  <2>1. U = updated
    BY <1>8, <1>12
  <2>2. NL = 1 => L = 0..NL - 1
    <3> SUFFICES ASSUME NL = 1 PROVE L = 0..NL - 1
      OBVIOUS
    <3>1. 0..NL - 1 = {0}
      OBVIOUS
    <3>2. QED
      BY <3>1
  <2>3. NL = 1 => ~ly[0].compressed
    BY <1>1, <1>6, <1>12, <2>2
  <2>4. ML = 1 => \A l \in 0..NL - 1 : ly[l].compressed
    BY <1>6
  <2>5. ShapeOK(U)
    BY <1>9, <2>1, <2>3, <2>4, ShapeOfOpen
  <2>6. QED
    BY <1>6, <1>9, <2>1, <2>5, GetParts DEF U
<1>13. QED
  BY <1>10, <1>11, <1>12
\* Update of the whole aspect.
LEMMA UpdateAllIsExact ==
    ASSUME NEW NL \in Nat \ {0}, NEW ML \in Nat \ {0}, NEW Values,
           NEW n \in Storages(NL, ML, Values), ShapeOK(n),
           NEW f \in [Values -> Values]
    PROVE  /\ UpdateAspect(n, 0..NL - 1, 0..ML - 1, f) \in Storages(NL, ML, Values)
           /\ ShapeOK(UpdateAspect(n, 0..NL - 1, 0..ML - 1, f))
           /\ \A l \in 0..NL - 1, m \in 0..ML - 1 :
                 Get(UpdateAspect(n, 0..NL - 1, 0..ML - 1, f), l, m) = f[Get(n, l, m)]
<1>1. /\ 0 \in 0..NL - 1 /\ 0 \in 0..ML - 1
      /\ 0..NL - 1 \in SUBSET (0..NL - 1) /\ 0..ML - 1 \in SUBSET (0..ML - 1)
  OBVIOUS
<1>2. PICK L \in SUBSET (0..NL - 1), M \in SUBSET (0..ML - 1) :
          L = 0..NL - 1 /\ M = 0..ML - 1 /\ L # {} /\ M # {}
  BY <1>1
<1>3. /\ UpdateAspect(n, L, M, f) \in Storages(NL, ML, Values)
      /\ ShapeOK(UpdateAspect(n, L, M, f))
      /\ \A l \in 0..NL - 1, m \in 0..ML - 1 :
            Get(UpdateAspect(n, L, M, f), l, m) =
                IF l \in L /\ m \in M THEN f[Get(n, l, m)] ELSE Get(n, l, m)
  <2>1. L # {} /\ M # {}
    BY <1>2
  <2>2. QED
    BY <2>1, UpdateIsExact
<1>4. QED
  BY <1>2, <1>3

\* SubresourceStorage::Merge gives every subresource mergeFunc of its value and
\* of the value the other storage has for it, whatever the compression of the
\* two, and leaves a storage of the shape the class asserts.
THEOREM MergeIsExact ==
    ASSUME NEW NL \in Nat \ {0}, NEW ML \in Nat \ {0}, NEW Values,
           NEW n \in Storages(NL, ML, Values), ShapeOK(n),
           NEW o \in Storages(NL, ML, Values), ShapeOK(o),
           NEW g \in [Values -> [Values -> Values]]
    PROVE  /\ MergeAspect(n, o, g) \in Storages(NL, ML, Values)
           /\ ShapeOK(MergeAspect(n, o, g))
           /\ \A l \in 0..NL - 1, m \in 0..ML - 1 :
                 Get(MergeAspect(n, o, g), l, m) = g[Get(o, l, m)][Get(n, l, m)]
<1> DEFINE R == MergeAspect(n, o, g)
           open == OpenAspect(n)
           ly == [l \in 0..NL - 1 |-> MergeLayer(open.layer[l], o.layer[l], g)]
           merged == [compressed |-> FALSE, inline |-> open.inline, layer |-> ly]
<1>1. ASSUME NEW k \in Storages(NL, ML, Values)
      PROVE  /\ Layers(k) = 0..NL - 1 /\ Levels(k) = 0..ML - 1
             /\ k.inline \in Values
             /\ \A l \in 0..NL - 1 : k.layer[l] \in LayerSet(ML, Values)
             /\ 0 \in 0..NL - 1 /\ 0 \in 0..ML - 1
  <2> HIDE DEF R, open, ly, merged
  <2>1. /\ Layers(k) = 0..NL - 1 /\ Levels(k) = 0..ML - 1
        /\ k.inline \in Values
        /\ k.layer \in [0..NL - 1 -> LayerSet(ML, Values)]
        /\ 0 \in 0..NL - 1 /\ 0 \in 0..ML - 1
    BY StorageParts
  <2>2. QED
    BY <2>1
<1>2. CASE o.compressed
  <2>1. o.inline \in Values
    BY <1>1
  <2>2. g[o.inline] \in [Values -> Values]
    BY <2>1
  <2>3. R = UpdateAspect(n, 0..NL - 1, 0..ML - 1, g[o.inline])
    BY <1>1, <1>2 DEF MergeAspect
  <2> HIDE DEF R, open, ly, merged
  <2>4. PICK k : k = g[o.inline]
    OBVIOUS
  <2>5. /\ UpdateAspect(n, 0..NL - 1, 0..ML - 1, k) \in Storages(NL, ML, Values)
        /\ ShapeOK(UpdateAspect(n, 0..NL - 1, 0..ML - 1, k))
        /\ \A l \in 0..NL - 1, m \in 0..ML - 1 :
              Get(UpdateAspect(n, 0..NL - 1, 0..ML - 1, k), l, m) = k[Get(n, l, m)]
    <3>1. k \in [Values -> Values]
      BY <2>2, <2>4
    <3>2. QED
      BY <3>1, UpdateAllIsExact
  <2>6. /\ R \in Storages(NL, ML, Values)
        /\ ShapeOK(R)
        /\ \A l \in 0..NL - 1, m \in 0..ML - 1 : Get(R, l, m) = g[o.inline][Get(n, l, m)]
    BY <2>3, <2>4, <2>5
  <2>7. \A l \in 0..NL - 1, m \in 0..ML - 1 : Get(o, l, m) = o.inline
    BY <1>2, GetParts
  <2>8. QED
    BY <2>6, <2>7 DEF R
<1>3. CASE ~o.compressed
  <2>1. /\ open \in Storages(NL, ML, Values)
        /\ \A l \in 0..NL - 1 : open.layer[l].compressed = n.layer[l].compressed
        /\ \A l \in 0..NL - 1, m \in 0..ML - 1 : GetInLayer(open.layer[l], m) = Get(n, l, m)
    <3> HIDE DEF R, ly, merged
    <3>1. CompressedDownwards(n)
      BY DEF ShapeOK
    <3>2. QED
      BY <3>1, OpenAspectExact
  <2>2. /\ open.inline \in Values /\ Layers(open) = 0..NL - 1
        /\ \A l \in 0..NL - 1 : open.layer[l] \in LayerSet(ML, Values)
    <3> HIDE DEF open
    <3>1. QED
      BY <1>1, <2>1
  <2>3. \A l \in 0..NL - 1 : o.layer[l] \in LayerSet(ML, Values)
    BY <1>1
  <2>4. ML = 1 => \A l \in 0..NL - 1 : n.layer[l].compressed
    <3> SUFFICES ASSUME ML = 1 PROVE \A l \in 0..NL - 1 : n.layer[l].compressed
      OBVIOUS
    <3>1. 0..ML - 1 = {0}
      OBVIOUS
    <3>2. QED
      BY <1>1, <3>1 DEF ShapeOK, SingleLevelIsCompressed
  <2>5. R = RecompressAspect(merged)
    BY <1>3, <2>2 DEF MergeAspect
  <2> HIDE DEF open, R
  <2>6. ASSUME NEW l \in 0..NL - 1
        PROVE  /\ ly[l] \in LayerSet(ML, Values)
               /\ \A m \in 0..ML - 1 : GetInLayer(ly[l], m) = g[Get(o, l, m)][Get(n, l, m)]
               /\ ML = 1 => ly[l].compressed
    <3> DEFINE x == open.layer[l]
               y == o.layer[l]
    <3>1. x \in LayerSet(ML, Values) /\ y \in LayerSet(ML, Values)
      BY <2>2, <2>3
    <3>2. ly[l] = MergeLayer(x, y, g)
      OBVIOUS
    <3> HIDE DEF x, y, ly, merged
    <3>3. /\ MergeLayer(x, y, g) \in LayerSet(ML, Values)
          /\ \A m \in 0..ML - 1 :
                GetInLayer(MergeLayer(x, y, g), m) = g[GetInLayer(y, m)][GetInLayer(x, m)]
          /\ ML = 1 /\ x.compressed => MergeLayer(x, y, g).compressed
      BY <3>1, MergeLayerExact
    <3>4. /\ \A m \in 0..ML - 1 : /\ GetInLayer(x, m) = Get(n, l, m)
                                  /\ GetInLayer(y, m) = Get(o, l, m)
          /\ x.compressed = n.layer[l].compressed
      BY <1>3, <2>1, GetParts DEF x, y
    <3>5. QED
      BY <2>4, <3>2, <3>3, <3>4
  <2>7. ly \in [0..NL - 1 -> LayerSet(ML, Values)]
    <3>1. \A l \in 0..NL - 1 : ly[l] \in LayerSet(ML, Values)
      BY <2>6
    <3>2. ly = [l \in 0..NL - 1 |-> ly[l]]
      OBVIOUS
    <3> HIDE DEF ly
    <3>3. QED
      BY <3>1, <3>2
  <2> HIDE DEF ly
  <2>8. merged \in Storages(NL, ML, Values) /\ ~merged.compressed /\ merged.layer = ly
    BY <2>2, <2>7 DEF Storages, LayerSet
  <2> HIDE DEF merged
  <2>9. /\ R \in Storages(NL, ML, Values)
        /\ R.layer = ly
        /\ CompressedDownwards(R) /\ SingleLayerIsOpen(R)
        /\ \A l \in 0..NL - 1, m \in 0..ML - 1 : Get(R, l, m) = GetInLayer(ly[l], m)
    BY <2>5, <2>8, RecompressAspectExact
  <2>10. SingleLevelIsCompressed(R)
    <3>1. R \in Storages(NL, ML, Values)
      BY <2>9
    <3>2. Layers(R) = 0..NL - 1 /\ Levels(R) = 0..ML - 1
      BY <1>1, <3>1
    <3> SUFFICES ASSUME Levels(R) = {0}
                 PROVE  \A l \in Layers(R) : R.layer[l].compressed
      BY DEF SingleLevelIsCompressed
    <3>3. ML - 1 \in 0..ML - 1
      OBVIOUS
    <3>4. ML = 1
      BY <3>2, <3>3
    <3>5. QED
      BY <2>6, <2>9, <3>2, <3>4
  <2>11. QED
    BY <2>6, <2>9, <2>10 DEF ShapeOK, R
<1>4. QED
  BY <1>2, <1>3
-----------------------------------------------------------------------------
(* The calls                                                               *)

\* The calls Update makes for one layer: together they cover the levels M, no
\* level twice, each with the value of its levels.
LEMMA LayerVisitsExact ==
    ASSUME NEW ML \in Nat \ {0}, NEW Values, NEW ly \in LayerSet(ML, Values),
           NEW l, NEW M \in SUBSET (0..ML - 1)
    PROVE  /\ \A m \in M : \E v \in LayerVisits(ly, l, M) : m \in v.levels
           /\ \A v \in LayerVisits(ly, l, M) :
                 /\ v.layers = {l} /\ v.levels \subseteq M
                 /\ \A m \in v.levels : v.value = GetInLayer(ly, m)
           /\ \A v, w \in LayerVisits(ly, l, M), m \in M :
                 m \in v.levels /\ m \in w.levels => v = w
<1>1. /\ DOMAIN ly.data = 0..ML - 1
      /\ \A m \in 0..ML - 1 : OpenLayer(ly).data[m] = GetInLayer(ly, m)
  BY OpenLayerExact DEF LayerSet
<1>2. CASE ly.compressed /\ M = 0..ML - 1
  <2>1. LayerVisits(ly, l, M) = {[layers |-> {l}, levels |-> M, value |-> ly.data[0]]}
    BY <1>1, <1>2 DEF LayerVisits
  <2>2. \A m \in M : GetInLayer(ly, m) = ly.data[0]
    BY <1>2 DEF GetInLayer
  <2>3. QED
    BY <2>1, <2>2
<1>3. CASE ~(ly.compressed /\ M = 0..ML - 1)
  <2> DEFINE at(m) == [layers |-> {l}, levels |-> {m}, value |-> GetInLayer(ly, m)]
  <2>1. LayerVisits(ly, l, M) = {at(m) : m \in M}
    BY <1>1, <1>3 DEF LayerVisits
  <2>2. \A m : at(m).layers = {l} /\ at(m).levels = {m} /\ at(m).value = GetInLayer(ly, m)
    OBVIOUS
  <2> HIDE DEF at
  <2>3. QED
    BY <2>1, <2>2
<1>4. QED
  BY <1>2, <1>3

\* Update, and with it Iterate, calls its function for disjoint ranges that
\* together are the range it was given, and the value it passes is the value
\* of every subresource of the range of the call.  The barriers a texture
\* records are made by these calls.
THEOREM VisitsAreExact ==
    ASSUME NEW NL \in Nat \ {0}, NEW ML \in Nat \ {0}, NEW Values,
           NEW n \in Storages(NL, ML, Values), ShapeOK(n),
           NEW L \in SUBSET (0..NL - 1), NEW M \in SUBSET (0..ML - 1)
    PROVE  /\ \A l \in L, m \in M :
                 \E v \in UpdateVisits(n, L, M) : l \in v.layers /\ m \in v.levels
           /\ \A v \in UpdateVisits(n, L, M) :
                 /\ v.layers \subseteq L /\ v.levels \subseteq M
                 /\ \A l \in v.layers, m \in v.levels : v.value = Get(n, l, m)
           /\ \A v, w \in UpdateVisits(n, L, M), l \in L, m \in M :
                 (/\ l \in v.layers /\ l \in w.layers
                  /\ m \in v.levels /\ m \in w.levels) => v = w
<1> DEFINE V == UpdateVisits(n, L, M)
           ly(l) == OpenAspect(n).layer[l]
<1>1. Layers(n) = 0..NL - 1 /\ Levels(n) = 0..ML - 1
  BY StorageParts
<1>2. CASE n.compressed /\ L = 0..NL - 1 /\ M = 0..ML - 1
  <2>1. V = {[layers |-> L, levels |-> M, value |-> n.inline]}
    BY <1>1, <1>2 DEF UpdateVisits
  <2>2. \A l \in L, m \in M : Get(n, l, m) = n.inline
    BY <1>2, GetParts
  <2>3. /\ \A v \in V : v.layers = L /\ v.levels = M /\ v.value = n.inline
        /\ \A v, w \in V : v = w
        /\ \E v \in V : v.layers = L /\ v.levels = M
    BY <2>1
  <2> HIDE DEF V
  <2>4. \A l \in L, m \in M : \E v \in V : l \in v.layers /\ m \in v.levels
    BY <2>3
  <2>5. QED
    BY <2>2, <2>3, <2>4 DEF V
<1>3. CASE ~(n.compressed /\ L = 0..NL - 1 /\ M = 0..ML - 1)
  <2>1. V = UNION {LayerVisits(ly(l), l, M) : l \in L}
    BY <1>1, <1>3 DEF UpdateVisits
  <2>2. /\ OpenAspect(n) \in Storages(NL, ML, Values)
        /\ \A l \in 0..NL - 1, m \in 0..ML - 1 : GetInLayer(ly(l), m) = Get(n, l, m)
    BY OpenAspectExact DEF ShapeOK
  <2>3. \A l \in 0..NL - 1 : ly(l) \in LayerSet(ML, Values)
    BY <2>2, StorageParts
  <2> HIDE DEF V, ly
  <2>4. ASSUME NEW l \in L
        PROVE  /\ \A m \in M : \E v \in LayerVisits(ly(l), l, M) : m \in v.levels
               /\ \A v \in LayerVisits(ly(l), l, M) :
                     /\ v.layers = {l} /\ v.levels \subseteq M
                     /\ \A m \in v.levels : v.value = Get(n, l, m)
               /\ \A v, w \in LayerVisits(ly(l), l, M), m \in M :
                     m \in v.levels /\ m \in w.levels => v = w
    <3>1. PICK x \in LayerSet(ML, Values) : x = ly(l)
      BY <2>3
    <3>2. /\ \A m \in M : \E v \in LayerVisits(x, l, M) : m \in v.levels
          /\ \A v \in LayerVisits(x, l, M) :
                /\ v.layers = {l} /\ v.levels \subseteq M
                /\ \A m \in v.levels : v.value = GetInLayer(x, m)
          /\ \A v, w \in LayerVisits(x, l, M), m \in M :
                m \in v.levels /\ m \in w.levels => v = w
      BY LayerVisitsExact
    <3>3. \A m \in M : GetInLayer(x, m) = Get(n, l, m)
      BY <2>2, <3>1
    <3>4. QED
      BY <3>1, <3>2, <3>3
  <2>5. \A l \in L, m \in M : \E v \in V : l \in v.layers /\ m \in v.levels
    BY <2>1, <2>4
  <2>6. ASSUME NEW v \in V
        PROVE  /\ v.layers \subseteq L /\ v.levels \subseteq M
               /\ \A l \in v.layers, m \in v.levels : v.value = Get(n, l, m)
    <3>1. PICK l \in L : v \in LayerVisits(ly(l), l, M)
      BY <2>1
    <3>2. QED
      BY <2>4, <3>1
  <2>7. ASSUME NEW v \in V, NEW w \in V, NEW l \in L, NEW m \in M,
               l \in v.layers, l \in w.layers, m \in v.levels, m \in w.levels
        PROVE  v = w
    <3>1. PICK lv \in L : v \in LayerVisits(ly(lv), lv, M)
      BY <2>1
    <3>2. PICK lw \in L : w \in LayerVisits(ly(lw), lw, M)
      BY <2>1
    <3>3. lv = l /\ lw = l
      BY <2>4, <2>7, <3>1, <3>2
    <3>4. QED
      BY <2>4, <2>7, <3>1, <3>2, <3>3
  <2>8. QED
    BY <2>5, <2>6, <2>7 DEF V
<1>4. QED
  BY <1>2, <1>3
=============================================================================
