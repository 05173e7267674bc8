------------------------- MODULE SubresourceStorage -------------------------
(***************************************************************************)
(* dawn_native/SubresourceStorage.h: one value per subresource of a        *)
(* texture, compressed.  The code keeps one tree for each aspect; aspects  *)
(* never touch one another, so a value of this module is the storage of    *)
(* ONE aspect:                                                             *)
(*                                                                         *)
(*   [compressed |-> mAspectCompressed[aspect],                            *)
(*    inline     |-> mInlineAspectData[aspect],                            *)
(*    layer      |-> [l \in 0..mArrayLayerCount-1 |->                      *)
(*                     [compressed |-> mLayerCompressed[aspect, l],        *)
(*                      data |-> [m \in 0..mMipLevelCount-1 |->            *)
(*                                   mData[aspect, l, m]]]]]               *)
(*                                                                         *)
(* The value of a compressed layer is in its slot for level 0.  What a     *)
(* compressed layer or aspect leaves in the other slots stays there, as in *)
(* the arrays of the code.  An update or merge function is a TLA+ function *)
(* of the value: f[data], and g[otherData][data] for Merge.                *)
(***************************************************************************)
EXTENDS Naturals

Layers(n) == DOMAIN n.layer

Levels(n) == DOMAIN n.layer[0].data

\* The constructor; mData is allocated by the first decompression, value
\* initialised, and both users of the class pass None, the same value.
SubresourceStorage(layerCount, levelCount, initialValue) ==
    [compressed |-> TRUE,
     inline |-> initialValue,
     layer |-> [l \in 0..layerCount - 1 |->
                   [compressed |-> TRUE,
                    data |-> [m \in 0..levelCount - 1 |-> initialValue]]]]

Get(n, l, m) ==
    IF n.compressed THEN n.inline
    ELSE IF n.layer[l].compressed THEN n.layer[l].data[0]
    ELSE n.layer[l].data[m]

-----------------------------------------------------------------------------
(* Compression of one layer and of the aspect.                             *)

DecompressLayer(ly) ==
    [compressed |-> FALSE,
     data |-> [m \in DOMAIN ly.data |-> ly.data[0]]]

RecompressLayer(ly) ==
    [compressed |-> \A m \in DOMAIN ly.data : ly.data[m] = ly.data[0],
     data |-> ly.data]

DecompressAspect(n) ==
    [compressed |-> FALSE,
     inline |-> n.inline,
     layer |-> [l \in Layers(n) |-> [compressed |-> n.layer[l].compressed,
                                     data |-> [n.layer[l].data EXCEPT ![0] = n.inline]]]]

RecompressAspect(n) ==
    IF \A l \in Layers(n) : /\ n.layer[l].compressed
                            /\ n.layer[l].data[0] = n.layer[0].data[0]
    THEN [compressed |-> TRUE, inline |-> n.layer[0].data[0], layer |-> n.layer]
    ELSE n

\* The aspect, or the layer, ready to be looked into one level down.
OpenAspect(n) == IF n.compressed THEN DecompressAspect(n) ELSE n

OpenLayer(ly) == IF ly.compressed THEN DecompressLayer(ly) ELSE ly

-----------------------------------------------------------------------------
(* Update(range, updateFunc), for the layers L and the levels M of range.  *)

UpdateLayer(ly, M, f) ==
    LET fullLayers == M = DOMAIN ly.data
        open == OpenLayer(ly)
        updated == [compressed |-> FALSE,
                    data |-> [m \in DOMAIN open.data |->
                                 IF m \in M THEN f[open.data[m]] ELSE open.data[m]]]
    IN  IF ly.compressed /\ fullLayers
        THEN [compressed |-> TRUE, data |-> [ly.data EXCEPT ![0] = f[ly.data[0]]]]
        ELSE IF fullLayers THEN RecompressLayer(updated)
        ELSE updated

UpdateAspect(n, L, M, f) ==
    LET fullAspects == L = Layers(n) /\ M = Levels(n)
        open == OpenAspect(n)
        updated == [compressed |-> FALSE,
                    inline |-> open.inline,
                    layer |-> [l \in Layers(open) |->
                                  IF l \in L THEN UpdateLayer(open.layer[l], M, f)
                                             ELSE open.layer[l]]]
    IN  IF n.compressed /\ fullAspects
        THEN [compressed |-> TRUE, inline |-> f[n.inline], layer |-> n.layer]
        ELSE IF fullAspects THEN RecompressAspect(updated)
        ELSE updated

-----------------------------------------------------------------------------
(* Merge(other, mergeFunc).  The fast path for a compressed layer of other *)
(* calls Update for the whole layer, which would also recompress the       *)
(* aspect if it had a single layer: SingleLayerIsOpen excludes that.       *)

MergeLayer(ly, o, g) ==
    LET open == OpenLayer(ly)
        merged == [compressed |-> FALSE,
                   data |-> [m \in DOMAIN open.data |-> g[o.data[m]][open.data[m]]]]
    IN  IF o.compressed THEN UpdateLayer(ly, DOMAIN ly.data, g[o.data[0]])
        ELSE RecompressLayer(merged)

MergeAspect(n, o, g) ==
    LET open == OpenAspect(n)
        merged == [compressed |-> FALSE,
                   inline |-> open.inline,
                   layer |-> [l \in Layers(open) |->
                                 MergeLayer(open.layer[l], o.layer[l], g)]]
    IN  IF o.compressed
        THEN UpdateAspect(n, Layers(n), Levels(n), g[o.inline])
        ELSE RecompressAspect(merged)

-----------------------------------------------------------------------------
(* The calls of the functions above: the ranges updateFunc is called with  *)
(* and the value it finds there.  Iterate visits what a full Update does.  *)

LayerVisits(ly, l, M) ==
    IF ly.compressed /\ M = DOMAIN ly.data
    THEN {[layers |-> {l}, levels |-> M, value |-> ly.data[0]]}
    ELSE {[layers |-> {l}, levels |-> {m}, value |-> OpenLayer(ly).data[m]] : m \in M}

UpdateVisits(n, L, M) ==
    IF n.compressed /\ L = Layers(n) /\ M = Levels(n)
    THEN {[layers |-> L, levels |-> M, value |-> n.inline]}
    ELSE UNION {LayerVisits(OpenAspect(n).layer[l], l, M) : l \in L}

Iterate(n) == UpdateVisits(n, Layers(n), Levels(n))

With(visits, other) ==
    {[layers |-> v.layers, levels |-> v.levels, value |-> v.value, other |-> other]
        : v \in visits}

MergeVisits(n, o) ==
    IF o.compressed THEN With(Iterate(n), o.inline)
    ELSE UNION {IF o.layer[l].compressed
                THEN With(LayerVisits(OpenAspect(n).layer[l], l, Levels(n)), o.layer[l].data[0])
                ELSE UNION {With(LayerVisits(OpenLayer(OpenAspect(n).layer[l]), l, {m}),
                                 o.layer[l].data[m]) : m \in Levels(n)}
                  : l \in Layers(n)}

-----------------------------------------------------------------------------
(* The shape of a storage.                                                 *)

\* What the class writes of itself ("if an aspect is marked compressed, then
\* all it's layers are marked as compressed"): DecompressAspect asserts it.
CompressedDownwards(n) ==
    n.compressed => \A l \in Layers(n) : n.layer[l].compressed

\* An aspect with one layer is never left open around a compressed layer.
\* Merge relies on it: its fast path would otherwise recompress the aspect
\* and RecompressAspect then assert that it is not compressed.
SingleLayerIsOpen(n) ==
    (Layers(n) = {0} /\ n.layer[0].compressed) => n.compressed

\* With a single level every layer is compressed, so that DecompressLayer and
\* RecompressLayer are only called on layers that have levels to tell apart.
SingleLevelIsCompressed(n) ==
    Levels(n) = {0} => \A l \in Layers(n) : n.layer[l].compressed

ShapeOK(n) ==
    CompressedDownwards(n) /\ SingleLayerIsOpen(n) /\ SingleLevelIsCompressed(n)

Storages(layerCount, levelCount, Values) ==
    [compressed : BOOLEAN,
     inline : Values,
     layer : [0..layerCount - 1 -> [compressed : BOOLEAN,
                                    data : [0..levelCount - 1 -> Values]]]]
=============================================================================
