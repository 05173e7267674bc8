---------------------------- MODULE TextureUsage ----------------------------
(***************************************************************************)
(* How the Vulkan backend uses one texture: the usages of a                *)
(* synchronization scope are collected by subresource and validated by the *)
(* front end (PassResourceUsageTracker.cpp, CommandValidation.cpp), and    *)
(* when the command is recorded (CommandBufferVk.cpp) the texture is       *)
(* lazily cleared and moved to its new usage with image barriers           *)
(* (TextureVk.cpp), both from compressed storages (SubresourceStorage).    *)
(*                                                                         *)
(* The commands are recorded in the order of the submits and a scope is    *)
(* immutable once its pass has ended, so the model encodes a scope right   *)
(* before it records it.  The texture is owned by Dawn, of an uncompressed *)
(* format with color, depth or stencil, or with depth and stencil.         *)
(***************************************************************************)
EXTENDS SubresourceStorage, FiniteSets, Sequences, FiniteSetsExt, SequencesExt

CONSTANTS Textures,     \* the textures to start from: [aspects, layers, levels]
          MaxUses,      \* bound: uses of the texture in one scope
          MaxCommands   \* bound: commands recorded, with the uses of the scope being encoded

VARIABLES texture,      \* the texture's format and size, fixed
          vk,           \* [last |-> mSubresourceLastUsages (a single aspect),
                        \*  initialized |-> mIsSubresourceContentInitializedAtIndex]
          scope,        \* the scope being encoded: usages of each aspect (mTextureUsages)
          attachments,  \* the attachments of the scope's render pass
          gpu,          \* what the recorded commands do: see Gpu
          uses,         \* ghost: the uses of the scope, in order
          commands      \* bound: number of commands

vars == <<texture, vk, scope, attachments, gpu, uses, commands>>

-----------------------------------------------------------------------------
(* Usages                                                                  *)

CopySrc == "CopySrc"
CopyDst == "CopyDst"
TextureBinding == "TextureBinding"
StorageBinding == "StorageBinding"
RenderAttachment == "RenderAttachment"
kReadOnlyRenderAttachment == "ReadOnlyRenderAttachment"
kAgainAsRenderAttachment == "AgainAsRenderAttachment"

kReadOnlyTextureUsages == {CopySrc, TextureBinding, kReadOnlyRenderAttachment}

\* The values a storage holds: sets of usage bits.
UsageSets == SUBSET {CopySrc, CopyDst, TextureBinding, StorageBinding, RenderAttachment,
                     kReadOnlyRenderAttachment, kAgainAsRenderAttachment}

None == {}

ReadOnly(usage) == usage \subseteq kReadOnlyTextureUsages

-----------------------------------------------------------------------------
(* Subresources.  A cell is a layer and a level: an image layout and a     *)
(* barrier belong to a cell, contents to an aspect of a cell.              *)

Aspects == {texture.aspects[i] : i \in DOMAIN texture.aspects}
TexLayers == 0..texture.layers - 1
TexLevels == 0..texture.levels - 1
Cells == TexLayers \X TexLevels
Subresources == Aspects \X TexLayers \X TexLevels

IntervalsOf(n) == {a..b : a \in 0..n - 1, b \in 0..n - 1} \ {{}}

\* The ranges a view, and a copy (which has a single level), may have.
ViewRanges == [aspects : {{a} : a \in Aspects}, layers : IntervalsOf(texture.layers),
               levels : IntervalsOf(texture.levels)]
CopyRanges(A) == [aspects : A, layers : IntervalsOf(texture.layers),
                  levels : {{m} : m \in TexLevels}]
AttachmentRanges == [aspects : {Aspects}, layers : {{l} : l \in TexLayers},
                     levels : {{m} : m \in TexLevels}]

CellsOf(range) == range.layers \X range.levels
SubresourcesOf(range) == range.aspects \X range.layers \X range.levels
CellOf(s) == <<s[2], s[3]>>

IsDepthStencil == "color" \notin Aspects

\* The stages the texture's usages are waited for in.
VulkanPipelineStage(usage) ==
    LET Stages(bits, stages) == IF usage \cap bits = {} THEN {} ELSE stages
    IN  IF usage = None THEN {"TopOfPipe"}
        ELSE Stages({CopySrc, CopyDst}, {"Transfer"})
             \cup Stages({TextureBinding}, {"VertexShader", "FragmentShader", "ComputeShader"})
             \cup Stages({StorageBinding}, {"FragmentShader", "ComputeShader"})
             \cup Stages({RenderAttachment, kReadOnlyRenderAttachment},
                         IF IsDepthStencil THEN {"EarlyFragmentTests", "LateFragmentTests"}
                                           ELSE {"ColorAttachmentOutput"})

-----------------------------------------------------------------------------
(* The GPU's side: what the commands recorded so far make of the image.    *)
(*   usage   : by cell, the usage (layout and access) of the last barrier; *)
(*   access  : by cell, the usages of the accesses since that barrier;     *)
(*   content : the subresources whose content has been defined;            *)
(*   fault   : the rules of the API that a command has broken.             *)
(* A barrier from no usage is one from the layout UNDEFINED, which drops   *)
(* the content.  The steps of a command take and return a record st of vk  *)
(* and gpu.                                                                *)

\* The stages of the GPU that access an image so used.
GpuStages(usage) ==
    UNION {CASE u \in {CopySrc, CopyDst} -> {"Transfer"}
             [] u = TextureBinding -> {"VertexShader", "FragmentShader", "ComputeShader"}
             [] u = StorageBinding -> {"FragmentShader", "ComputeShader"}
             [] IsDepthStencil -> {"EarlyFragmentTests", "LateFragmentTests"}
             [] OTHER -> {"ColorAttachmentOutput"} : u \in usage}

(* The barriers of a transition are one command, whose stage masks are     *)
(* those of all their usages together: it has to wait for the accesses     *)
(* before it, and what comes next has to wait for it.                      *)

GpuAfterBarriers(st, barriers) ==
    LET src == VulkanPipelineStage(UNION {b.old : b \in barriers})
        dst == VulkanPipelineStage(UNION {b.new : b \in barriers})
        covered == UNION {b.cells : b \in barriers}
        BarrierOf(c) == CHOOSE b \in barriers : c \in b.cells
        wrong == \/ \E b \in barriers : \E c \in b.cells : st.gpu.usage[c] # b.old
                 \/ \E b1, b2 \in barriers : b1 # b2 /\ b1.cells \cap b2.cells # {}
        early == \E b \in barriers : \/ ~GpuStages(b.new) \subseteq dst
                                      \/ \E c \in b.cells : ~GpuStages(st.gpu.access[c]) \subseteq src
        undefined == {s \in Subresources : \E b \in barriers : b.old = None /\ CellOf(s) \in b.cells}
    IN  [st EXCEPT !.gpu.usage = [c \in Cells |-> IF c \in covered THEN BarrierOf(c).new ELSE @[c]],
                   !.gpu.content = @ \ undefined,
                   !.gpu.access = [c \in Cells |-> IF c \in covered THEN None ELSE @[c]],
                   !.gpu.fault = @ \cup (IF wrong THEN {"barrier"} ELSE {})
                                   \cup (IF early THEN {"race"} ELSE {})]

\* A command accesses each cell c of the domain of U with the usages U[c].
GpuAccess(st, U) ==
    LET C == DOMAIN U
        layout == \E c \in C : st.gpu.usage[c] # U[c]
        race == \E c \in C : st.gpu.access[c] # None /\ ~ReadOnly(st.gpu.access[c] \cup U[c])
    IN  [st EXCEPT !.gpu.access = [c \in Cells |-> IF c \in C THEN @[c] \cup U[c] ELSE @[c]],
                   !.gpu.fault = @ \cup (IF layout THEN {"layout"} ELSE {})
                                   \cup (IF race THEN {"race"} ELSE {})]

GpuRead(st, S) ==
    [st EXCEPT !.gpu.fault = IF S \subseteq st.gpu.content THEN @ ELSE @ \cup {"dirty"}]

GpuDefine(st, S) == [st EXCEPT !.gpu.content = @ \cup S]

GpuUndefine(st, S) == [st EXCEPT !.gpu.content = @ \ S]
-----------------------------------------------------------------------------
(* Barriers                                                                *)

\* Mutant: any repeated usage skips its barrier.
CanReuseWhenEqual(lastUsage, usage) == lastUsage = usage

CanReuseWithoutBarrier(lastUsage, usage) == ReadOnly(lastUsage) /\ lastUsage = usage

BuildMemoryBarrier(visit, new) ==
    [cells |-> visit.layers \X visit.levels, old |-> visit.value, new |-> new]

\* mSubresourceLastUsages has one aspect whatever the format, so the range's
\* aspects play no part here.
TransitionUsageNow(st, usage, range) ==
    LET visits == {v \in UpdateVisits(st.vk.last, range.layers, range.levels) :
                      ~CanReuseWithoutBarrier(v.value, usage)}
        update == [last \in UsageSets |->
                      IF CanReuseWithoutBarrier(last, usage) THEN last ELSE usage]
        moved == [st EXCEPT !.vk.last = UpdateAspect(@, range.layers, range.levels, update)]
    IN  GpuAfterBarriers(moved, {BuildMemoryBarrier(v, usage) : v \in visits})

\* The usages of depth and stencil in one storage.  The ranges that one
\* Iterate visits are disjoint, so their order does not matter.
CombinedUsages(usages) ==
    LET Or(visit, storage) ==
            UpdateAspect(storage, visit.layers, visit.levels,
                         [u \in UsageSets |-> u \cup visit.value])
        Combine(storage, aspect) == FoldSet(Or, storage, Iterate(usages[aspect]))
    IN  FoldLeft(Combine, SubresourceStorage(texture.layers, texture.levels, None),
                 texture.aspects)

\* Mutant: subresources the pass does not use lose their last usage.
TransitionUsageForPassForgets(st, usages) ==
    LET Keeps(last, new) == new = None \/ CanReuseWithoutBarrier(last, new)
        visits == {v \in MergeVisits(st.vk.last, usages) : ~Keeps(v.value, v.other)}
        merge == [new \in UsageSets |-> [last \in UsageSets |->
                     IF CanReuseWithoutBarrier(last, new) THEN last ELSE new]]
        moved == [st EXCEPT !.vk.last = MergeAspect(@, usages, merge)]
    IN  GpuAfterBarriers(moved, {BuildMemoryBarrier(v, v.other) : v \in visits})

TransitionUsageForPassImpl(st, usages) ==
    LET Keeps(last, new) == new = None \/ CanReuseWithoutBarrier(last, new)
        visits == {v \in MergeVisits(st.vk.last, usages) : ~Keeps(v.value, v.other)}
        merge == [new \in UsageSets |-> [last \in UsageSets |->
                     IF Keeps(last, new) THEN last ELSE new]]
        moved == [st EXCEPT !.vk.last = MergeAspect(@, usages, merge)]
    IN  GpuAfterBarriers(moved, {BuildMemoryBarrier(v, v.other) : v \in visits})

ShouldCombineBarriers == Len(texture.aspects) > 1

TransitionUsageForPass(st, usages) ==
    TransitionUsageForPassImpl(st, IF ShouldCombineBarriers THEN CombinedUsages(usages)
                                                            ELSE usages[texture.aspects[1]])

-----------------------------------------------------------------------------
(* Lazy clears                                                             *)

IsSubresourceContentInitialized(st, range) == SubresourcesOf(range) \subseteq st.vk.initialized

SetIsSubresourceContentInitialized(st, isInitialized, range) ==
    [st EXCEPT !.vk.initialized = IF isInitialized THEN @ \cup SubresourcesOf(range)
                                                   ELSE @ \ SubresourcesOf(range)]

\* With the clear value Zero: subresources already initialized are skipped.
ClearTexture(st, range) ==
    LET moved == TransitionUsageNow(st, {CopyDst}, range)
        cleared == SubresourcesOf(range) \ st.vk.initialized
        accessed == GpuAccess(moved, [c \in {CellOf(s) : s \in cleared} |-> {CopyDst}])
    IN  SetIsSubresourceContentInitialized(GpuDefine(accessed, cleared), TRUE, range)

EnsureSubresourceContentInitialized(st, range) ==
    IF IsSubresourceContentInitialized(st, range) THEN st ELSE ClearTexture(st, range)

-----------------------------------------------------------------------------
(* Copies                                                                  *)

\* The destination of a copy or of a Queue::WriteTexture; complete when the
\* copy covers the subresources of its range entirely.
PrepareCopyDestination(st, range, complete) ==
    IF complete THEN SetIsSubresourceContentInitialized(st, TRUE, range)
    ELSE EnsureSubresourceContentInitialized(st, range)

WriteByCopy(st, range, complete) ==
    LET accessed == GpuAccess(st, [c \in CellsOf(range) |-> {CopyDst}])
    IN  IF complete THEN GpuDefine(accessed, SubresourcesOf(range)) ELSE accessed

ReadByCopy(st, range) ==
    GpuRead(GpuAccess(st, [c \in CellsOf(range) |-> {CopySrc}]), SubresourcesOf(range))

CopyToTexture(st, dst, complete) ==
    LET prepared == PrepareCopyDestination(st, dst, complete)
    IN  WriteByCopy(TransitionUsageNow(prepared, {CopyDst}, dst), dst, complete)

CopyFromTexture(st, src) ==
    LET prepared == EnsureSubresourceContentInitialized(st, src)
    IN  ReadByCopy(TransitionUsageNow(prepared, {CopySrc}, src), src)

CopyWithinTexture(st, src, dst, complete) ==
    LET read == EnsureSubresourceContentInitialized(st, src)
        prepared == PrepareCopyDestination(read, dst, complete)
        moved == TransitionUsageNow(TransitionUsageNow(prepared, {CopySrc}, src), {CopyDst}, dst)
    IN  WriteByCopy(ReadByCopy(moved, src), dst, complete)

State == [vk |-> vk, gpu |-> gpu]

Becomes(st) == vk' = st.vk /\ gpu' = st.gpu

NoScope == uses = <<>>

Recorded == /\ NoScope
            /\ commands < MaxCommands
            /\ commands' = commands + 1
            /\ UNCHANGED <<texture, scope, attachments, uses>>

\* A copy between a buffer and the texture selects one aspect, and not depth
\* as its destination; a copy with another texture selects all of them.
CopyToTextureCmd ==
    \E dst \in CopyRanges({{a} : a \in Aspects \ {"depth"}} \cup {Aspects}), complete \in BOOLEAN :
        Recorded /\ Becomes(CopyToTexture(State, dst, complete))

CopyFromTextureCmd ==
    \E src \in CopyRanges({{a} : a \in Aspects} \cup {Aspects}) :
        Recorded /\ Becomes(CopyFromTexture(State, src))

CopyTextureToTextureCmd ==
    \E src, dst \in CopyRanges({Aspects}), complete \in BOOLEAN :
        /\ Cardinality(src.layers) = Cardinality(dst.layers)
        /\ CellsOf(src) \cap CellsOf(dst) = {}
        /\ Recorded
        /\ Becomes(CopyWithinTexture(State, src, dst, complete))
-----------------------------------------------------------------------------
(* Encoding a synchronization scope: a render pass or a dispatch.          *)

EmptyScope == [a \in Aspects |-> SubresourceStorage(texture.layers, texture.levels, None)]

\* Mutant: a second attachment of the subresource goes unnoticed.
TextureViewUsedAsOnce(usages, range, usage) ==
    LET update == [stored \in UsageSets |-> stored \cup usage]
    IN  [a \in Aspects |->
            IF a \in range.aspects
            THEN UpdateAspect(usages[a], range.layers, range.levels, update)
            ELSE usages[a]]

\* A second use as an attachment adds the bit that makes validation fail.
TextureViewUsedAs(usages, range, usage) ==
    LET update == [stored \in UsageSets |->
                      stored \cup usage \cup
                      (IF RenderAttachment \in stored \cap usage
                       THEN {kAgainAsRenderAttachment} ELSE {})]
    IN  [a \in Aspects |->
            IF a \in range.aspects
            THEN UpdateAspect(usages[a], range.layers, range.levels, update)
            ELSE usages[a]]

AddRenderBundleTextureUsage(usages, bundle) ==
    LET merge == [added \in UsageSets |-> [stored \in UsageSets |-> stored \cup added]]
    IN  [a \in Aspects |-> MergeAspect(usages[a], bundle[a], merge)]

Uses(range, usage) ==
    /\ Len(uses) < MaxUses
    /\ commands + Len(uses) < MaxCommands
    /\ uses' = Append(uses, [range |-> range, usage |-> usage])
    /\ UNCHANGED <<texture, vk, gpu, commands>>

\* The attachments of a render pass are used when it begins, before anything
\* is bound, as color attachments or resolve targets or as its depth-stencil
\* attachment, which has all the aspects of the format.
Attach(range, kind, usage) ==
    /\ Len(uses) = Len(attachments)
    /\ \A i \in DOMAIN attachments : attachments[i].kind = kind /\ kind # "depthStencil"
    /\ Uses(range, usage)
    /\ attachments' = Append(attachments, [range |-> range, kind |-> kind, usage |-> usage])
    /\ scope' = TextureViewUsedAs(scope, range, {usage})

ColorAttachment ==
    \E range \in AttachmentRanges :
        ~IsDepthStencil /\ Attach(range, "color", RenderAttachment)

ResolveTarget ==
    \E range \in AttachmentRanges :
        ~IsDepthStencil /\ Attach(range, "resolve", RenderAttachment)

DepthStencilAttachment ==
    \E range \in AttachmentRanges :
        IsDepthStencil /\ Attach(range, "depthStencil", RenderAttachment)

ReadOnlyDepthStencilAttachment ==
    \E range \in AttachmentRanges :
        IsDepthStencil /\ Attach(range, "depthStencil", kReadOnlyRenderAttachment)

\* What a bind group may bind: a view of one aspect to sample, and a view of
\* one level of a color texture as a storage texture.
Bindable(range, usage) ==
    \/ usage = TextureBinding
    \/ usage = StorageBinding /\ ~IsDepthStencil /\ Cardinality(range.levels) = 1

BindingUsages == {TextureBinding, StorageBinding}

AddBindGroup ==
    \E range \in ViewRanges, usage \in BindingUsages :
        /\ Bindable(range, usage)
        /\ Uses(range, usage)
        /\ scope' = TextureViewUsedAs(scope, range, {usage})
        /\ UNCHANGED attachments

ExecuteBundle ==
    \E range \in ViewRanges, usage \in BindingUsages :
        /\ Bindable(range, usage)
        /\ Uses(range, usage)
        /\ scope' = AddRenderBundleTextureUsage(scope,
                        TextureViewUsedAs(EmptyScope, range, {usage}))
        /\ UNCHANGED attachments

ValidateSyncScopeResourceUsage ==
    \A a \in Aspects : \A v \in Iterate(scope[a]) :
        ReadOnly(v.value) \/ Cardinality(v.value) <= 1

-----------------------------------------------------------------------------
(* Recording a scope                                                       *)


TransitionAndClearForSyncScope(st) ==
    LET Clear(visit, s) ==
            IF visit.value \ {RenderAttachment} = {} THEN s
            ELSE EnsureSubresourceContentInitialized(s, visit)
        ClearAspect(s, aspect) ==
            FoldSet(Clear, s, {[aspects |-> {aspect}, layers |-> v.layers, levels |-> v.levels,
                                value |-> v.value] : v \in Iterate(scope[aspect])})
    IN  TransitionUsageForPass(FoldLeft(ClearAspect, st, texture.aspects), scope)

AspectRange(range, aspect) == [range EXCEPT !.aspects = {aspect}]

\* The load and store ops of the attachments: the sets of the aspects with
\* LoadOp::Load and StoreOp::Store.  A read only attachment must have both; a
\* resolve target is written whole by the resolve.  The front end only keeps
\* them for the backend, so they are chosen when the pass is recorded.
AttachmentOps ==
    {ops \in [DOMAIN attachments -> [load : SUBSET Aspects, store : SUBSET Aspects]] :
        \A i \in DOMAIN attachments :
            /\ attachments[i].usage = kReadOnlyRenderAttachment =>
                  ops[i] = [load |-> Aspects, store |-> Aspects]
            /\ attachments[i].kind = "resolve" =>
                  ops[i] = [load |-> {}, store |-> Aspects]}

\* The subresources that the render pass loads: a LoadOp::Load of content
\* that is not initialized is made a LoadOp::Clear.
LoadsOf(st, ops) ==
    {s \in Subresources :
        \E i \in DOMAIN attachments :
            /\ s \in SubresourcesOf(attachments[i].range)
            /\ s[1] \in ops[i].load
            /\ IsSubresourceContentInitialized(st, AspectRange(attachments[i].range, s[1]))}

\* Mutant: a discarded attachment stays initialized.
LazyClearForgetsDiscard(st, ops) ==
    LET Store(s, i) ==
            LET Set(aspect, t) ==
                    IF aspect \in ops[i].store
                    THEN SetIsSubresourceContentInitialized(t, TRUE,
                             AspectRange(attachments[i].range, aspect))
                    ELSE t
            IN  FoldSet(Set, s, Aspects)
    IN  FoldLeft(Store, st, [i \in DOMAIN attachments |-> i])

LazyClearRenderPassAttachments(st, ops) ==
    LET Store(s, i) ==
            LET Set(aspect, t) ==
                    SetIsSubresourceContentInitialized(t, aspect \in ops[i].store,
                                                       AspectRange(attachments[i].range, aspect))
            IN  FoldSet(Set, s, Aspects)
    IN  FoldLeft(Store, st, [i \in DOMAIN attachments |-> i])

UsageOfCell(c) == {uses[i].usage : i \in {j \in DOMAIN uses : c \in CellsOf(uses[j].range)}}

\* What the pass does on the GPU: its accesses, the content its bindings and
\* loads read, and the content its attachments store or discard.
GpuPass(st, loads, ops) ==
    LET used == UNION {CellsOf(uses[i].range) : i \in DOMAIN uses}
        read == UNION {SubresourcesOf(uses[i].range) :
                          i \in {j \in DOMAIN uses : uses[j].usage \in kReadOnlyTextureUsages}}
        Written(stored) ==
            {s \in Subresources :
                \E i \in DOMAIN attachments :
                    /\ attachments[i].usage = RenderAttachment
                    /\ s \in SubresourcesOf(attachments[i].range)
                    /\ (s[1] \in ops[i].store) = stored}
        after == GpuRead(GpuAccess(st, [c \in used |-> UsageOfCell(c)]), read \cup loads)
    IN  GpuUndefine(GpuDefine(after, Written(TRUE)), Written(FALSE))

RecordScope ==
    LET ready == TransitionAndClearForSyncScope(State)
    IN  \E ops \in AttachmentOps :
            Becomes(GpuPass(LazyClearRenderPassAttachments(ready, ops), LoadsOf(ready, ops), ops))

\* The scope ends: it is recorded if it is valid, and dropped with an error
\* if not.
EndScope ==
    /\ ~NoScope
    /\ IF ValidateSyncScopeResourceUsage
       THEN RecordScope /\ commands' = commands + 1
       ELSE UNCHANGED <<vk, gpu, commands>>
    /\ scope' = EmptyScope
    /\ attachments' = <<>>
    /\ uses' = <<>>
    /\ UNCHANGED texture

-----------------------------------------------------------------------------
Init ==
    /\ texture \in Textures
    /\ vk = [last |-> SubresourceStorage(texture.layers, texture.levels, None),
             initialized |-> {}]
    /\ gpu = [usage |-> [c \in Cells |-> None], access |-> [c \in Cells |-> None],
              content |-> {}, fault |-> {}]
    /\ scope = EmptyScope
    /\ attachments = <<>>
    /\ uses = <<>>
    /\ commands = 0

Next ==
    \/ CopyToTextureCmd \/ CopyFromTextureCmd \/ CopyTextureToTextureCmd
    \/ ColorAttachment \/ ResolveTarget
    \/ DepthStencilAttachment \/ ReadOnlyDepthStencilAttachment
    \/ AddBindGroup \/ ExecuteBundle \/ EndScope

Spec == Init /\ [][Next]_vars

-----------------------------------------------------------------------------
(* Properties                                                              *)

\* Type correctness of the storages and of the recorded state.
TextureTypeOK ==
    /\ texture \in Textures
    /\ vk.last \in [compressed : BOOLEAN, inline : UsageSets, layer : [TexLayers ->
                       [compressed : BOOLEAN, data : [TexLevels -> UsageSets]]]]
    /\ vk.initialized \subseteq Subresources
    /\ DOMAIN scope = Aspects
    /\ gpu.content \subseteq Subresources
    /\ Len(uses) <= MaxUses /\ commands <= MaxCommands

\* The assertions of SubresourceStorage.h (DecompressAspect, RecompressAspect,
\* DecompressLayer) hold on every storage the code builds, whatever the order
\* of partial and full updates and merges: an open aspect never hides a
\* compressed single layer and a compressed aspect has compressed layers.
StoragesAreWellFormed == ShapeOK(vk.last) /\ \A a \in Aspects : ShapeOK(scope[a])

\* mSubresourceLastUsages tells for every subresource, through its
\* compression, the usage that the barriers recorded so far have left it in.
LastUsageIsTrue == \A c \in Cells : Get(vk.last, c[1], c[2]) = gpu.usage[c]

\* Every image barrier names the layout its subresources are in, and no two
\* barriers of one transition overlap.
BarriersAreTrue == "barrier" \notin gpu.fault

\* Every command finds each subresource it accesses in the usage it needs:
\* the lazy clears of a pass do not undo its transitions, and the combined
\* barriers of depth and stencil serve both aspects.
UsedInItsLayout == "layout" \notin gpu.fault


\* Between two accesses of a subresource of which one writes there is a
\* barrier (CanReuseWithoutBarrier skips barriers of read only usages only).
NoRace == "race" \notin gpu.fault

\* No command reads content that was never defined: not after a discarded
\* attachment, a partial copy or a barrier that dropped the content.
NoDirtyRead == "dirty" \notin gpu.fault

\* A scope is accepted exactly when no subresource has a writable use next to
\* another usage or is attached twice, judged from the uses themselves.
ValidationIsExact ==
    LET UsesOf(s) == {i \in DOMAIN uses : s \in SubresourcesOf(uses[i].range)}
        Allowed(s) ==
            \/ \A i \in UsesOf(s) : uses[i].usage \in kReadOnlyTextureUsages
            \/ \A i, j \in UsesOf(s) : /\ uses[i].usage = uses[j].usage
                                       /\ uses[i].usage = RenderAttachment => i = j
    IN  ValidateSyncScopeResourceUsage <=> \A s \in Subresources : Allowed(s)

\* TextureVk.cpp asserts in VulkanImageLayout that sampled and read only
\* attachment is the only combination a texture is ever moved to.
OnlyKnownCombination ==
    \A c \in Cells : Cardinality(gpu.usage[c]) > 1 =>
                        gpu.usage[c] = {TextureBinding, kReadOnlyRenderAttachment}

\* The compressed storages are well formed and say what the GPU will find.
UsagesAreTrue ==
    /\ TextureTypeOK /\ StoragesAreWellFormed
    /\ LastUsageIsTrue /\ OnlyKnownCombination
=============================================================================
