--------------------------- MODULE MCTextureUsage ---------------------------
(* Textures for TLC: a color texture with two layers and two levels, one    *)
(* with a single layer, depth-stencil textures with two subresources, and   *)
(* one each with only depth and only stencil.                               *)
EXTENDS TextureUsage

MCTextures ==
    {[aspects |-> <<"color">>, layers |-> 2, levels |-> 2],
     [aspects |-> <<"color">>, layers |-> 1, levels |-> 2],
     [aspects |-> <<"depth", "stencil">>, layers |-> 2, levels |-> 1],
     [aspects |-> <<"depth", "stencil">>, layers |-> 1, levels |-> 2],
     [aspects |-> <<"depth">>, layers |-> 2, levels |-> 1],
     [aspects |-> <<"stencil">>, layers |-> 1, levels |-> 2]}
=============================================================================
