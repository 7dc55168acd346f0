--------------------------- MODULE MCGeneration ---------------------------
(***************************************************************************)
(* Instances of Generation for TLC.                                        *)
(***************************************************************************)
EXTENDS Generation, TLC

CONSTANTS a, b, o1, o2

SameSize == [i \in Images |-> 1]
TwoSizes == (a :> 1) @@ (b :> 2)

Image(i) == [latent |-> NoLatent, image |-> i]
Latent(i) == [latent |-> i, image |-> i]
Nothing == [latent |-> NoLatent, image |-> NoImage]

Other(kind) ==
  [kind |-> kind, given |-> FALSE, sources |-> <<>>, shape |-> o1, steps |-> 0,
   tiled |-> FALSE]

\* No reference, images only, latents only, and a latent that is missing, with
\* an image to fall back to and without.
SourceLists ==
  {<<>>, <<Image(a)>>, <<Image(a), Image(b)>>, <<Latent(b), Latent(a)>>,
   <<Latent(a), Image(b)>>, <<Nothing, Latent(b)>>}

Generations(lists, shapes, steps) ==
  [kind : {"image"}, given : BOOLEAN, sources : lists, shape : shapes,
   steps : steps, tiled : BOOLEAN]

\* Another shape, and no step at all, with some of the lists only
AllRequests ==
  Generations(SourceLists, {o1}, {2})
    \cup Generations({<<>>, <<Latent(b), Latent(a)>>}, {o2}, {0, 2})
    \cup {Other("condition"), Other("latent"), Other("upscale")}

FewRequests == Generations({<<Latent(a)>>, <<Latent(b)>>}, {o1, o2}, {1})
=============================================================================
