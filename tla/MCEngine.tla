------------------------------ MODULE MCEngine ------------------------------
(***************************************************************************)
(* Instances of Engine for TLC.                                            *)
(***************************************************************************)
EXTENDS EngineProperties

CONSTANTS p1, p2, p3

NoRefs == {<<>>}
OneRef == {<<>>, <<p1>>}

\* Arrays of different files that fit the latent cache of two entries.
DistinctRefs == {<<>>, <<p1>>, <<p2>>, <<p3>>, <<p1, p2>>, <<p2, p3>>, <<p3, p1>>}

\* The same file twice.
RepeatedRefs == {<<p1>>, <<p1, p1>>}
=============================================================================
