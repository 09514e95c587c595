-------------------------- MODULE MCMixedWorkload --------------------------
(* MixedWorkload on small instances: one client and then two, or two at once, *)
(* with cycles of two or three operations.                                    *)
EXTENDS MixedWorkload

OneThenTwo == <<1, 2>>
JustTwo == <<2>>
=============================================================================
