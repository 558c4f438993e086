---------------------------- MODULE MCMraiPrefix ----------------------------
(***************************************************************************)
(* Instances of MraiPrefix for TLC.                                        *)
(*                                                                         *)
(* Two routes and two policies.  The policy "rewrite" changes the          *)
(* attributes of r1, as a route-map would, and denies r2.                  *)
(***************************************************************************)
EXTENDS MraiPrefix, TLC

CONSTANTS p1, p2, r1, r2, a1, a2, a3, pass, rewrite

MCExport ==
  [c \in Policy |-> IF c = pass THEN r1 :> a1 @@ r2 :> a2
                                ELSE r1 :> a3 @@ r2 :> NoRoute]

Symmetry == Permutations({p1, p2})
=============================================================================
