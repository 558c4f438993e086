----------------------------- MODULE MCMraiPeer -----------------------------
(***************************************************************************)
(* Instances of MraiPeer for TLC.                                          *)
(***************************************************************************)
EXTENDS MraiPeer, TLC

CONSTANTS p1, p2, r1, r2, a1, a2, a3, pass, rewrite

MCExport ==
  [c \in Policy |-> IF c = pass THEN r1 :> a1 @@ r2 :> a2
                                ELSE r1 :> a3 @@ r2 :> NoRoute]
=============================================================================
