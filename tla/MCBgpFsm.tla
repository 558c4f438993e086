------------------------------ MODULE MCBgpFsm -------------------------------
(* The two routers of a session; router 2 has the larger identifier.        *)
EXTENDS BgpFsm

MCRouter == 1..2

MCId == [r \in MCRouter |-> r]
=============================================================================
