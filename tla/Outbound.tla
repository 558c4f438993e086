------------------------------ MODULE Outbound ------------------------------
(***************************************************************************)
(* What the outbound side of a BGP session promises, whichever way the     *)
(* minimum route advertisement interval is kept.  MraiPrefix and MraiPeer  *)
(* are shown to implement it.                                              *)
(*                                                                         *)
(* The decision process wants the neighbour to hold something for each     *)
(* prefix.  An update is sent at once or held back; a withdrawal is never  *)
(* held back, and takes what is held back with it.  At most one update is  *)
(* held for a prefix, the last one that was held; only that one is         *)
(* released.  No timer and no clock appears here.                          *)
(***************************************************************************)
CONSTANTS Prefix, Attr, NoRoute

VARIABLES
  up,       \* the session is Established
  told,     \* told[p]: what the neighbour holds
  wanted,   \* wanted[p]: the last decision about p
  held      \* held[p]: the update held back for p, or NoRoute

vars == <<up, told, wanted, held>>

Nothing == [p \in Prefix |-> NoRoute]

Init == up = FALSE /\ told = Nothing /\ wanted = Nothing /\ held = Nothing

\* A decision is sent at once.  What is held back for p stays where it is,
\* unless the command `network p' has thrown it away first.
Announce(p, a) ==
  /\ up
  /\ wanted' = [wanted EXCEPT ![p] = a]
  /\ told' = [told EXCEPT ![p] = a]
  /\ held' \in {held, [held EXCEPT ![p] = NoRoute]}
  /\ UNCHANGED up

\* A decision is held back and replaces what was held back before.
Hold(p, a) ==
  /\ up
  /\ wanted' = [wanted EXCEPT ![p] = a]
  /\ held' = [held EXCEPT ![p] = a]
  /\ UNCHANGED <<up, told>>

Withdraw(p) ==
  /\ up
  /\ wanted' = [wanted EXCEPT ![p] = NoRoute]
  /\ told' = [told EXCEPT ![p] = NoRoute]
  /\ held' = [held EXCEPT ![p] = NoRoute]
  /\ UNCHANGED up

\* The interval is over.
Release(p) ==
  /\ up
  /\ held[p] # NoRoute
  /\ told' = [told EXCEPT ![p] = held[p]]
  /\ held' = [held EXCEPT ![p] = NoRoute]
  /\ UNCHANGED <<up, wanted>>

\* `network p' throws away what is held back and decides nothing new.
Forget(p) ==
  /\ up
  /\ held' = [held EXCEPT ![p] = NoRoute]
  /\ UNCHANGED <<up, told, wanted>>

\* The session comes up and the whole table is sent.
Open ==
  /\ ~up
  /\ up' = TRUE
  /\ told' \in [Prefix -> Attr \cup {NoRoute}]
  /\ wanted' = told'
  /\ UNCHANGED held

Close ==
  /\ up
  /\ up' = FALSE
  /\ told' = Nothing /\ wanted' = Nothing /\ held' = Nothing

Next ==
  \/ \E p \in Prefix, a \in Attr : Announce(p, a) \/ Hold(p, a)
  \/ \E p \in Prefix : Withdraw(p) \/ Release(p) \/ Forget(p)
  \/ Open
  \/ Close

Spec == Init /\ [][Next]_vars
=============================================================================
