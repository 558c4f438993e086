------------------------------ MODULE MCBgpRib ------------------------------
(***************************************************************************)
(* Instances of BgpRib for TLC.                                            *)
(***************************************************************************)
EXTENDS BgpRib

\* The peers know of two ASes; 1 and 3 both of AS 1, or they send routes without
\* an AS path, which with "bestpath as-path ignore" are as good.
MCAttr == [rank : {1}, as : {0, 1, 2}, med : {0, 1}]
MCOffers == <<{[rank |-> 1, as |-> as, med |-> 1] : as \in {0, 1}},
              {[rank |-> 1, as |-> 2, med |-> 0]},
              {[rank |-> 1, as |-> as, med |-> 0] : as \in {0, 1}}>>

\* With "always-compare-med", "deterministic-med" makes no difference.
MCOptions ==
  {c \in [deterministic : BOOLEAN, always : BOOLEAN, compareId : BOOLEAN,
          internal : {{3}}] : ~(c.deterministic /\ c.always)}

\* Three peers of one kind, whose order can be a cycle.
MCConfig ==
  MCOptions \cup
  {[deterministic |-> TRUE, always |-> FALSE, compareId |-> TRUE, internal |-> Peer]}
=============================================================================
