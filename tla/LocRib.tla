------------------------------- MODULE LocRib -------------------------------
(***************************************************************************)
(* What the decision process of BGP++ promises for one prefix: the route   *)
(* in use is a best one of the routes that may be used, and it is the one  *)
(* the neighbours were told of.                                            *)
(*                                                                         *)
(* "Best" is stated without any order in which routes are looked at: it    *)
(* depends only on the set.  A route is a peer and attributes.  "rank"     *)
(* stands for what bgp_info_cmp compares before the MED: weight, local     *)
(* preference, origin of the route, length of the AS path, origin.         *)
(***************************************************************************)
EXTENDS Integers

CONSTANTS Peer,       \* the peers, numbered by router identifier
          Attr,       \* [rank, as, med]; as is the first AS, or 0: no AS path
                      \* (a path that begins with a set: a number of its own)
          Config,     \* [deterministic, always, compareId, internal]: three
                      \* options "bgp ...", and the peers that are IBGP
          NoRoute

Route == [peer : Peer, attr : Attr]

VARIABLES
  config,   \* what was configured; it does not change
  usable,   \* the routes that may be used
  best,     \* the one in use, or NoRoute
  told      \* what the neighbours were told

External(r) == r.peer \notin config.internal

TopRanked(S) == {r \in S : \A s \in S : r.attr.rank <= s.attr.rank}

LeastMed(S) == {r \in S : \A s \in S :
                  config.always \/ r.attr.as = s.attr.as => r.attr.med <= s.attr.med}

ExternalFirst(S) == {r \in S : External(r) \/ \A s \in S : ~External(s)}

LowestId(S) == {r \in S : \A s \in S : r.peer <= s.peer}

(***************************************************************************)
(* Whether the comparisons give an order.  They need not if MEDs are       *)
(* compared only within an AS, and not AS by AS.  "deterministic-med" has  *)
(* no group for the routes without an AS path, though the MEDs of two of   *)
(* them are compared: with "bestpath as-path ignore", when they can be as  *)
(* good as one with a path, their MEDs must not differ.                    *)
(***************************************************************************)
Pathless(S) == {r \in S : r.attr.as = 0}
Ordered(S) ==
  \/ config.always
  \/ /\ config.deterministic
     /\ LET T == TopRanked(S) IN
        \/ T = Pathless(T)
        \/ \A r, s \in Pathless(T) : r.attr.med = s.attr.med

(***************************************************************************)
(* The routes between which only the identifier of the peer decides.       *)
(* Without an order, all that is promised is a route of the best rank.     *)
(***************************************************************************)
Equals(S) ==
  IF Ordered(S) THEN ExternalFirst(LeastMed(TopRanked(S))) ELSE TopRanked(S)

Choices(S) ==
  LET E == Equals(S) IN
  IF S = {} THEN {NoRoute}
  ELSE IF Ordered(S) /\ (config.compareId \/ \A r \in E : ~External(r))
       THEN LowestId(E)
       ELSE E

-----------------------------------------------------------------------------

Init == config \in Config /\ usable = {} /\ best = NoRoute /\ told = NoRoute

(***************************************************************************)
(* Routes come and go and the best is chosen again.  An external route is  *)
(* not given up for another that is only as good, unless identifiers are   *)
(* compared.                                                               *)
(***************************************************************************)
Decide ==
  /\ usable' \in SUBSET Route
  /\ best' \in Choices(usable')
  /\ /\ Ordered(usable') /\ ~config.compareId
     /\ best \in Equals(usable') /\ External(best)
     => best' = best
  /\ told' = best'
  /\ UNCHANGED config

\* Routes may become usable without anyone looking at them.
Overlook ==
  /\ usable' \in SUBSET Route /\ usable \subseteq usable'
  /\ UNCHANGED <<config, best, told>>

Next == Decide \/ Overlook
Spec == Init /\ [][Next]_<<config, usable, best, told>>
=============================================================================
