------------------------------- MODULE BgpRib -------------------------------
(***************************************************************************)
(* The routes of one prefix in the routing table of a BGP++ router: what   *)
(* UPDATEs and withdrawals do to them, the decision process, and route-    *)
(* flap dampening with its reuse lists.                                    *)
(*                                                                         *)
(* A handler is one step.  Time is abstract: Tick halves every penalty,    *)
(* ReuseTimer is the thread that looks at one reuse list.                  *)
(***************************************************************************)
EXTENDS Integers, Sequences, SequencesExt

CONSTANTS Peer, Attr, Config, NoRoute,
          Offers,       \* the attributes each peer may announce
          Penalty, Suppress, Reuse, Ceiling,   \* of bgp_damp_cfg
          Slots,        \* reuse_list_size
          Info,         \* the structs bgp_damp_info that can be allocated
          NoInfo,
          MaxPrefix,    \* neighbor maximum-prefix
          CountModulus, \* pcount is unsigned
          MaxInputs     \* bound on messages, sessions that end and commands

ASSUME PeerAssumption == Peer \subseteq Nat

ASSUME AttrAssumption == Attr \subseteq [rank : Nat, as : Nat, med : Nat]

ASSUME ConfigAssumption ==
  Config \subseteq [deterministic : BOOLEAN, always : BOOLEAN, compareId : BOOLEAN,
                    internal : SUBSET Peer]

ASSUME NoRouteAssumption == NoRoute \notin Attr \cup [peer : Peer, attr : Attr]

ASSUME OffersAssumption == Offers \in [Peer -> SUBSET Attr]

ASSUME DampAssumption ==
  /\ Penalty \in Nat /\ Suppress \in Nat /\ Reuse \in Nat /\ Ceiling \in Nat
  /\ Penalty <= Ceiling /\ Reuse <= Suppress
  /\ Slots \in Nat \ {0} /\ Info \subseteq Nat /\ NoInfo \notin Info
  /\ MaxPrefix \in Nat /\ CountModulus \in Nat \ {0}
  /\ MaxInputs \in Nat

VARIABLES
  config,    \* the options of the decision process, and who is IBGP
  rib,       \* rn->info, a list: the newest route first
  told,      \* what bgp_process last announced, or NoRoute
  heard,     \* what each peer last said that was accepted, or NoRoute
  pcount,    \* conf->pcount of each peer
  stopping,  \* the peers with an event BGP_Stop
  penalty,   \* of each bgp_damp_info
  lists,     \* reuse_list_array, from reuse_array_offset on
  damp,      \* the configuration of dampening and its thread
  broken,    \* a bgp_damp_info was put on a second list
  inputs     \* how many there were

ribVars == <<rib, told, heard, pcount, stopping>>
dampVars == <<penalty, lists, damp, broken>>
vars == <<config, ribVars, dampVars, inputs>>

HoldDown(r) == r.history \/ r.damped

\* The routes that may be chosen, by their places in the list.
Candidates(list) == {n \in DOMAIN list : ~HoldDown(list[n])}

\* The route that is BGP_INFO_SELECTED, or 0 for NULL.
OldSelect(list) ==
  LET selected == {n \in DOMAIN list : list[n].selected} IN
  IF selected = {} THEN 0 ELSE Max(selected)

Plain(r) == [peer |-> r.peer, attr |-> r.attr]
RouteAt(list, n) == IF n = 0 THEN NoRoute ELSE Plain(list[n])
Usable == {Plain(rib[n]) : n \in Candidates(rib)}

Promise == INSTANCE LocRib WITH
  usable <- Usable, best <- RouteAt(rib, OldSelect(rib))

InfoType == [peer : Peer, attr : Attr, history : BOOLEAN, damped : BOOLEAN,
             changed : BOOLEAN, selected : BOOLEAN, info : Info \cup {NoInfo}]

DampType == [enabled : BOOLEAN, configured : BOOLEAN, first : BOOLEAN,
             threads : 0..2, known : BOOLEAN]

\* The types of the state.
TypeOK ==
  /\ config \in Config
  /\ rib \in Seq(InfoType)
  /\ \A i, j \in DOMAIN rib : rib[i].peer = rib[j].peer => i = j
  /\ told \in [peer : Peer, attr : Attr] \cup {NoRoute}
  /\ heard \in [Peer -> Attr \cup {NoRoute}]
  /\ pcount \in [Peer -> 0..(CountModulus - 1)]
  /\ stopping \subseteq Peer
  /\ penalty \in [Info -> 0..Ceiling]
  /\ lists \in [0..(Slots - 1) -> SUBSET Info]
  /\ damp \in DampType
  /\ broken \in BOOLEAN
  /\ inputs \in 0..MaxInputs

-----------------------------------------------------------------------------
(* The decision process.  Every route is BGP_INFO_VALID.                   *)

External(r) == r.peer \notin config.internal

SameAs(n, e) == n.attr.as = e.attr.as /\ n.attr.as # 0

ComparesMed(n, e) == config.always \/ n.attr.as = e.attr.as

\* bgp_info_cmp: n is to be preferred to e.
Preferred(n, e) ==
  \/ n.attr.rank < e.attr.rank
  \/ /\ n.attr.rank = e.attr.rank
     /\ \/ ComparesMed(n, e) /\ n.attr.med < e.attr.med
        \/ /\ ComparesMed(n, e) => n.attr.med = e.attr.med
           /\ \/ External(n) /\ ~External(e)
              \/ /\ External(n) <=> External(e)
                 /\ IF ~config.compareId /\ External(n) /\ (n.selected \/ e.selected)
                    THEN n.selected ELSE n.peer < e.peer

\* The n-th route or the best one so far, 0 for NULL.
Better(list, n, b) == IF b = 0 \/ Preferred(list[n], list[b]) THEN n ELSE b

\* One pass over the routes in S: the one that is left at the end.
Scan(list, S) ==
  LET best[n \in 0..Len(list)] ==
        IF n = 0 THEN 0
        ELSE IF n \in S THEN Better(list, n, best[n - 1]) ELSE best[n - 1]
  IN best[Len(list)]

\* Mutant: the routes that are not BGP_INFO_DMED_SELECTED are not passed over.
WinnersAll(list, S) == S

\* The winner of each AS, by the pass that sets BGP_INFO_DMED_SELECTED.
Winners(list, S) ==
  {n \in S : n = Scan(list, {m \in S : m = n \/ SameAs(list[n], list[m])})}

Select(list) ==
  LET S == Candidates(list) IN
  Scan(list, IF config.deterministic THEN Winners(list, S) ELSE S)

\* bgp_process on the list as the caller leaves it.
Process(list) ==
  LET old == OldSelect(list)
      new == Select(list)
  IN IF old # 0 /\ old = new /\ ~list[old].changed
     THEN rib' = list /\ UNCHANGED told
     ELSE /\ rib' = [n \in DOMAIN list |->
                       IF n = new
                       THEN [list[n] EXCEPT !.selected = TRUE, !.changed = FALSE]
                       ELSE IF n = old THEN [list[n] EXCEPT !.selected = FALSE]
                       ELSE list[n]]
          /\ told' = RouteAt(list, new)

-----------------------------------------------------------------------------
(* Dampening.                                                              *)

Find(p) == SelectInSeq(rib, LAMBDA r : r.peer = p)

Listed(i) == \E k \in DOMAIN lists : i \in lists[k]

Owners(i) == {j \in DOMAIN rib : rib[j].info = i}

\* What is neither used by a route nor listed can be allocated.
Free == {i \in Info : Owners(i) = {} /\ ~Listed(i)}

\* bgp_damp_update: the flag may go, the entry stays on its reuse list.
Lifted(r) ==
  IF r.info # NoInfo /\ damp.enabled /\ r.damped /\ penalty[r.info] < Reuse
  THEN [r EXCEPT !.damped = FALSE] ELSE r

\* Mutant: the ceiling is forgotten.
RaisedUncapped(r) ==
  IF r.info = NoInfo THEN Penalty ELSE penalty[r.info] + Penalty

Raised(r) ==
  IF r.info = NoInfo THEN Penalty
  ELSE IF penalty[r.info] + Penalty > Ceiling THEN Ceiling ELSE penalty[r.info] + Penalty

\* Mutant: the thread is not started.
InsertOnly(i) ==
  /\ \E k \in DOMAIN lists : lists' = [lists EXCEPT ![k] = @ \cup {i}]
  /\ broken' = Listed(i)
  /\ UNCHANGED damp

\* bgp_reuse_list_insert; the list depends on the penalty and the parameters.
Insert(i) ==
  /\ \E k \in DOMAIN lists : lists' = [lists EXCEPT ![k] = @ \cup {i}]
  /\ damp' = IF damp.first
             THEN [damp EXCEPT !.first = FALSE, !.threads = @ + 1, !.known = TRUE]
             ELSE damp
  /\ broken' = Listed(i)

\* Mutant: a route that becomes suppressed is not withdrawn from the neighbours.
DampWithdrawSilent(n) ==
  LET r == rib[n]
      i == IF r.info # NoInfo THEN r.info ELSE CHOOSE j \in Free : \A k \in Free : j <= k
      suppressed == Raised(r) >= Suppress
      gone == [rib EXCEPT ![n] = [r EXCEPT !.history = TRUE, !.info = i,
                                           !.damped = @ \/ suppressed]]
  IN /\ r.info # NoInfo \/ Free # {}
     /\ penalty' = [penalty EXCEPT ![i] = Raised(r)]
     /\ IF ~r.damped /\ suppressed
        THEN Insert(i) /\ rib' = gone /\ UNCHANGED told
        ELSE Process(gone) /\ UNCHANGED <<lists, damp, broken>>

\* bgp_damp_withdraw of the n-th route, which changes it to "gone".
DampWithdraw(n) ==
  LET r == rib[n]
      i == IF r.info # NoInfo THEN r.info ELSE CHOOSE j \in Free : \A k \in Free : j <= k
      suppressed == Raised(r) >= Suppress
      gone == [r EXCEPT !.history = TRUE, !.info = i, !.damped = @ \/ suppressed]
  IN /\ r.info # NoInfo \/ Free # {}
     /\ penalty' = [penalty EXCEPT ![i] = Raised(r)]
     /\ IF ~r.damped /\ suppressed THEN Insert(i)
        ELSE UNCHANGED <<lists, damp, broken>>
     /\ Process([rib EXCEPT ![n] = gone])

-----------------------------------------------------------------------------
(* What a peer says.                                                       *)

\* The bound; and what happens after a list was corrupted is left open.
Input == ~broken /\ inputs < MaxInputs /\ inputs' = inputs + 1

CountUp(p)   == pcount' = [pcount EXCEPT ![p] = (@ + 1) % CountModulus]
CountDown(p) == pcount' = [pcount EXCEPT ![p] = (@ - 1) % CountModulus]

Overflows(p) == MaxPrefix # 0 /\ (pcount[p] + 1) % CountModulus >= MaxPrefix

\* bgp_update for a peer without a route: a new one, at the head.
NewRoute(p, a) ==
  LET new == [peer |-> p, attr |-> a, history |-> FALSE, damped |-> FALSE,
              changed |-> FALSE, selected |-> FALSE, info |-> NoInfo]
  IN /\ Find(p) = 0
     /\ CountUp(p)
     /\ IF Overflows(p)
        THEN /\ rib' = <<new>> \o rib
             /\ stopping' = stopping \cup {p}
             /\ UNCHANGED told
        ELSE Process(<<new>> \o rib) /\ UNCHANGED stopping
     /\ UNCHANGED dampVars

\* Mutant: a duplicate is ignored although the route was withdrawn in between.
ReplaceDuplicate(p, a) ==
  LET n == Find(p)
      r == Lifted(rib[n])
  IN /\ n # 0
     /\ IF r.attr = a
        THEN /\ Process([rib EXCEPT ![n] = [r EXCEPT !.changed = FALSE]])
             /\ UNCHANGED pcount
        ELSE /\ Process([rib EXCEPT ![n] = [r EXCEPT !.attr = a, !.changed = TRUE,
                                                     !.history = FALSE]])
             /\ IF r.history THEN CountUp(p) ELSE UNCHANGED pcount
     /\ UNCHANGED <<stopping, dampVars>>

\* bgp_update for a peer that has a route.
Replace(p, a) ==
  LET n == Find(p)
      r == Lifted(rib[n])
  IN /\ n # 0
     /\ IF ~r.history /\ r.attr = a
        THEN /\ Process([rib EXCEPT ![n] = [r EXCEPT !.changed = FALSE]])
             /\ UNCHANGED pcount
        ELSE /\ Process([rib EXCEPT ![n] = [r EXCEPT !.attr = a, !.changed = TRUE,
                                                     !.history = FALSE]])
             /\ IF r.history THEN CountUp(p) ELSE UNCHANGED pcount
     /\ UNCHANGED <<stopping, dampVars>>

Update(p, a) ==
  /\ Input
  /\ p \notin stopping
  /\ NewRoute(p, a) \/ Replace(p, a)
  /\ heard' = [heard EXCEPT ![p] = a]
  /\ UNCHANGED config

Without(n) == IF n = 0 THEN rib ELSE RemoveAt(rib, n)

\* An UPDATE that is denied: a loop, a filter, a route-map, the next hop.
Deny(p) ==
  /\ Input
  /\ p \notin stopping
  /\ Process(Without(Find(p)))
  /\ IF Find(p) # 0 THEN CountDown(p) ELSE UNCHANGED pcount
  /\ heard' = [heard EXCEPT ![p] = NoRoute]
  /\ UNCHANGED <<config, stopping, dampVars>>

\* Mutant: a route that is kept as history is not counted down.
WithdrawUncounted(p) ==
  LET n == Find(p) IN
  /\ Input
  /\ p \notin stopping
  /\ n # 0 /\ ~rib[n].history
  /\ IF p \notin config.internal /\ damp.enabled
     THEN DampWithdraw(n) /\ UNCHANGED pcount
     ELSE Process(Without(n)) /\ CountDown(p) /\ UNCHANGED dampVars
  /\ heard' = [heard EXCEPT ![p] = NoRoute]
  /\ UNCHANGED <<config, stopping>>

Withdraw(p) ==
  LET n == Find(p) IN
  /\ Input
  /\ p \notin stopping
  /\ n # 0 /\ ~rib[n].history
  /\ IF p \notin config.internal /\ damp.enabled THEN DampWithdraw(n)
     ELSE Process(Without(n)) /\ UNCHANGED dampVars
  /\ CountDown(p)
  /\ heard' = [heard EXCEPT ![p] = NoRoute]
  /\ UNCHANGED <<config, stopping>>

\* bgp_stop calls bgp_route_clear.
SessionDown(p) ==
  /\ Input
  /\ IF Find(p) = 0 THEN UNCHANGED <<rib, told>> ELSE Process(Without(Find(p)))
  /\ pcount' = [pcount EXCEPT ![p] = 0]
  /\ heard' = [heard EXCEPT ![p] = NoRoute]
  /\ stopping' = stopping \ {p}
  /\ UNCHANGED <<config, dampVars>>

-----------------------------------------------------------------------------
(* Time and commands.                                                      *)

Tick ==
  /\ ~broken
  /\ penalty' = [i \in Info |-> penalty[i] \div 2]
  /\ UNCHANGED <<config, ribVars, lists, damp, broken, inputs>>

\* bgp_reuse_timer: a route becomes usable, or goes to a later list.
ReuseTimer ==
  LET scanned == lists[0]
      again == {i \in scanned : Owners(i) # {} /\ penalty[i] >= Reuse}
  IN /\ ~broken /\ damp.threads > 0
     /\ damp' = [damp EXCEPT !.known = TRUE]
     /\ \E later \in [again -> DOMAIN lists] :
          lists' = [k \in DOMAIN lists |->
                      {i \in again : later[i] = k} \cup
                      IF k = Slots - 1 THEN {} ELSE lists[k + 1]]
     /\ rib' = [n \in DOMAIN rib |->
                  LET i == rib[n].info IN
                  IF i \notin scanned \ again THEN rib[n]
                  ELSE [rib[n] EXCEPT !.damped = FALSE,
                          !.info = IF penalty[i] <= Reuse \div 2 THEN NoInfo ELSE i]]
     /\ UNCHANGED <<config, told, heard, pcount, stopping, penalty, broken, inputs>>

\* bgp_damp_clear_config cancels the thread it knows.
Cancelled == IF damp.known THEN damp.threads - 1 ELSE damp.threads

NoLists == [k \in DOMAIN lists |-> {}]

\* "bgp dampening": with arguments, or the first time, the lists are replaced.
Configure ==
  /\ Input
  /\ lists' = NoLists
  /\ damp' = [damp EXCEPT !.enabled = TRUE, !.configured = TRUE,
                 !.threads = IF damp.configured THEN Cancelled ELSE @,
                 !.known = IF damp.configured THEN FALSE ELSE @]
  /\ UNCHANGED <<config, ribVars, penalty, broken>>

\* "bgp dampening" again, without arguments: only the thread is started.
Resume ==
  /\ Input
  /\ damp.configured /\ ~damp.known
  /\ damp' = [damp EXCEPT !.threads = @ + 1, !.known = TRUE]
  /\ UNCHANGED <<config, ribVars, penalty, lists, broken>>

\* "no bgp dampening"
Disable ==
  /\ Input
  /\ damp.configured
  /\ damp' = [damp EXCEPT !.enabled = FALSE, !.configured = FALSE,
                 !.threads = Cancelled, !.known = FALSE]
  /\ lists' = NoLists
  /\ rib' = [n \in DOMAIN rib |->
               IF rib[n].info = NoInfo \/ ~Listed(rib[n].info) THEN rib[n]
               ELSE [rib[n] EXCEPT !.damped = FALSE, !.info = NoInfo]]
  /\ UNCHANGED <<config, told, heard, pcount, stopping, penalty, broken>>

-----------------------------------------------------------------------------

Init ==
  /\ config \in Config
  /\ rib = <<>> /\ told = NoRoute
  /\ heard = [p \in Peer |-> NoRoute]
  /\ pcount = [p \in Peer |-> 0]
  /\ stopping = {}
  /\ penalty = [i \in Info |-> 0]
  /\ lists = [k \in 0..(Slots - 1) |-> {}]
  /\ damp = [enabled |-> FALSE, configured |-> FALSE, first |-> TRUE,
             threads |-> 0, known |-> FALSE]
  /\ broken = FALSE
  /\ inputs = 0

Next ==
  \/ \E p \in Peer : \/ \E a \in Offers[p] : Update(p, a)
                     \/ Deny(p) \/ Withdraw(p) \/ SessionDown(p)
  \/ Tick \/ ReuseTimer
  \/ Configure \/ Resume \/ Disable

Spec == Init /\ [][Next]_vars

-----------------------------------------------------------------------------

(***************************************************************************)
(* The decision process keeps its promise whatever the order in which      *)
(* routes came and went: what the neighbours were told is a best route of  *)
(* those that were usable when it last ran, and the same one whatever the  *)
(* order where the comparisons give one and "compare-routerid" is          *)
(* configured.  "always-compare-med" always gives an order, and            *)
(* "deterministic-med" does unless routes without an AS path whose MEDs    *)
(* differ are as good as one with a path ("bestpath as-path ignore").      *)
(***************************************************************************)
IsLocRib == Promise!Spec

(***************************************************************************)
(* The route in use is no longer a best one only after the steps that make *)
(* a route usable without calling bgp_process: the reuse timer, "no bgp    *)
(* dampening", and a new route that is one too many.                       *)
(***************************************************************************)
Stale == told \notin Promise!Choices(Usable)
StaleOnlyByReuse ==
  [][~Stale /\ Stale' => ReuseTimer \/ Disable \/ stopping' # stopping]_vars

(***************************************************************************)
(* Through withdrawals, denials, duplicates and dampening, the table has a *)
(* live route of a peer exactly when the last the peer said was an UPDATE  *)
(* that was accepted, and it is that one.                                  *)
(***************************************************************************)
Live(p) == {n \in DOMAIN rib : rib[n].peer = p /\ ~rib[n].history}
RibIsHeard ==
  \A p \in Peer :
    /\ heard[p] = NoRoute <=> Live(p) = {}
    /\ \A n \in Live(p) : rib[n].attr = heard[p]

(***************************************************************************)
(* A suppressed route that is on no reuse list, or whose list has no       *)
(* thread, stays suppressed.  That happens only by a new configuration of  *)
(* dampening, which empties the lists and leaves the routes as they are,   *)
(* or later by a withdrawal that suppresses: the flag first_time_insert    *)
(* is never set again, so it does not start the thread that was cancelled. *)
(***************************************************************************)
Stranded ==
  \E n \in DOMAIN rib :
    /\ rib[n].damped
    /\ ~(damp.threads > 0 /\ rib[n].info # NoInfo /\ Listed(rib[n].info))
StrandedOnlyByCommand ==
  [][~Stranded /\ Stranded' =>
       \/ Configure /\ damp.configured
       \/ damp.threads = 0 /\ ~damp.first /\ \E p \in Peer : Withdraw(p)]_vars

(***************************************************************************)
(* The counter for "maximum-prefix" is the number of live routes, except   *)
(* that an UPDATE which is denied after a withdrawal that left the route   *)
(* as history is counted down a second time, below zero if need be.        *)
(***************************************************************************)
Drift(p) == (pcount[p] - (IF Live(p) = {} THEN 0 ELSE 1)) % CountModulus
CountDriftsByDenial ==
  [][\A p \in Peer : Drift(p)' # Drift(p) =>
       SessionDown(p) \/ (Deny(p) /\ Find(p) # 0 /\ Live(p) = {})]_vars

=============================================================================
