------------------------------ MODULE MraiPeer ------------------------------
(***************************************************************************)
(* The outbound side of one BGP session of ns-2.35/bgp/bgp.cc when the     *)
(* minimum route advertisement interval is kept per peer                   *)
(* (mrai_type = MRAI_PER_PEER, set by the Tcl command "mrai-per-peer").    *)
(*                                                                         *)
(* One timer, t_routeadv, holds back every update of the session.  When it *)
(* expires the oldest suppressed update is sent, and bgp_write, which runs *)
(* because of it, sends the others one at a time as long as the timer is   *)
(* off.  Several threads take part, and between them other threads run.    *)
(***************************************************************************)
EXTENDS Naturals, FiniteSets, SequencesExt

CONSTANTS
  Prefix, Route, Attr, Policy, Export, NoRoute,   \* as in MraiPrefix
  Mrai,       \* v_routeadv, in ticks
  Off,        \* t_routeadv is not running
  MaxObuf     \* packets in the output buffer (a bound)

ASSUME PrefixAssumption == IsFiniteSet(Prefix)
ASSUME NoRouteAssumption == NoRoute \notin Route \cup Attr
ASSUME ExportAssumption == Export \in [Policy -> [Route -> Attr \cup {NoRoute}]]
ASSUME MraiAssumption == Mrai \in Nat
ASSUME OffAssumption == Off \notin 0..Mrai
ASSUME MaxObufAssumption == MaxObuf \in Nat

VARIABLES
  sel,      \* sel[p]: the route flagged BGP_INFO_SELECTED, or NoRoute
  policy,   \* the outbound policy configured now
  peer,     \* the outbound part of struct peer, see PeerType
  told,     \* told[p]: what the neighbour holds once it has read all output
  wanted,   \* wanted[p]: the outcome of the last bgp_announce_check on p
  since,    \* history: ticks since t_routeadv was last turned on, at most Mrai
  walk      \* prefixes a running bgp_refresh_rib has still to visit

vars == <<sel, policy, peer, told, wanted, since, walk>>

Told == Attr \cup {NoRoute}

(***************************************************************************)
(* up          peer->status == Established                                 *)
(* adj_out     the Adj-RIB-Out table                                       *)
(* top_adv     the list of suppressed advertisements, oldest first         *)
(* t_routeadv  ticks until the MRAI timer expires, or Off                  *)
(* t_write     a bgp_write thread is pending                               *)
(* obuf        packets in the output buffer                                *)
(***************************************************************************)
PeerType ==
  [ up         : BOOLEAN,
    adj_out    : [Prefix -> Told],
    top_adv    : Seq([prefix : Prefix, attr : Attr]),
    t_routeadv : 0..Mrai \cup {Off},
    t_write    : BOOLEAN,
    obuf       : 0..MaxObuf ]

TypeOK ==
  /\ sel \in [Prefix -> Route \cup {NoRoute}]
  /\ policy \in Policy
  /\ peer \in PeerType
  /\ told \in [Prefix -> Told]
  /\ wanted \in [Prefix -> Told]
  /\ since \in 0..Mrai
  /\ walk \subseteq Prefix

-----------------------------------------------------------------------------
\* bgp_announce_check: what the peer should be told when r is selected
Outcome(r) == IF r = NoRoute THEN NoRoute ELSE Export[policy][r]

\* The places of prefix p in a list of suppressed advertisements
PlacesOf(q, p) == {i \in 1..Len(q) : q[i].prefix = p}

\* Mutant: nothing is removed.
AdvertiseKeep(q, p) == q

\* bgp_advertise_remove, for the entry of prefix p
AdvertiseRemove(q, p) ==
  IF PlacesOf(q, p) = {} THEN q
  ELSE RemoveAt(q, CHOOSE i \in PlacesOf(q, p) : TRUE)

\* Mutants: the entry of the same prefix is not looked for, or is kept.
AdvertiseAppend(q, p, a) == Append(q, [prefix |-> p, attr |-> a])

AdvertiseFirst(q, p, a) ==
  IF AdvertiseRemove(q, p) # q THEN q ELSE Append(q, [prefix |-> p, attr |-> a])

\* bgp_advertise_insert: the entry of the same prefix is replaced, at the end
AdvertiseInsert(q, p, a) ==
  Append(AdvertiseRemove(q, p), [prefix |-> p, attr |-> a])

\* Mutant: the write thread is not turned on.
SendLater(s) == [s EXCEPT !.obuf = @ + 1]

\* bgp_packet_add and BGP_WRITE_ON
Send(s) == [s EXCEPT !.obuf = @ + 1, !.t_write = TRUE]

\* bgp_update_send and bgp_adj_set
SendUpdate(s, p, a) == [Send(s) EXCEPT !.adj_out[p] = a]

\* Mutant: the timer is not turned on.
TimerOnNever(s) == s

\* BGP_TIMER_ON (peer->t_routeadv, ...): a running timer is left alone
TimerOn(s) == [s EXCEPT !.t_routeadv = IF @ = Off THEN Mrai ELSE @]

\* Mutant: the Adj-RIB-Out is forgotten (CHANGELOG, 1.05).
SendTopUnrecorded(s) == [Send(s) EXCEPT !.top_adv = Tail(@)]

\* The oldest suppressed update is sent and taken off the list
SendTop(s) ==
  LET top == Head(s.top_adv)
  IN  [SendUpdate(s, top.prefix, top.attr) EXCEPT !.top_adv = Tail(@)]

\* what bgp_process, having decided a for p, does about the session
ProcessSession(p, a) ==
  \/ /\ ~peer.up
     /\ UNCHANGED <<peer, told, wanted, since>>
  \/ /\ peer.up
     /\ a = NoRoute
     /\ peer.obuf < MaxObuf
     /\ LET s == [peer EXCEPT !.top_adv = AdvertiseRemove(@, p)]
        IN  peer' = IF s.adj_out[p] = NoRoute THEN s
                    ELSE [Send(s) EXCEPT !.adj_out[p] = NoRoute]
     /\ told' = [told EXCEPT ![p] = IF peer.adj_out[p] = NoRoute THEN @ ELSE NoRoute]
     /\ wanted' = [wanted EXCEPT ![p] = a]
     /\ UNCHANGED since
  \/ /\ peer.up
     /\ a # NoRoute
     /\ peer.t_routeadv = Off
     /\ peer.obuf < MaxObuf
     /\ peer' = SendUpdate(TimerOn(peer), p, a)
     /\ told' = [told EXCEPT ![p] = a]
     /\ wanted' = [wanted EXCEPT ![p] = a]
     /\ since' = 0
  \/ /\ peer.up
     /\ a # NoRoute
     /\ peer.t_routeadv # Off
     /\ peer' = [peer EXCEPT !.top_adv = AdvertiseInsert(@, p, a)]
     /\ wanted' = [wanted EXCEPT ![p] = a]
     /\ UNCHANGED <<told, since>>

-----------------------------------------------------------------------------
Init ==
  /\ sel = [p \in Prefix |-> NoRoute]
  /\ policy \in Policy
  /\ peer = [ up         |-> FALSE,
              adj_out    |-> [p \in Prefix |-> NoRoute],
              top_adv    |-> <<>>,
              t_routeadv |-> Off,
              t_write    |-> FALSE,
              obuf       |-> 0 ]
  /\ told = [p \in Prefix |-> NoRoute]
  /\ wanted = [p \in Prefix |-> NoRoute]
  /\ since = Mrai
  /\ walk = {}

\* bgp_process: the decision process selects r for p
Process(p, r) ==
  /\ walk = {}
  /\ r = NoRoute \/ r # sel[p]
  /\ sel' = [sel EXCEPT ![p] = r]
  /\ ProcessSession(p, Outcome(r))
  /\ UNCHANGED <<policy, walk>>

\* bgp_routeadv_timer: one update is sent, and the timer stays off
RouteadvTimer ==
  /\ walk = {}
  /\ peer.t_routeadv = 0
  /\ LET s == [peer EXCEPT !.t_routeadv = Off] IN
     IF peer.top_adv = <<>>
     THEN peer' = s /\ UNCHANGED told
     ELSE /\ peer.obuf < MaxObuf
          /\ peer' = SendTop(s)
          /\ told' = [told EXCEPT ![Head(peer.top_adv).prefix] = Head(peer.top_adv).attr]
  /\ UNCHANGED <<sel, policy, wanted, since, walk>>

\* Mutant: suppressed updates are not flushed.
WriteOnly ==
  /\ walk = {}
  /\ peer.t_write
  /\ peer' = IF peer.obuf = 0 THEN [peer EXCEPT !.t_write = FALSE]
             ELSE [peer EXCEPT !.obuf = @ - 1, !.t_write = peer.obuf > 1]
  /\ UNCHANGED <<sel, policy, told, wanted, since, walk>>

\* bgp_write: one packet goes to the transport; while the timer is off the next
\* suppressed update is queued, and the last one turns the timer on
Write ==
  /\ walk = {}
  /\ peer.t_write
  /\ LET w == [peer EXCEPT !.obuf = @ - 1, !.t_write = peer.obuf > 1] IN
     \/ /\ peer.obuf = 0
        /\ peer' = [peer EXCEPT !.t_write = FALSE]
        /\ UNCHANGED <<told, since>>
     \/ /\ peer.obuf > 0
        /\ peer.top_adv = <<>> \/ peer.t_routeadv # Off
        /\ peer' = w
        /\ UNCHANGED <<told, since>>
     \/ /\ peer.obuf > 0
        /\ peer.top_adv # <<>> /\ peer.t_routeadv = Off
        /\ peer' = IF Len(peer.top_adv) = 1 THEN TimerOn(SendTop(w)) ELSE SendTop(w)
        /\ told' = [told EXCEPT ![Head(peer.top_adv).prefix] = Head(peer.top_adv).attr]
        /\ since' = IF Len(peer.top_adv) = 1 THEN 0 ELSE since
  /\ UNCHANGED <<sel, policy, wanted, walk>>

\* fsm_keepalive_expire, or any other packet that is not an UPDATE
Keepalive ==
  /\ walk = {}
  /\ peer.up
  /\ peer.obuf < MaxObuf
  /\ peer' = Send(peer)
  /\ UNCHANGED <<sel, policy, told, wanted, since, walk>>

\* A configuration command replaces the outbound policy; nothing is sent
SetPolicy(c) ==
  /\ walk = {}
  /\ policy' = c
  /\ UNCHANGED <<sel, peer, told, wanted, since, walk>>

\* bgp_refresh_table.  The walk is one thread: no other action runs before its
\* end, so the output buffer must have room for it (bound MaxObuf).
Refresh ==
  /\ walk = {}
  /\ peer.up
  /\ peer.obuf + Cardinality(Prefix) <= MaxObuf
  /\ walk' = Prefix
  /\ UNCHANGED <<sel, policy, peer, told, wanted, since>>

RefreshPrefix(p) ==
  /\ p \in walk
  /\ walk' = walk \ {p}
  /\ LET a == Outcome(sel[p]) IN
     \/ /\ sel[p] = NoRoute
        /\ UNCHANGED <<peer, told, wanted, since>>
     \/ /\ sel[p] # NoRoute /\ a # NoRoute
        /\ peer' = TimerOn(SendUpdate(peer, p, a))
        /\ told' = [told EXCEPT ![p] = a]
        /\ wanted' = [wanted EXCEPT ![p] = a]
        /\ since' = IF peer.t_routeadv = Off THEN 0 ELSE since
     \/ /\ sel[p] # NoRoute /\ a = NoRoute
        /\ ProcessSession(p, a)
  /\ UNCHANGED <<sel, policy>>

\* bgp_establish: a KEEPALIVE, then the table; the timer is on if anything of it
\* was announced
Establish ==
  /\ walk = {}
  /\ ~peer.up
  /\ LET view == [p \in Prefix |-> Outcome(sel[p])]
         sent == {p \in Prefix : view[p] # NoRoute}
         s == [Send(peer) EXCEPT !.up = TRUE, !.adj_out = view,
                                 !.obuf = @ + Cardinality(sent)]
     IN /\ s.obuf <= MaxObuf
        /\ peer' = IF sent = {} THEN s ELSE TimerOn(s)
        /\ told' = view
        /\ wanted' = view
        /\ since' = IF sent = {} THEN since ELSE 0
  /\ UNCHANGED <<sel, policy, walk>>

\* bgp_stop: everything but the write thread is taken down; the neighbour drops
\* what it learned from this session
Stop ==
  /\ walk = {}
  /\ peer.up
  /\ peer' = [ up         |-> FALSE,
               adj_out    |-> [p \in Prefix |-> NoRoute],
               top_adv    |-> <<>>,
               t_routeadv |-> Off,
               t_write    |-> peer.t_write,
               obuf       |-> 0 ]
  /\ told' = [p \in Prefix |-> NoRoute]
  /\ wanted' = [p \in Prefix |-> NoRoute]
  /\ since' = Mrai
  /\ UNCHANGED <<sel, policy, walk>>

\* Mutant: the clock runs past the timer.
TickPast ==
  /\ walk = {}
  /\ peer' = [peer EXCEPT !.t_routeadv = IF @ = Off THEN Off ELSE @ - 1]
  /\ since' = IF since < Mrai THEN since + 1 ELSE since
  /\ UNCHANGED <<sel, policy, told, wanted, walk>>

\* The simulated clock advances; with a workload model it does so between any
\* two threads.
Tick ==
  /\ walk = {}
  /\ since < Mrai \/ peer.t_routeadv \notin {0, Off}
  /\ peer' = [peer EXCEPT !.t_routeadv = IF @ \in {0, Off} THEN @ ELSE @ - 1]
  /\ since' = IF since < Mrai THEN since + 1 ELSE since
  /\ UNCHANGED <<sel, policy, told, wanted, walk>>

Next ==
  \/ \E p \in Prefix, r \in Route \cup {NoRoute} : Process(p, r)
  \/ RouteadvTimer
  \/ Write
  \/ Keepalive
  \/ \E c \in Policy : SetPolicy(c)
  \/ Refresh
  \/ \E p \in Prefix : RefreshPrefix(p)
  \/ Establish
  \/ Stop
  \/ Tick

Spec == Init /\ [][Next]_vars

\* Time passes, and the scheduler runs a ready or due thread in the end.
Fairness ==
  /\ SF_vars(Tick)
  /\ SF_vars(RouteadvTimer)
  /\ SF_vars(Write)
  /\ \A p \in Prefix : WF_vars(RefreshPrefix(p))

FairSpec == Spec /\ Fairness

-----------------------------------------------------------------------------
(***************************************************************************)
(* Properties.                                                             *)
(***************************************************************************)

\* The suppressed update for p, seen as the abstract session sees it.
HeldIn(q) ==
  [p \in Prefix |->
     IF PlacesOf(q, p) = {} THEN NoRoute
     ELSE q[CHOOSE i \in PlacesOf(q, p) : TRUE].attr]

Held == HeldIn(peer.top_adv)

\* The session keeps the promise of Outbound.
Abstract == INSTANCE Outbound WITH up <- peer.up, held <- Held
KeepsPromise == Abstract!Spec

\* No update is stranded: as long as the list is not empty the timer runs, or a
\* write thread with a packet to write is pending and continues the flush.
NoneStranded ==
  peer.top_adv # <<>> =>
    \/ peer.t_routeadv # Off
    \/ peer.t_write /\ peer.obuf > 0

\* At most one suppressed update for each prefix, whatever threads add and
\* remove entries.
OneForEachPrefix ==
  \A i, j \in 1..Len(peer.top_adv) :
    peer.top_adv[i].prefix = peer.top_adv[j].prefix => i = j

\* The Adj-RIB-Out is exactly what the neighbour was told.  Four functions send
\* updates and each has to set the table (the CHANGELOG of 1.05 mends one).
AdjOutIsTold == peer.adj_out = told

\* The neighbour knows the last decision, or the suppressed update carries it.
Synced(p) == told[p] = wanted[p] \/ Held[p] = wanted[p]
Superseded(p) == Held[p] \notin {NoRoute, wanted[p]}

\* The neighbour loses the last decision about a prefix only when the timer or
\* the flush sends an update that a direct send has overtaken.
LostOnlyByOvertaking ==
  [][\A p \in Prefix :
       Synced(p) /\ ~Synced(p)' => Superseded(p) /\ (RouteadvTimer \/ Write)]_vars

\* When the decision process is quiet everything suppressed is sent in the end.
DrainsWhenQuiet ==
  <>[][~\E p \in Prefix, r \in Route \cup {NoRoute} : Process(p, r)]_vars
    => []<>(peer.top_adv = <<>>)

\* A decision that reaches the neighbour at once keeps the interval to the last
\* update that turned the timer on.  Updates that the timer, a refresh or the
\* flush sends are not counted: bgp_routeadv_timer leaves the timer off, and what
\* follows it is not suppressed, unlike doc/mrai/README, mrai-4, says.
IntervalBetweenDecisions ==
  [][\A p \in Prefix, r \in Route :
       Process(p, r) /\ told'[p] # told[p] /\ told'[p] # NoRoute => since = Mrai]_vars
=============================================================================
