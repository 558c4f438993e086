----------------------------- MODULE MraiPrefix -----------------------------
(***************************************************************************)
(* The outbound side of one BGP session of ns-2.35/bgp/bgp.cc when the     *)
(* minimum route advertisement interval is kept per prefix (the default,   *)
(* mrai_type = MRAI_PER_PREFIX).                                           *)
(*                                                                         *)
(* bgp_process decides what the neighbour should be told about a prefix;   *)
(* bgp_update_send_check holds an update back while the prefix is inside   *)
(* its interval and arms a timer thread that releases it.  The record      *)
(* `peer' is the part of struct peer these functions touch.                *)
(*                                                                         *)
(* The other peers of the router are treated alike and share nothing but   *)
(* the selected routes, so one session is modelled; the routes a dying     *)
(* session takes away are Process steps of the other sessions.             *)
(***************************************************************************)
EXTENDS Naturals

CONSTANTS
  Prefix,     \* prefixes in the RIB
  Route,      \* routes the decision process can select
  Attr,       \* attribute sets that can be sent to the peer
  Policy,     \* outbound policies of the session (filters and route-maps)
  Export,     \* Export[c][r]: attributes policy c sends for r, or NoRoute
  NoRoute,    \* no route selected, announced, suppressed or told
  Mrai,       \* v_routeadv, in ticks; 0 also stands for MRAI_DISABLE
  Tid,        \* timer threads that can be pending at a time (a bound)
  NoTimer

ASSUME NoRouteAssumption == NoRoute \notin Route \cup Attr
ASSUME ExportAssumption == Export \in [Policy -> [Route -> Attr \cup {NoRoute}]]
ASSUME MraiAssumption == Mrai \in Nat
ASSUME NoTimerAssumption ==
  NoTimer \notin Tid \cup [prefix : Prefix, left : 0..Mrai]

VARIABLES
  sel,      \* sel[p]: the route flagged BGP_INFO_SELECTED, or NoRoute
  policy,   \* the outbound policy configured now
  peer,     \* the outbound part of struct peer, see PeerType
  told,     \* told[p]: what the neighbour holds once it has read all output
  wanted,   \* wanted[p]: the outcome of the last bgp_announce_check on p
  walk      \* prefixes a running bgp_refresh_rib has still to visit

vars == <<sel, policy, peer, told, wanted, walk>>

Told == Attr \cup {NoRoute}
Timer == [prefix : Prefix, left : 0..Mrai]

(***************************************************************************)
(* up       peer->status == Established                                    *)
(* adj_out  the Adj-RIB-Out table                                          *)
(* top_adv  the suppressed advertisements (at most one for each prefix)    *)
(* stamp    update_stamps, as the ticks until now - stamp >= v_routeadv    *)
(* timer    the pending bgp_routeadv_timer threads of the peer, listed or  *)
(*          not: left is the number of ticks until it expires              *)
(* listed   the threads reachable from t_routeadv_list                     *)
(* newest   the head of t_routeadv_list                                    *)
(***************************************************************************)
PeerType ==
  [ up      : BOOLEAN,
    adj_out : [Prefix -> Told],
    top_adv : [Prefix -> Told],
    stamp   : [Prefix -> 0..Mrai],
    timer   : [Tid -> Timer \cup {NoTimer}],
    listed  : SUBSET Tid,
    newest  : Tid \cup {NoTimer} ]

TypeOK ==
  /\ sel \in [Prefix -> Route \cup {NoRoute}]
  /\ policy \in Policy
  /\ peer \in PeerType
  /\ told \in [Prefix -> Told]
  /\ wanted \in [Prefix -> Told]
  /\ walk \subseteq Prefix

-----------------------------------------------------------------------------
\* bgp_announce_check: what the peer should be told when r is selected
Outcome(r) == IF r = NoRoute THEN NoRoute ELSE Export[policy][r]

\* routeadv_list_search
HasListedTimer(s, p) == \E t \in s.listed : s.timer[t].prefix = p

FreeTimers(s) == {t \in Tid : s.timer[t] = NoTimer}

\* routeadv_list_remove: removing the head drops the rest of the list too
ListRemove(s, t) ==
  IF t = s.newest
  THEN [s EXCEPT !.listed = {}, !.newest = NoTimer]
  ELSE [s EXCEPT !.listed = @ \ {t}]

\* bgp_cancel_timer_by_prefix
CancelTimer(s, p) ==
  IF HasListedTimer(s, p)
  THEN LET t == CHOOSE u \in s.listed : s.timer[u].prefix = p
       IN  [ListRemove(s, t) EXCEPT !.timer[t] = NoTimer]
  ELSE s

\* Mutant: only a prefix in the Adj-RIB-Out is looked for (CHANGELOG, 1.04c).
DropIfAnnounced(s, p) ==
  IF s.adj_out[p] = NoRoute THEN s
  ELSE CancelTimer([s EXCEPT !.top_adv[p] = NoRoute], p)

\* bgp_withdraw_send_check
DropSuppressed(s, p) ==
  IF s.top_adv[p] = NoRoute THEN s
  ELSE CancelTimer([s EXCEPT !.top_adv[p] = NoRoute], p)

\* Mutant: the Adj-RIB-Out is forgotten (CHANGELOG, 1.05).
MarkStamped(s, p, a) == [s EXCEPT !.stamp[p] = Mrai]

\* bgp_update_add_timestamp and bgp_adj_set, after bgp_update_send
MarkSent(s, p, a) == [s EXCEPT !.adj_out[p] = a, !.stamp[p] = Mrai]

\* Mutant: the timer runs for a whole interval, not for what is left of it.
ArmWholeInterval(s, p) ==
  IF HasListedTimer(s, p) THEN s
  ELSE LET t == CHOOSE u \in FreeTimers(s) : TRUE
       IN  [s EXCEPT !.timer[t] = [prefix |-> p, left |-> Mrai],
                     !.listed = @ \cup {t},
                     !.newest = t]

\* Mutant: the timer of the update that is overwritten is restarted.
ArmAgain(s, p) ==
  LET t == CHOOSE u \in s.listed \cup FreeTimers(s) :
             HasListedTimer(s, p) => u \in s.listed /\ s.timer[u].prefix = p
  IN  [s EXCEPT !.timer[t] = [prefix |-> p, left |-> Mrai],
                !.listed = @ \cup {t},
                !.newest = t]

\* thread_add_timer and routeadv_list_add, when no listed timer is for p
ArmTimer(s, p) ==
  IF HasListedTimer(s, p) THEN s
  ELSE LET t == CHOOSE u \in FreeTimers(s) : TRUE
       IN  [s EXCEPT !.timer[t] = [prefix |-> p, left |-> s.stamp[p]],
                     !.listed = @ \cup {t},
                     !.newest = t]

\* Mutant: the update that is there first stays.
SuppressFirst(s, p, a) ==
  IF s.top_adv[p] # NoRoute THEN s ELSE ArmTimer([s EXCEPT !.top_adv[p] = a], p)

\* the suppress branch of bgp_update_send_check, with bgp_advertise_insert
Suppress(s, p, a) == ArmTimer([s EXCEPT !.top_adv[p] = a], p)

\* what bgp_process, having selected r for p, does about a session in state s
ProcessSession(s, p, a) ==
  \/ /\ ~s.up
     /\ peer' = s
     /\ UNCHANGED <<told, wanted>>
  \/ /\ s.up
     /\ a = NoRoute
     /\ peer' = [DropSuppressed(s, p) EXCEPT !.adj_out[p] = NoRoute]
     /\ told' = [told EXCEPT ![p] = IF s.adj_out[p] = NoRoute THEN @ ELSE NoRoute]
     /\ wanted' = [wanted EXCEPT ![p] = a]
  \/ /\ s.up
     /\ a # NoRoute
     /\ s.stamp[p] = 0
     /\ peer' = MarkSent(s, p, a)
     /\ told' = [told EXCEPT ![p] = a]
     /\ wanted' = [wanted EXCEPT ![p] = a]
  \/ /\ s.up
     /\ a # NoRoute
     /\ s.stamp[p] > 0
     /\ HasListedTimer(s, p) \/ FreeTimers(s) # {}    \* bound: Tid
     /\ peer' = Suppress(s, p, a)
     /\ wanted' = [wanted EXCEPT ![p] = a]
     /\ UNCHANGED told

-----------------------------------------------------------------------------
\* the part of bgp_stop that bgp_adj_clear and bgp_mrai_timers_off do
Idle(s) ==
  [s EXCEPT !.up = FALSE,
            !.adj_out = [p \in Prefix |-> NoRoute],
            !.top_adv = [p \in Prefix |-> NoRoute],
            !.stamp = [p \in Prefix |-> 0],
            !.listed = {},
            !.newest = NoTimer]

Init ==
  /\ sel = [p \in Prefix |-> NoRoute]
  /\ policy \in Policy
  /\ peer = [ up      |-> FALSE,
              adj_out |-> [p \in Prefix |-> NoRoute],
              top_adv |-> [p \in Prefix |-> NoRoute],
              stamp   |-> [p \in Prefix |-> 0],
              timer   |-> [t \in Tid |-> NoTimer],
              listed  |-> {},
              newest  |-> NoTimer ]
  /\ told = [p \in Prefix |-> NoRoute]
  /\ wanted = [p \in Prefix |-> NoRoute]
  /\ walk = {}

\* bgp_process: the decision process selects r for p.  Nothing is done when
\* the selected route stays the same and its attributes have not changed.
Process(p, r) ==
  /\ walk = {}
  /\ r = NoRoute \/ r # sel[p]
  /\ sel' = [sel EXCEPT ![p] = r]
  /\ ProcessSession(peer, p, Outcome(r))
  /\ UNCHANGED <<policy, walk>>

\* bgp_static_set: the command `network p' first cancels what is suppressed
\* for p, with its timer and timestamp, then runs the decision process, which
\* may keep the route it had
CancelSuppressed(s, p) ==
  [CancelTimer([s EXCEPT !.top_adv[p] = NoRoute], p) EXCEPT !.stamp[p] = 0]

NetworkCommand(p, r) ==
  /\ walk = {}
  /\ sel' = [sel EXCEPT ![p] = r]
  /\ \/ /\ r # sel[p]
        /\ ProcessSession(CancelSuppressed(peer, p), p, Outcome(r))
     \/ /\ r = sel[p]
        /\ peer' = CancelSuppressed(peer, p)
        /\ UNCHANGED <<told, wanted>>
  /\ UNCHANGED <<policy, walk>>

\* Mutant: the suppressed update is removed but not sent.
RouteadvTimerDrops(t) ==
  /\ walk = {}
  /\ peer.timer[t] # NoTimer
  /\ peer.timer[t].left = 0
  /\ peer' = [ListRemove(peer, t) EXCEPT !.timer[t] = NoTimer,
                                        !.top_adv[peer.timer[t].prefix] = NoRoute]
  /\ UNCHANGED <<sel, policy, told, wanted, walk>>

\* bgp_routeadv_timer, for the pending timer thread t
RouteadvTimer(t) ==
  /\ walk = {}
  /\ peer.timer[t] # NoTimer
  /\ peer.timer[t].left = 0
  /\ LET p == peer.timer[t].prefix
         a == peer.top_adv[p]
         s == [ListRemove(peer, t) EXCEPT !.timer[t] = NoTimer]
     IN  IF a = NoRoute
         THEN peer' = s /\ UNCHANGED told
         ELSE /\ peer' = [MarkSent(s, p, a) EXCEPT !.top_adv[p] = NoRoute]
              /\ told' = [told EXCEPT ![p] = a]
  /\ UNCHANGED <<sel, policy, wanted, walk>>

\* A configuration command replaces the outbound policy; nothing is sent
SetPolicy(c) ==
  /\ walk = {}
  /\ policy' = c
  /\ UNCHANGED <<sel, peer, told, wanted, walk>>

\* bgp_refresh_table, for a ROUTE-REFRESH message or `clear ip bgp soft out'.
\* The walk over the table is one thread: no other action runs before its end.
Refresh ==
  /\ walk = {}
  /\ peer.up
  /\ walk' = Prefix
  /\ UNCHANGED <<sel, policy, peer, told, wanted>>

RefreshPrefix(p) ==
  /\ p \in walk
  /\ walk' = walk \ {p}
  /\ LET a == Outcome(sel[p]) IN
     \/ /\ sel[p] = NoRoute
        /\ UNCHANGED <<peer, told, wanted>>
     \/ /\ sel[p] # NoRoute /\ a # NoRoute
        /\ peer' = MarkSent(peer, p, a)
        /\ told' = [told EXCEPT ![p] = a]
        /\ wanted' = [wanted EXCEPT ![p] = a]
     \/ /\ sel[p] # NoRoute /\ a = NoRoute
        /\ ProcessSession(peer, p, a)
  /\ UNCHANGED <<sel, policy>>

\* bgp_establish: bgp_announce_table sends every selected route the policy lets
\* through and stamps it
Establish ==
  /\ walk = {}
  /\ ~peer.up
  /\ LET view == [p \in Prefix |-> Outcome(sel[p])] IN
     /\ peer' = [peer EXCEPT !.up = TRUE,
                             !.adj_out = view,
                             !.stamp = [p \in Prefix |->
                                IF view[p] = NoRoute THEN 0 ELSE Mrai]]
     /\ told' = view
     /\ wanted' = view
  /\ UNCHANGED <<sel, policy, walk>>

\* bgp_stop: the Adj-RIB-Out is cleared, bgp_mrai_timers_off cancels the listed
\* timers and frees the rest of the outbound state; the neighbour drops what it
\* learned from this session
Stop ==
  /\ walk = {}
  /\ peer.up
  /\ peer' = [Idle(peer) EXCEPT !.timer =
                [t \in Tid |-> IF t \in peer.listed THEN NoTimer ELSE @[t]]]
  /\ told' = [p \in Prefix |-> NoRoute]
  /\ wanted' = [p \in Prefix |-> NoRoute]
  /\ UNCHANGED <<sel, policy, walk>>

\* Mutant: the clock runs past a timer that is due.
LessUnbounded(n) == n - 1

\* one tick less
Less(n) == IF n = 0 THEN 0 ELSE n - 1

\* The simulated clock advances.  A timer that is due may wait: the scheduler
\* runs it only when no event, ready thread or earlier input is left.
Tick ==
  /\ walk = {}
  /\ \/ \E p \in Prefix : peer.stamp[p] > 0
     \/ \E t \in Tid : peer.timer[t] # NoTimer /\ peer.timer[t].left > 0
  /\ peer' = [peer EXCEPT
       !.stamp = [p \in Prefix |-> Less(@[p])],
       !.timer = [t \in Tid |->
          IF @[t] = NoTimer THEN NoTimer
          ELSE [prefix |-> @[t].prefix, left |-> Less(@[t].left)]]]
  /\ UNCHANGED <<sel, policy, told, wanted, walk>>

Next ==
  \/ \E p \in Prefix, r \in Route \cup {NoRoute} : Process(p, r)
  \/ \E p \in Prefix, r \in Route : NetworkCommand(p, r)
  \/ \E t \in Tid : RouteadvTimer(t)
  \/ \E c \in Policy : SetPolicy(c)
  \/ Refresh
  \/ \E p \in Prefix : RefreshPrefix(p)
  \/ Establish
  \/ Stop
  \/ Tick

Spec == Init /\ [][Next]_vars

\* The simulator goes through all pending timeouts, and finitely many commands
\* run at any instant: time passes and a due timer is run in the end.
Fairness ==
  /\ SF_vars(Tick)
  /\ \A t \in Tid : SF_vars(RouteadvTimer(t))
  /\ \A p \in Prefix : WF_vars(RefreshPrefix(p))

FairSpec == Spec /\ Fairness

-----------------------------------------------------------------------------
(***************************************************************************)
(* Properties.                                                             *)
(***************************************************************************)

\* The session keeps the promise of Outbound.
Abstract == INSTANCE Outbound WITH up <- peer.up, held <- peer.top_adv
KeepsPromise == Abstract!Spec

\* No update is stranded or held too long: as long as an update is suppressed,
\* some pending thread will release it no later than the end of the interval,
\* although t_routeadv_list loses threads (see ListRemove) and a thread
\* found in the list is reused for the updates that overwrite the first.
HasThread(s, p) ==
  s.top_adv[p] # NoRoute =>
    \E t \in Tid : /\ s.timer[t] # NoTimer
                   /\ s.timer[t].prefix = p
                   /\ s.timer[t].left <= s.stamp[p]

InTime(s) == \A p \in Prefix : HasThread(s, p)

ReleasedInTime == InTime(peer)

\* The threads reachable from t_routeadv_list are pending and are for
\* different prefixes, so bgp_cancel_timer_by_prefix and bgp_mrai_timers_off
\* never touch a thread that has run or was freed.
ListPending(s) ==
  /\ \A t \in s.listed : s.timer[t] # NoTimer
  /\ \A t, u \in s.listed : s.timer[t].prefix = s.timer[u].prefix => t = u
  /\ s.newest \in s.listed \/ (s.newest = NoTimer /\ s.listed = {})

ListIsPending == ListPending(peer)

\* The Adj-RIB-Out is exactly what the neighbour was told, so a withdrawal is
\* sent if and only if there is something to withdraw.  Six functions send and
\* each has to update the table.
AdjOutIsTold == peer.adj_out = told

\* A session that is down has nothing suppressed, announced or stamped, so the
\* next one starts from the table that bgp_announce_table sends.
Clean(s) ==
  ~s.up => \A p \in Prefix : /\ s.top_adv[p] = NoRoute
                             /\ s.adj_out[p] = NoRoute
                             /\ s.stamp[p] = 0

DownIsClean == Clean(peer)

\* The neighbour knows the last decision, or the suppressed update carries it.
Synced(p) == told[p] = wanted[p] \/ peer.top_adv[p] = wanted[p]

\* A superseded update for p is still queued.
Superseded(p) == peer.top_adv[p] \notin {NoRoute, wanted[p]}

\* The neighbour loses the last decision about a prefix in two ways only: the
\* timer sends an update that a direct send has overtaken, or `network p'
\* throws a suppressed update away and then selects the route it had.
LostOnlyByOvertaking ==
  [][\A p \in Prefix :
       Synced(p) /\ ~Synced(p)'
         => \/ Superseded(p) /\ \E t \in Tid : RouteadvTimer(t)
            \/ NetworkCommand(p, sel[p])]_vars

\* The update in the queue becomes superseded only by a direct send: by the
\* decision process once the interval is over although its timer has not run,
\* or by a refresh, which does not look at the queue.
SupersededOnlyByDirectSend ==
  [][\A p \in Prefix :
       Superseded(p)' /\ ~Superseded(p)
         => told'[p] = wanted'[p] /\ (peer.stamp[p] = 0 \/ p \in walk)]_vars

\* With MRAI disabled nothing is held back: after every step the neighbour is
\* sent exactly the last decision.
DisabledIsSynchronous == Mrai = 0 => told = wanted

\* However often a prefix flaps, an update never stays suppressed: overwriting
\* it does not restart its timer.
Drains ==
  \A p \in Prefix : peer.top_adv[p] # NoRoute ~> peer.top_adv[p] = NoRoute

\* A timer releases the last decision, never an older one: doc/mrai/README says
\* that "the latter advertisement overwrites the first, thus at the end of MRAI
\* interval only the UPDATE of router 5 is propagated".  The code does not keep
\* this: bgp_update_send_check lets an update through when the interval is over
\* although an older one is queued, and the late timer sends the older one last.
OnlyLatestReleased ==
  [][\A t \in Tid :
       RouteadvTimer(t) /\ peer.top_adv[peer.timer[t].prefix] # NoRoute
         => ~Superseded(peer.timer[t].prefix)]_vars
=============================================================================
