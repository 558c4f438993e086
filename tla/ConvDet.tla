------------------------------ MODULE ConvDet -------------------------------
(***************************************************************************)
(* Convergence detection in ns-2.35/bgp/bgp.cc.  All routers of the        *)
(* simulation run in one process and share, for each prefix, a counter of  *)
(* the messages on their way to an AS (network_queue) and a counter of the *)
(* messages an AS is working on (process_queue).  When a router has parsed *)
(* a message and every counter is zero, check_convergence dumps the        *)
(* routing tables and forgets the prefix.                                  *)
(*                                                                         *)
(* The entries of different prefixes are independent, so one prefix is     *)
(* modelled, and one router for each AS.  What the routers decide is left  *)
(* open: they may tell each neighbour something, or withdraw it.  An       *)
(* update can be held back by MRAI.  A session may stop at either end and  *)
(* be established again; what was on its way is lost then, but counted.    *)
(***************************************************************************)
EXTENDS Integers, FiniteSets

CONSTANTS
  Router,      \* routers, one for each AS
  Adjacent,    \* Adjacent[r]: the routers r has a session with
  Mode,        \* values of mrai_type: a subset of {"off", "prefix", "peer"}
  Budget       \* the bounds: how often a decision process changes its mind,
               \* commands among them, and how often an end of a session stops

ASSUME RouterAssumption == IsFiniteSet(Router)
ASSUME AdjacentAssumption ==
  /\ Adjacent \in [Router -> SUBSET Router]
  /\ \A r \in Router : r \notin Adjacent[r]
ASSUME ModeAssumption == Mode \subseteq {"off", "prefix", "peer"}
ASSUME BudgetAssumption == Budget \subseteq [changes : Nat, commands : Nat, stops : Nat]

VARIABLES
  mrai_type,      \* the same for all routers, and never changed
  inbox,          \* inbox[r][n]: messages from n that r is going to parse
  lost,           \* lost[r]: messages to r that were counted and never will be
  session,        \* session[r][n]: what r holds about its session with n
  prefix_map,     \* the prefix has an entry in prefix_map and ls_array
  network_queue,  \* ls_array[..]->network_queue, by AS
  process_queue,  \* ls_array[..]->process_queue, by AS
  mrai_map,       \* mrai_map[<prefix, AS>] = 1
  budget          \* what is left of the bounds

vars == <<mrai_type, inbox, lost, session, prefix_map, network_queue, process_queue,
          mrai_map, budget>>

queues == <<prefix_map, network_queue, process_queue>>

(***************************************************************************)
(* status   up, if it is Established; ready, if there is a connection on   *)
(*          which only OPENs have been exchanged; down otherwise           *)
(* adj_out  the prefix is in the Adj-RIB-Out                               *)
(* held     an update is in top_adv                                        *)
(* window   the interval is not over: the timestamp of the prefix is too   *)
(*          young (per prefix), or t_routeadv is on (per peer)             *)
(***************************************************************************)
SessionType == [status : {"down", "ready", "up"}, adj_out : BOOLEAN,
                held : BOOLEAN, window : BOOLEAN]

Fresh(status) ==
  [status |-> status, adj_out |-> FALSE, held |-> FALSE, window |-> FALSE]

TypeOK ==
  /\ mrai_type \in Mode
  /\ inbox \in [Router -> [Router -> Nat]]
  /\ lost \in [Router -> Nat]
  /\ session \in [Router -> [Router -> SessionType]]
  /\ prefix_map \in BOOLEAN
  /\ network_queue \in [Router -> Int]
  /\ process_queue \in [Router -> Int]
  /\ mrai_map \in [Router -> BOOLEAN]
  /\ budget \in [changes : Nat, commands : Nat, stops : Nat]

Zero == [r \in Router |-> 0]

Init ==
  /\ mrai_type \in Mode
  /\ inbox = [r \in Router |-> Zero]
  /\ lost = Zero
  /\ session = [r \in Router |-> [n \in Router |-> Fresh("up")]]
  /\ prefix_map = FALSE
  /\ network_queue = Zero
  /\ process_queue = Zero
  /\ mrai_map = [r \in Router |-> FALSE]
  /\ budget \in Budget

-----------------------------------------------------------------------------
(***************************************************************************)
(* The decision process of r (bgp_process).  It does nothing, or tells     *)
(* every neighbour something to which the session is Established:          *)
(* advertise[n] says whether there is a selected route and the outbound    *)
(* policy lets it through to n.                                            *)
(***************************************************************************)

\* bgp_update_send_check lets the update through to n; s is what r holds about
\* the session
Sends(s, announce) == s.status = "up" /\ announce /\ ~s.window

\* bgp_update_send_check holds the update back
Suppresses(s, announce) == s.status = "up" /\ announce /\ s.window

\* bgp_withdraw_send, for a prefix in the Adj-RIB-Out
Withdraws(s, announce) == s.status = "up" /\ ~announce /\ s.adj_out

\* the session afterwards; a withdrawal drops what is held back
Told(s, announce) ==
  CASE Sends(s, announce) -> [s EXCEPT !.adj_out = TRUE,
                                       !.window = (mrai_type # "off")]
    [] Suppresses(s, announce) -> [s EXCEPT !.held = TRUE]
    [] s.status = "up" /\ ~announce -> [s EXCEPT !.adj_out = FALSE, !.held = FALSE]
    [] OTHER -> s

\* s[n] is the session with n as the decision process finds it
Messages(s, advertise) ==
  {n \in DOMAIN advertise : \/ Sends(s[n], advertise[n])
                           \/ Withdraws(s[n], advertise[n])}

\* what r holds about its sessions afterwards, and its mark
Outcome(r, s, advertise) ==
  [n \in Router |-> IF n \in Adjacent[r] THEN Told(s[n], advertise[n]) ELSE s[n]]

Marked(r, s, advertise) ==
  mrai_map[r] \/ \E n \in Adjacent[r] : Suppresses(s[n], advertise[n])

Decide(r, s, advertise) ==
  /\ session' = [session EXCEPT ![r] = Outcome(r, s, advertise)]
  /\ mrai_map' = [mrai_map EXCEPT ![r] = Marked(r, s, advertise)]

\* the bounds
Spend(commands) ==
  /\ budget.changes > 0 /\ budget.commands >= commands
  /\ budget' = [budget EXCEPT !.changes = @ - 1, !.commands = @ - commands]

-----------------------------------------------------------------------------
(***************************************************************************)
(* Messages.  One that is sent after the other end has closed the          *)
(* connection is lost.                                                     *)
(***************************************************************************)

Plus(queue, to) == [n \in Router |-> IF n \in to THEN queue[n] + 1 ELSE queue[n]]

Arrives(r, to) == {n \in to : session[n][r].status # "down"}

\* messages on their way when r has sent one to each router in `to'
Sent(messages, r, to) ==
  [n \in Router |-> IF n \in Arrives(r, to) THEN [messages[n] EXCEPT ![r] = @ + 1]
                                           ELSE messages[n]]

\* Mutant: the message is not counted.
SendToUncounted(r, to) ==
  /\ inbox' = Sent(inbox, r, to)
  /\ lost' = Plus(lost, to \ Arrives(r, to))
  /\ prefix_map' = (prefix_map \/ to # {})
  /\ UNCHANGED <<mrai_type, process_queue, network_queue>>

\* bgp_update_send and bgp_withdraw_send count each message; the first one makes
\* the entry.
SendTo(r, to) ==
  /\ inbox' = Sent(inbox, r, to)
  /\ lost' = Plus(lost, to \ Arrives(r, to))
  /\ network_queue' = Plus(network_queue, to)
  /\ prefix_map' = (prefix_map \/ to # {})
  /\ UNCHANGED <<mrai_type, process_queue>>

-----------------------------------------------------------------------------
(* Decisions taken outside of nlri_parse.                                  *)

\* bgp_static_unset, or another command that runs bgp_process: r falls back to a
\* route it has learned, or withdraws the prefix
Command(r, advertise) ==
  /\ Spend(1)
  /\ Decide(r, session[r], advertise)
  /\ SendTo(r, Messages(session[r], advertise))

\* bgp_static_set: per prefix, the suppressed updates and the timestamps are
\* thrown away first.  The decision process may find nothing new to tell then.
Cancelled(r) ==
  IF mrai_type # "prefix" THEN session[r]
  ELSE [n \in Router |-> [session[r][n] EXCEPT !.held = FALSE, !.window = FALSE]]

NetworkCommand(r, advertise) ==
  /\ Spend(1)
  /\ \/ /\ Decide(r, Cancelled(r), advertise)
        /\ SendTo(r, Messages(Cancelled(r), advertise))
     \/ /\ session' = [session EXCEPT ![r] = Cancelled(r)]
        /\ UNCHANGED mrai_map
        /\ SendTo(r, {})

\* A refresh of one session (bgp_refresh_rib) sends without asking MRAI, and
\* leaves an update that is held back where it is.
RefreshCommand(r, n, announce) ==
  LET s == session[r][n] IN
  /\ Spend(1)
  /\ s.status = "up"
  /\ session' = [session EXCEPT ![r][n] =
       IF announce THEN [s EXCEPT !.adj_out = TRUE, !.window = (mrai_type # "off")]
                   ELSE [s EXCEPT !.adj_out = FALSE, !.held = FALSE]]
  /\ SendTo(r, IF announce \/ s.adj_out THEN {n} ELSE {})
  /\ UNCHANGED mrai_map

-----------------------------------------------------------------------------
(* Messages that are received.                                             *)

\* Mutant: only the process queues are looked at.
CheckProcessQueues(nq, pq) ==
  IF \A r \in Router : pq[r] = 0
  THEN prefix_map' = FALSE /\ network_queue' = Zero /\ process_queue' = Zero
  ELSE prefix_map' = TRUE /\ network_queue' = nq /\ process_queue' = pq

\* check_convergence, given the queues as the parser leaves them
CheckConvergence(nq, pq) ==
  IF \A r \in Router : nq[r] = 0 /\ pq[r] = 0
  THEN prefix_map' = FALSE /\ network_queue' = Zero /\ process_queue' = Zero
  ELSE prefix_map' = TRUE /\ network_queue' = nq /\ process_queue' = pq

\* r takes a message of n in and sends one to each router in `to'
Exchange(r, n, to) ==
  /\ inbox' = Sent([inbox EXCEPT ![r][n] = @ - 1], r, to)
  /\ lost' = Plus(lost, to \ Arrives(r, to))

\* Mutant: a message is parsed as soon as it is counted, received or not.
ParseEarly(r, n, to) ==
  /\ prefix_map
  /\ Exchange(r, n, to)
  /\ network_queue' = Plus([network_queue EXCEPT ![r] = @ - 1], to)
  /\ UNCHANGED <<mrai_type, prefix_map, process_queue>>

\* nlri_parse: r decides about a message of n, and accounts for it.  `to' are the
\* neighbours it sends something.  Without an entry the code would use an
\* uninitialized index; AccountedFor shows that there always is one.
Parse(r, n, to) ==
  LET nq == Plus([network_queue EXCEPT ![r] = @ - 1], to)
      begun == [process_queue EXCEPT ![r] = @ + 1]
      done == [begun EXCEPT ![r] = @ - 1]
  IN /\ inbox[r][n] > 0 /\ session[r][n].status = "up"
     /\ prefix_map
     /\ Exchange(r, n, to)
     /\ \/ /\ mrai_map'[r]
           /\ process_queue' = begun /\ network_queue' = nq
           /\ UNCHANGED prefix_map
        \/ /\ ~mrai_map'[r] /\ done[r] # 0
           /\ process_queue' = done /\ network_queue' = nq
           /\ UNCHANGED prefix_map
        \/ /\ ~mrai_map'[r] /\ done[r] = 0
           /\ CheckConvergence(nq, done)
     /\ UNCHANGED mrai_type

\* the message changes the selected route, or its attributes
ReceiveChange(r, n, advertise) ==
  /\ Spend(0)
  /\ Decide(r, session[r], advertise)
  /\ Parse(r, n, Messages(session[r], advertise))

\* the message changes nothing that r has to tell
ReceiveNoChange(r, n) ==
  /\ UNCHANGED <<session, mrai_map, budget>>
  /\ Parse(r, n, {})

-----------------------------------------------------------------------------
(* Timers and the write thread.                                            *)

\* A suppressed update of r to n is sent (bgp_routeadv_timer)
Release(r, n, window) ==
  /\ session[r][n].held
  /\ session' = [session EXCEPT ![r][n] =
                   [@ EXCEPT !.adj_out = TRUE, !.held = FALSE, !.window = window]]
  /\ inbox' = Sent(inbox, r, {n})
  /\ lost' = Plus(lost, {n} \ Arrives(r, {n}))
  /\ network_queue' = Plus(network_queue, {n})
  /\ prefix_map' = TRUE
  /\ UNCHANGED <<mrai_type, budget>>

\* Mutant: process_queue is not reset.
TimerPrefixNoReset(r, n) ==
  /\ mrai_type = "prefix"
  /\ Release(r, n, TRUE)
  /\ mrai_map' = [mrai_map EXCEPT ![r] = FALSE]
  /\ UNCHANGED process_queue

\* per prefix: the interval starts anew and process_queue is reset
TimerPrefix(r, n) ==
  /\ mrai_type = "prefix"
  /\ Release(r, n, TRUE)
  /\ mrai_map' = [mrai_map EXCEPT ![r] = FALSE]
  /\ process_queue' = [process_queue EXCEPT ![r] = 0]

\* per peer, the update being the first of the list: the timer is left off and
\* process_queue loses one
TimerPeer(r, n) ==
  /\ mrai_type = "peer"
  /\ session[r][n].window
  /\ Release(r, n, FALSE)
  /\ mrai_map' = [mrai_map EXCEPT ![r] = FALSE]
  /\ process_queue' = [process_queue EXCEPT ![r] = @ - 1]

\* per peer, the update being one that bgp_write flushes: nothing is accounted;
\* the timer is turned on if the list is empty then
Flush(r, n) ==
  /\ mrai_type = "peer"
  /\ ~session[r][n].window
  /\ \E window \in BOOLEAN : Release(r, n, window)
  /\ UNCHANGED <<mrai_map, process_queue>>

\* The interval ends: the timestamp is old, although the timer may be late; or
\* t_routeadv has expired, and released another prefix if this one is held.
WindowEnd(r, n) ==
  /\ session[r][n].window
  /\ session' = [session EXCEPT ![r][n].window = FALSE]
  /\ UNCHANGED <<mrai_type, inbox, lost, queues, mrai_map, budget>>

\* Per peer, an update for another prefix turns t_routeadv on.
WindowBegin(r, n) ==
  /\ mrai_type = "peer"
  /\ session[r][n].status = "up" /\ ~session[r][n].window
  /\ session' = [session EXCEPT ![r][n].window = TRUE]
  /\ UNCHANGED <<mrai_type, inbox, lost, queues, mrai_map, budget>>

-----------------------------------------------------------------------------
(* Sessions that stop and are established again.                           *)

\* bgp_stop at the end r of the session with n.  An Established session loses
\* the routes it has learned first, which may make r decide; it is still
\* Established then, so r may send to n too.  What n has sent and r has not
\* parsed is lost, and so is what r has sent or queued and n does not get
\* before the connection closes; it may parse `kept' of them.
Close(r, n, changes, s, to) ==
  /\ session' = [session EXCEPT ![r] = [s EXCEPT ![n] = Fresh("down")]]
  /\ \E kept \in 0..inbox[n][r] :
       /\ inbox' = [Sent(inbox, r, to \ {n}) EXCEPT ![r][n] = 0, ![n][r] = kept]
       /\ lost' = [Plus(lost, to \ Arrives(r, to \ {n})) EXCEPT
                     ![r] = @ + inbox[r][n], ![n] = @ + inbox[n][r] - kept]
  /\ network_queue' = Plus(network_queue, to)
  /\ prefix_map' = (prefix_map \/ to # {})
  /\ budget.changes >= changes /\ budget.stops > 0
  /\ budget' = [budget EXCEPT !.changes = @ - changes, !.stops = @ - 1]
  /\ UNCHANGED <<mrai_type, process_queue>>

Stop(r, n, advertise) ==
  /\ session[r][n].status = "up"
  /\ \/ /\ Close(r, n, 1, Outcome(r, session[r], advertise),
                 Messages(session[r], advertise))
        /\ mrai_map' = [mrai_map EXCEPT ![r] = Marked(r, session[r], advertise)]
     \/ /\ Close(r, n, 0, session[r], {})
        /\ UNCHANGED mrai_map

\* a connection that ends before it is Established
Abandon(r, n) ==
  /\ session[r][n].status = "ready"
  /\ Close(r, n, 0, session[r], {})
  /\ UNCHANGED mrai_map

\* A new connection, on which both ends have sent and received an OPEN.
Connect(r, n) ==
  /\ session[r][n].status = "down" /\ session[n][r].status = "down"
  /\ session' = [session EXCEPT ![r][n].status = "ready", ![n][r].status = "ready"]
  /\ UNCHANGED <<mrai_type, inbox, lost, queues, mrai_map, budget>>

\* bgp_establish sends the table, if there is a route to announce to n.
Establish(r, n, announce) ==
  /\ session[r][n].status = "ready"
  /\ session' = [session EXCEPT ![r][n] =
       [status |-> "up", adj_out |-> announce, held |-> FALSE,
        window |-> announce /\ mrai_type # "off"]]
  /\ SendTo(r, IF announce THEN {n} ELSE {})
  /\ UNCHANGED <<mrai_map, budget>>

-----------------------------------------------------------------------------

Next ==
  \E r \in Router :
    \/ \E advertise \in [Adjacent[r] -> BOOLEAN] :
         \/ NetworkCommand(r, advertise)
         \/ Command(r, advertise)
         \/ \E n \in Adjacent[r] :
              ReceiveChange(r, n, advertise) \/ Stop(r, n, advertise)
    \/ \E n \in Adjacent[r] :
         \/ ReceiveNoChange(r, n)
         \/ \E announce \in BOOLEAN :
              RefreshCommand(r, n, announce) \/ Establish(r, n, announce)
         \/ TimerPrefix(r, n) \/ TimerPeer(r, n) \/ Flush(r, n)
         \/ WindowEnd(r, n) \/ WindowBegin(r, n)
         \/ Abandon(r, n) \/ Connect(r, n)

Spec == Init /\ [][Next]_vars

-----------------------------------------------------------------------------
(***************************************************************************)
(* Properties.                                                             *)
(***************************************************************************)

Quiet ==
  /\ \A r \in Router : inbox[r] = Zero
  /\ \A r, n \in Router : ~session[r][n].held

\* how many messages there are from all the others
Total(from) == Cardinality(UNION {{n} \X (1..from[n]) : n \in Router})

\* What is counted is what is on its way and what was lost, in every mode: a
\* session that stops makes detection late, never early.  So the entry is there
\* when a message is parsed, and nlri_parse never uses its uninitialized index.
AccountedFor ==
  /\ \A r \in Router : network_queue[r] = Total(inbox[r]) + lost[r]
  /\ ~prefix_map => network_queue = Zero

\* Without MRAI detection is exact as long as nothing is lost: the tables are
\* dumped in the very step that takes the last message in, and the entry does not
\* outlive it.  Once a message is lost, the entry stays.
ExactWithoutMrai == mrai_type = "off" => (prefix_map <=> ~Quiet \/ lost # Zero)

\* A loss silences detection of the prefix for the rest of the simulation.
SilentAfterLoss == [][lost # Zero => prefix_map']_vars

\* An AS never finishes a message it has not begun, per prefix.
NeverNegative ==
  mrai_type # "peer" => \A r \in Router : process_queue[r] >= 0

\* A router that works on nothing has nothing left over in process_queue,
\* unless it is marked as suppressing.
LeftOverIsMarked ==
  mrai_type # "peer" =>
    \A r \in Router : process_queue[r] > 0 => mrai_map[r]

\* The tables are dumped with the words "NETWORK CONVERGED FOR PREFIX" only when
\* no message is on its way and no update is held back.  The code does not keep
\* this: mrai_map has one mark for an AS, and the first timer to release an
\* update clears it although updates to other neighbours are held.
DetectedOnlyWhenQuiet == [][prefix_map /\ ~prefix_map' => Quiet']_vars

\* A network that has become quiet has been found to be: the last message has
\* been parsed, so no later step can find it.  The code does not keep this: a
\* withdrawal that drops the suppressed update leaves the mark of the AS.
QuietIsDetected == Quiet => ~prefix_map
=============================================================================
