------------------------------- MODULE BgpFsm --------------------------------
(***************************************************************************)
(* The sessions between two routers: the finite state machine of           *)
(* ns-2.35/bgp/bgp.cc with its timers, the read and write threads, the     *)
(* temporary peer of an accepted connection and collision detection, at    *)
(* both ends, and the TCP connections between them (tcp/tcp-full.cc as the *)
(* daemon sees it).                                                        *)
(*                                                                         *)
(* A thread runs to its end, so a handler is one action.  Each router runs *)
(* its events first, then its write thread, then what has arrived, and a   *)
(* timer when there is no event.  The network delivers at any time.  Time  *)
(* is abstract: a timer that is on can expire.                             *)
(***************************************************************************)
EXTENDS Integers, Sequences, FiniteSets

CONSTANTS
  Router,   \* the two routers
  Id,       \* Id[r]: the BGP identifier of r
  MaxUse,   \* connections opened, `clear ip bgp' commands and hold timers that
            \* expire, together (a bound)
  MaxLost   \* messages that a close keeps TCP from transmitting (a bound)

ASSUME RouterAssumption == IsFiniteSet(Router) /\ Cardinality(Router) = 2
ASSUME IdAssumption ==
  /\ Id \in [Router -> Nat]
  /\ \A r, q \in Router : Id[r] = Id[q] => r = q
ASSUME BoundsAssumption == MaxUse \in Nat /\ MaxLost \in Nat

Conn == 1..MaxUse
NoConn == 0

Status == {"Idle", "Connect", "Active", "OpenSent", "OpenConfirm", "Established"}
Message == {"Open", "Keepalive", "Update", "Notification"}
Timer == {"start", "connect", "hold", "keepalive"}
Event ==
  {"Start", "Stop", "Open", "Closed", "OpenFailed", "ConnectRetry", "HoldExpired",
   "KeepAliveExpired", "ReceiveOpen", "ReceiveKeepalive", "ReceiveUpdate",
   "ReceiveNotification"}

VARIABLES
  peer,     \* peer[r]: the configured peer of r
  accepted, \* accepted[r][c]: status of the temporary peer of connection c
  inbox,    \* inbox[r]: interrupts r has not handled (InterruptQueue)
  tcp,      \* tcp[c]: the TCP connection c and its message lists
  used      \* what MaxUse bounds, so far

vars == <<peer, accepted, inbox, tcp, used>>

Other(r) == CHOOSE q \in Router : q # r

(***************************************************************************)
(* LocalAgent  the connection of the peer, or NoConn                       *)
(* t_read      the connection t_read waits for, or NoConn                  *)
(* t_write     bgp_write is in the ready list                              *)
(* obuf        the output buffer                                           *)
(* timers      the timers that are on                                      *)
(* events      the events of the peer that have not been executed          *)
(***************************************************************************)
PeerType ==
  [status : Status, LocalAgent : Conn \cup {NoConn}, t_read : Conn \cup {NoConn},
   t_write : BOOLEAN, obuf : Seq(Message), timers : SUBSET Timer, events : Seq(Event)]

(***************************************************************************)
(* state   of each end: "none", "opening" (LISTEN, SYN_SENT, SYN_RECEIVED),*)
(*         "up" (ESTABLISHED), "closed" (it has sent or received a FIN, or *)
(*         closed before it was up)                                        *)
(* wire    what is on its way to each end; "Up" completes its handshake    *)
(* m_msgs  the ends that have a list for the messages sent to them         *)
(* accept  the thread of bgp_accept still waits, at the end it names       *)
(***************************************************************************)
TcpType ==
  [state : [Router -> {"none", "opening", "up", "closed"}],
   wire : [Router -> Seq(Message \cup {"Up", "Fin"})],
   m_msgs : SUBSET Router, accept : SUBSET Router]

TypeOK ==
  /\ peer \in [Router -> PeerType]
  /\ accepted \in [Router -> [Conn -> {"none", "Active", "OpenSent"}]]
  /\ inbox \in [Router -> Seq(Conn \X (Message \cup {"Zero"}))]
  /\ tcp \in [Conn -> TcpType]
  /\ used \in 0..MaxUse

IdlePeer ==
  [status |-> "Idle", LocalAgent |-> NoConn, t_read |-> NoConn, t_write |-> FALSE,
   obuf |-> <<>>, timers |-> {"start"}, events |-> <<>>]

Init ==
  /\ peer = [r \in Router |-> IdlePeer]
  /\ accepted = [r \in Router |-> [c \in Conn |-> "none"]]
  /\ inbox = [r \in Router |-> <<>>]
  /\ tcp = [c \in Conn |->
             [state |-> [r \in Router |-> "none"], wire |-> [r \in Router |-> <<>>],
              m_msgs |-> {}, accept |-> {}]]
  /\ used = 0

-----------------------------------------------------------------------------
(***************************************************************************)
(* The table of the finite state machine.                                  *)
(***************************************************************************)
(* The rows that do not say bgp_ignore and Idle.  bgp_connect_fail and     *)
(* bgp_stop_with_error do what bgp_stop does, time apart; fsm_keepalive    *)
(* and fsm_update are "received".                                          *)
FsmRow ==
  {<<"Idle", "Start", "start", "Connect">>,
   <<"Idle", "Stop", "stop", "Idle">>,
   <<"Idle", "Open", "stop", "Idle">>,
   <<"Idle", "Closed", "stop", "Idle">>,
   <<"Connect", "Start", "ignore", "Connect">>,
   <<"Connect", "Stop", "stop", "Idle">>,
   <<"Connect", "Open", "connect_success", "OpenSent">>,
   <<"Connect", "Closed", "stop", "Idle">>,
   <<"Connect", "OpenFailed", "stop", "Active">>,
   <<"Connect", "ConnectRetry", "reconnect", "Connect">>,
   <<"Connect", "ReceiveNotification", "stop", "Idle">>,
   <<"Active", "Start", "ignore", "Active">>,
   <<"Active", "Stop", "stop", "Idle">>,
   <<"Active", "Open", "connect_success", "OpenSent">>,
   <<"Active", "Closed", "stop", "Idle">>,
   <<"Active", "OpenFailed", "ignore", "Active">>,
   <<"Active", "ConnectRetry", "start", "Connect">>,
   <<"Active", "ReceiveNotification", "stop", "Idle">>,
   <<"OpenSent", "Start", "ignore", "OpenSent">>,
   <<"OpenSent", "Stop", "stop", "Idle">>,
   <<"OpenSent", "Open", "stop", "Idle">>,
   <<"OpenSent", "Closed", "stop", "Active">>,
   <<"OpenSent", "HoldExpired", "holdtime_expire", "Idle">>,
   <<"OpenSent", "ReceiveOpen", "open", "OpenConfirm">>,
   <<"OpenSent", "ReceiveNotification", "stop", "Idle">>,
   <<"OpenConfirm", "Start", "ignore", "OpenConfirm">>,
   <<"OpenConfirm", "Stop", "stop", "Idle">>,
   <<"OpenConfirm", "Open", "stop", "Idle">>,
   <<"OpenConfirm", "Closed", "stop", "Idle">>,
   <<"OpenConfirm", "OpenFailed", "stop", "Idle">>,
   <<"OpenConfirm", "HoldExpired", "holdtime_expire", "Idle">>,
   <<"OpenConfirm", "KeepAliveExpired", "ignore", "OpenConfirm">>,
   <<"OpenConfirm", "ReceiveKeepalive", "establish", "Established">>,
   <<"OpenConfirm", "ReceiveNotification", "stop", "Idle">>,
   <<"Established", "Start", "ignore", "Established">>,
   <<"Established", "Stop", "stop", "Idle">>,
   <<"Established", "Open", "stop", "Idle">>,
   <<"Established", "Closed", "stop", "Idle">>,
   <<"Established", "HoldExpired", "holdtime_expire", "Idle">>,
   <<"Established", "KeepAliveExpired", "keepalive_expire", "Established">>,
   <<"Established", "ReceiveOpen", "stop", "Idle">>,
   <<"Established", "ReceiveKeepalive", "received", "Established">>,
   <<"Established", "ReceiveUpdate", "received", "Established">>,
   <<"Established", "ReceiveNotification", "stop", "Idle">>}

FSM ==
  [s \in Status |-> [e \in Event |->
    IF \E row \in FsmRow : row[1] = s /\ row[2] = e
    THEN LET row == CHOOSE row \in FsmRow : row[1] = s /\ row[2] = e
         IN [func |-> row[3], next |-> row[4]]
    ELSE [func |-> "ignore", next |-> "Idle"]]]

(* bgp_timer_set: the timers that are on in each state.                    *)
TimersOf ==
  [Idle |-> {"start"}, Connect |-> {"connect"}, Active |-> {"connect"},
   OpenSent |-> {"hold"}, OpenConfirm |-> {"hold", "keepalive"},
   Established |-> {"hold", "keepalive"}]

-----------------------------------------------------------------------------
(***************************************************************************)
(* Connections.  `net' is a value of tcp.  A close gives up what TCP has   *)
(* not transmitted yet: up to `lost' of the last messages, never the       *)
(* acknowledgment that completes the handshake.  What is on its way to the *)
(* end that closes would be ignored when it arrives, and is dropped here.  *)
(***************************************************************************)
Unused(net) == {c \in Conn : \A r \in Router : net[c].state[r] = "none"}

NextConn(net) == CHOOSE c \in Unused(net) : \A d \in Unused(net) : c <= d

Shortened(msgs, lost) ==
  LET first == IF msgs # <<>> /\ Head(msgs) = "Up" THEN 1 ELSE 0
      kept == Len(msgs) - lost
  IN SubSeq(msgs, 1, IF kept < first THEN first ELSE kept)

Closed(t, r, lost) ==
  [state |-> [t.state EXCEPT ![r] = "closed"],
   wire |-> [q \in Router |->
     IF q # r /\ t.state[r] = "up" /\ t.state[q] # "closed"
     THEN Append(Shortened(t.wire[q], lost), "Fin")
     ELSE <<>>],
   m_msgs |-> t.m_msgs, accept |-> t.accept]

Close(net, r, c, lost) == [net EXCEPT ![c] = Closed(@, r, lost)]

\* Mutant: TCP is not told.
HangupOpen(net, r, c, lost) ==
  IF c = NoConn THEN net ELSE [net EXCEPT ![c].m_msgs = @ \ {r}]

(* What bgp_stop does to the connection of the peer.                       *)
Hangup(net, r, c, lost) ==
  IF c = NoConn THEN net
  ELSE Close([net EXCEPT ![c].m_msgs = @ \ {r}], r, c, lost)

CanSend(net, r, c) == net[c].state[r] = "up" /\ Other(r) \in net[c].m_msgs

(* sendMessage when it succeeds.                                           *)
Sent(net, r, c, m) == [net EXCEPT ![c].wire[Other(r)] = Append(@, m)]

-----------------------------------------------------------------------------
(***************************************************************************)
(* The functions of the table.  `s' has the peer and the connections.      *)
(***************************************************************************)
Queued(s, msgs) ==
  [p |-> [s.p EXCEPT !.obuf = @ \o msgs, !.t_write = TRUE], net |-> s.net]

\* Mutant: the output buffer is kept.
StoppedKeepsOutput(s, r, lost) ==
  [p |-> [s.p EXCEPT !.status = IF @ = "Established" THEN "Idle" ELSE @,
                     !.LocalAgent = NoConn, !.t_read = NoConn,
                     !.timers = {}, !.events = <<>>],
   net |-> Hangup(s.net, r, s.p.LocalAgent, lost)]

(* bgp_stop; t_write stays in the ready list.                              *)
Stopped(s, r, lost) ==
  [p |-> [s.p EXCEPT !.status = IF @ = "Established" THEN "Idle" ELSE @,
                     !.LocalAgent = NoConn, !.t_read = NoConn, !.obuf = <<>>,
                     !.timers = {}, !.events = <<>>],
   net |-> Hangup(s.net, r, s.p.LocalAgent, lost)]

\* Mutant: bgp_timer_set is not called.
FailedNoTimer(s, r, lost) ==
  LET done == Stopped(s, r, lost)
  IN [done EXCEPT !.p.status = "Idle"]

(* bgp_stop, then Idle and its timer: the end of bgp_write_notify and of a *)
(* bgp_write that fails.                                                   *)
Failed(s, r, lost) ==
  LET done == Stopped(s, r, lost)
  IN [p |-> [done.p EXCEPT !.status = "Idle", !.timers = TimersOf.Idle], net |-> done.net]

(* bgp_notify_send: the NOTIFICATION overtakes the output buffer.          *)
Notified(s, r, lost) ==
  LET c == s.p.LocalAgent
      net == IF CanSend(s.net, r, c) THEN Sent(s.net, r, c, "Notification") ELSE s.net
  IN Failed([p |-> [s.p EXCEPT !.t_write = FALSE], net |-> net], r, lost)

(* bgp_start and bgp_connect: a new connection and the list of messages at *)
(* its other end.  An old LocalAgent is forgotten; an old t_read stays.    *)
Started(s, r) ==
  LET c == NextConn(s.net)
  IN [p |-> [s.p EXCEPT !.LocalAgent = c, !.t_read = IF @ = NoConn THEN c ELSE @],
      net |-> [s.net EXCEPT ![c] =
                [state |-> [q \in Router |-> "opening"],
                 wire |-> [q \in Router |-> IF q = r THEN <<"Up">> ELSE <<>>],
                 m_msgs |-> {Other(r)}, accept |-> {Other(r)}]]]

\* Mutant: t_read is not turned on.
ListeningOff(s) == s

(* BGP_READ_ON.                                                            *)
Listening(s) ==
  [s EXCEPT !.p.t_read = IF @ = NoConn THEN s.p.LocalAgent ELSE @]

\* Mutant: the table is announced as soon as the OPEN has come in.
OpenedEarly(s) == Queued(s, <<"Update", "Keepalive">>)

(* fsm_open.                                                               *)
Opened(s) == Queued(s, <<"Keepalive">>)

Do(func, s, r, lost) ==
  CASE func = "start" -> Started(s, r)
    [] func = "reconnect" -> Started(Stopped(s, r, lost), r)
    [] func = "stop" -> Stopped(s, r, lost)
    [] func = "connect_success" -> Queued(Listening(s), <<"Open">>)
    [] func = "holdtime_expire" -> Notified(s, r, lost)
    [] func = "open" -> Opened(s)
    [] func = "keepalive_expire" -> Queued(s, <<"Keepalive">>)
    [] func = "establish" -> Queued(s, <<"Keepalive", "Update">>)
    [] func \in {"ignore", "received"} -> s

(* bgp_event.                                                              *)
Handled(s, r, event, lost) ==
  LET row == FSM[s.p.status][event]
      done == Do(row.func, s, r, lost)
  IN [p |-> [done.p EXCEPT !.status = row.next, !.timers = TimersOf[row.next]],
      net |-> done.net]

Connects(status, event) == FSM[status][event].func \in {"start", "reconnect"}

-----------------------------------------------------------------------------
(***************************************************************************)
(* The scheduler of r: events before anything else, then bgp_write, then   *)
(* interrupts.                                                             *)
(***************************************************************************)
NoEvent(r) ==
  peer[r].events = <<>> /\ \A c \in Conn : accepted[r][c] # "Active"

Waiting(r) == NoEvent(r) /\ ~peer[r].t_write

Here(r) == [p |-> peer[r], net |-> tcp]

Becomes(r, s) == peer' = [peer EXCEPT ![r] = s.p] /\ tcp' = s.net

Lost == 0..MaxLost

Use == used < MaxUse /\ used' = used + 1

PeerEvent(r) ==
  /\ peer[r].events # <<>>
  /\ LET s == [Here(r) EXCEPT !.p.events = Tail(@)]
         event == Head(peer[r].events)
     IN /\ IF Connects(peer[r].status, event) THEN Use ELSE UNCHANGED used
        /\ \E lost \in Lost : Becomes(r, Handled(s, r, event, lost))
  /\ UNCHANGED <<accepted, inbox>>

\* Mutant: the event is the one of the connect timer.
AcceptedEventRetry(r, c) ==
  /\ accepted[r][c] = "Active"
  /\ accepted' = [accepted EXCEPT ![r][c] = FSM["Active"]["ConnectRetry"].next]
  /\ UNCHANGED <<peer, inbox, tcp, used>>

(* TCP_connection_open of a temporary peer, which sends no OPEN.           *)
AcceptedEvent(r, c) ==
  /\ accepted[r][c] = "Active"
  /\ accepted' = [accepted EXCEPT ![r][c] = FSM["Active"]["Open"].next]
  /\ UNCHANGED <<peer, inbox, tcp, used>>

(* A timer of the peer expires.  The KEEPALIVE timer waits until the last  *)
(* KEEPALIVE has arrived, so that the queues stay short.                   *)
TimerEvent ==
  [start |-> "Start", connect |-> "ConnectRetry", hold |-> "HoldExpired",
   keepalive |-> "KeepAliveExpired"]

TimerExpires(r, t) ==
  /\ NoEvent(r)
  /\ t \in peer[r].timers
  /\ t = "keepalive" =>
       /\ peer[r].obuf = <<>>
       /\ tcp[peer[r].LocalAgent].wire[Other(r)] = <<>>
       /\ inbox[Other(r)] = <<>>
  /\ IF t = "hold" \/ Connects(peer[r].status, TimerEvent[t])
     THEN Use ELSE UNCHANGED used
  /\ LET s == [Here(r) EXCEPT !.p.timers = @ \ {t}]
     IN \E lost \in Lost : Becomes(r, Handled(s, r, TimerEvent[t], lost))
  /\ UNCHANGED <<accepted, inbox>>

(* fsm_holdtime_expire of a temporary peer: NOTIFICATION and peer_delete.  *)
AcceptedHoldExpires(r, c) ==
  /\ NoEvent(r)
  /\ accepted[r][c] = "OpenSent"
  /\ Use
  /\ \E lost \in Lost :
       tcp' = Hangup(IF CanSend(tcp, r, c) THEN Sent(tcp, r, c, "Notification") ELSE tcp,
                     r, c, lost)
  /\ accepted' = [accepted EXCEPT ![r][c] = "none"]
  /\ UNCHANGED <<peer, inbox>>

(* bgp_write.                                                              *)
Write(r) ==
  /\ NoEvent(r)
  /\ peer[r].t_write
  /\ LET s == [Here(r) EXCEPT !.p.t_write = FALSE]
         c == peer[r].LocalAgent
     IN \/ /\ peer[r].status = "Connect" \/ peer[r].obuf = <<>>
           /\ Becomes(r, s)
        \/ /\ peer[r].status # "Connect" /\ peer[r].obuf # <<>>
           /\ CanSend(tcp, r, c)
           /\ Becomes(r, [p |-> [s.p EXCEPT !.obuf = Tail(@),
                                            !.t_write = Len(peer[r].obuf) > 1],
                          net |-> Sent(tcp, r, c, Head(peer[r].obuf))])
        \/ /\ peer[r].status # "Connect" /\ peer[r].obuf # <<>>
           /\ ~CanSend(tcp, r, c)
           /\ \E lost \in Lost : Becomes(r, Failed(s, r, lost))
  /\ UNCHANGED <<accepted, inbox, used>>

-----------------------------------------------------------------------------
(***************************************************************************)
(* Interrupts.  The thread that waits for the connection reads what has    *)
(* come in; without one it is lost (thread_fetch_part2).                   *)
(***************************************************************************)
(* bgp_accept: no temporary peer if the configured one is Idle.            *)
Accept(r, c) ==
  /\ r \in tcp[c].accept
  /\ LET net == [tcp EXCEPT ![c].accept = {}]
     IN \/ /\ peer[r].status = "Idle"
           /\ \E lost \in Lost : tcp' = Close(net, r, c, lost)
           /\ UNCHANGED accepted
        \/ /\ peer[r].status # "Idle"
           /\ tcp' = [net EXCEPT ![c].m_msgs = @ \cup {Other(r)}]
           /\ accepted' = [accepted EXCEPT ![r][c] = "Active"]
  /\ UNCHANGED <<peer, used>>

(* bgp_collision_detect for an OPEN on connection c: 0 if there is no      *)
(* other peer in OpenSent or OpenConfirm.                                  *)
Collision(r, c) ==
  IF \/ \E d \in Conn \ {c} : accepted[r][d] = "OpenSent"
     \/ accepted[r][c] # "none" /\ peer[r].status \in {"OpenSent", "OpenConfirm"}
  THEN IF Id[r] < Id[Other(r)] THEN 1 ELSE -1
  ELSE 0

(* bgp_open_receive hands the connection of a temporary peer over to the   *)
(* configured one.                                                         *)
Transfers(r, c, m) ==
  /\ m = "Open"
  /\ \/ Collision(r, c) = 1
     \/ Collision(r, c) = 0 /\ peer[r].status \in {"Active", "OpenSent", "OpenConfirm"}

Transferred(s, r, c, lost) ==
  LET done == Stopped(s, r, lost)
      given == [p |-> [done.p EXCEPT !.LocalAgent = c, !.status = "OpenSent"],
                net |-> done.net]
      opened == Queued(given, <<"Open">>)
  IN IF s.net[c].state[r] = "up"
     THEN [Listening(opened) EXCEPT !.p.events = <<"ReceiveOpen">>]
     ELSE opened

(* The first and only bgp_read of a temporary peer; peer_delete follows.   *)
ReadAccepted(r, c, m) ==
  /\ accepted[r][c] = "OpenSent"
  /\ \E lost \in Lost :
       \/ Transfers(r, c, m) /\ Becomes(r, Transferred(Here(r), r, c, lost))
       \/ ~Transfers(r, c, m) /\ tcp' = Hangup(tcp, r, c, lost) /\ UNCHANGED peer
  /\ accepted' = [accepted EXCEPT ![r][c] = "none"]
  /\ UNCHANGED used

(* bgp_read in Connect: bgp_connect_check looks at the connection of the   *)
(* peer, whichever the thread waited for.                                  *)
ConnectCheck(r, c) ==
  /\ peer[r].t_read = c
  /\ peer[r].status = "Connect"
  /\ peer' = [peer EXCEPT
       ![r].t_read = NoConn,
       ![r].events = <<IF tcp[peer[r].LocalAgent].state[r] = "up" THEN "Open"
                       ELSE "OpenFailed">>]
  /\ UNCHANGED <<accepted, tcp, used>>

(* bgp_read of the configured peer.  An OPEN that loses a collision is     *)
(* ignored, and an UPDATE outside of Established answered with a           *)
(* NOTIFICATION.                                                           *)
ReadEvent ==
  [Zero |-> "Closed", Open |-> "ReceiveOpen", Keepalive |-> "ReceiveKeepalive",
   Update |-> "ReceiveUpdate", Notification |-> "ReceiveNotification"]

Read(r, c, m) ==
  /\ peer[r].t_read = c
  /\ peer[r].status # "Connect"
  /\ LET s == [Here(r) EXCEPT !.p.t_read = peer[r].LocalAgent]
     IN \/ /\ m = "Open" /\ Collision(r, c) = -1
           /\ Becomes(r, s)
        \/ /\ m = "Update" /\ peer[r].status # "Established"
           /\ \E lost \in Lost : Becomes(r, Notified(s, r, lost))
        \/ /\ m = "Open" => Collision(r, c) # -1
           /\ m = "Update" => peer[r].status = "Established"
           /\ Becomes(r, [s EXCEPT !.p.events = <<ReadEvent[m]>>])
  /\ UNCHANGED <<accepted, used>>

NoReader(r, c) ==
  r \notin tcp[c].accept /\ accepted[r][c] = "none" /\ peer[r].t_read # c

Ignore(r, c) ==
  /\ NoReader(r, c)
  /\ UNCHANGED <<peer, accepted, tcp, used>>

Interrupt(r) ==
  /\ Waiting(r)
  /\ inbox[r] # <<>>
  /\ inbox' = [inbox EXCEPT ![r] = Tail(@)]
  /\ LET c == Head(inbox[r])[1]
         m == Head(inbox[r])[2]
     IN \/ Accept(r, c)
        \/ ReadAccepted(r, c, m)
        \/ ConnectCheck(r, c)
        \/ Read(r, c, m)
        \/ Ignore(r, c)

-----------------------------------------------------------------------------
(***************************************************************************)
(* The network and the operator.                                           *)
(***************************************************************************)
\* The handshake of t is over for r, which acknowledges it if it has connected.
Joined(t, r) ==
  [state |-> [t.state EXCEPT ![r] = "up"],
   wire |-> [q \in Router |->
     IF q = r THEN Tail(t.wire[q])
     ELSE IF r \in t.accept THEN t.wire[q] ELSE Append(t.wire[q], "Up")],
   m_msgs |-> t.m_msgs, accept |-> t.accept]

(* Something arrives at r's end of c.  The end of a handshake or a FIN is  *)
(* an interrupt with no message (recvBytes(0)); a message needs a list     *)
(* (Bgp::recv).                                                            *)
Deliver(r, c) ==
  /\ tcp[c].wire[r] # <<>>
  /\ LET m == Head(tcp[c].wire[r])
         net == [tcp EXCEPT ![c].wire[r] = Tail(@)]
         told(x) == inbox' = [inbox EXCEPT ![r] = Append(@, <<c, x>>)]
     IN \/ /\ m = "Up" /\ tcp[c].state[r] = "opening"
           /\ tcp' = [tcp EXCEPT ![c] = Joined(@, r)]
           /\ told("Zero")
        \/ /\ m = "Fin" /\ tcp[c].state[r] = "up"
           /\ tcp' = [net EXCEPT ![c].state[r] = "closed"]
           /\ told("Zero")
        \/ /\ m \in Message /\ r \in tcp[c].m_msgs
           /\ tcp' = net
           /\ told(m)
  /\ UNCHANGED <<peer, accepted, used>>

(* `clear ip bgp'.                                                         *)
ClearBgp(r) ==
  /\ Use
  /\ peer' = [peer EXCEPT ![r].events = Append(@, "Stop")]
  /\ UNCHANGED <<accepted, inbox, tcp>>

Next ==
  \E r \in Router :
    \/ PeerEvent(r)
    \/ \E t \in Timer : TimerExpires(r, t)
    \/ Write(r)
    \/ Interrupt(r)
    \/ ClearBgp(r)
    \/ \E c \in Conn : AcceptedEvent(r, c) \/ AcceptedHoldExpires(r, c) \/ Deliver(r, c)

Spec == Init /\ [][Next]_vars

-----------------------------------------------------------------------------
(***************************************************************************)
(* Properties.                                                             *)
(***************************************************************************)
(* A router that has nothing to do has a timer on, so no session is given  *)
(* up: bgp_stop turns every timer off, and each of its callers has to see  *)
(* to it that bgp_timer_set runs later (11630, 14164, 13224).              *)
NeverStuck == \A r \in Router : Waiting(r) => peer[r].timers # {}

(* bgp_write and bgp_connect_check use LocalAgent without a test for NULL  *)
(* (13219, 14930): what waits in the output buffer, or waits for TCP, has  *)
(* a connection, although t_write and t_read can outlive one.              *)
UsesConnection ==
  \A r \in Router :
    peer[r].obuf # <<>> \/ peer[r].status = "Connect" => peer[r].LocalAgent # NoConn

Established(r) == peer[r].status = "Established"

(* The other end of an Established session has got as far as OpenConfirm   *)
(* on the same connection, or has closed it; it is not left behind by a    *)
(* transfer or a retry, with its end open (bgp_open_receive, bgp_connect). *)
NotOneSided ==
  \A r \in Router : Established(r) =>
    LET c == peer[r].LocalAgent
        q == Other(r)
    IN \/ peer[q].LocalAgent = c /\ peer[q].status \in {"OpenConfirm", "Established"}
       \/ tcp[c].state[q] = "closed"

(* An UPDATE is read in Established only: bgp_update_receive answers any   *)
(* other with a NOTIFICATION, which ends the session (14334).              *)
NoEarlyUpdate ==
  \A r \in Router, c \in Conn :
    /\ Waiting(r) /\ inbox[r] # <<>> /\ Head(inbox[r]) = <<c, "Update">>
    /\ peer[r].t_read = c
    => Established(r)

(* Whoever holds on to a connection that the other end has closed finds    *)
(* out: the FIN or its interrupt is on its way to a thread that reads it,  *)
(* or the event is queued, or bgp_write runs next and fails.  No interrupt *)
(* is consumed by a thread that does not act on it (37586, 14778), and a   *)
(* transfer from a temporary peer loses none (14164).                      *)
Told(r, c) ==
  \/ \E i \in 1..Len(tcp[c].wire[r]) : tcp[c].wire[r][i] = "Fin"
  \/ \E i \in 1..Len(inbox[r]) : inbox[r][i] = <<c, "Zero">>

Holds(r, c) ==
  peer[r].LocalAgent = c /\ peer[r].status \in {"OpenSent", "OpenConfirm", "Established"}

GoneIsKnown ==
  \A r \in Router, c \in Conn : tcp[c].state[Other(r)] = "closed" =>
    /\ accepted[r][c] = "OpenSent" => Told(r, c)
    /\ Holds(r, c) =>
         \/ peer[r].t_read = c /\ Told(r, c)
         \/ \E i \in 1..Len(peer[r].events) : peer[r].events[i] = "Closed"
         \/ peer[r].t_write /\ peer[r].obuf # <<>>
=============================================================================
