--------------------------- MODULE BgpFsm_proofs ---------------------------
EXTENDS BgpFsm, FiniteSetTheorems, SequenceTheorems, WellFoundedInduction, TLAPS

-----------------------------------------------------------------------------
(***************************************************************************)
(* The invariant, in parts about one connection `t', all connections       *)
(* `net', and one configured peer `p' of router r.                         *)
(***************************************************************************)
Net == [Conn -> TcpType]

\* The end of the handshake comes before anything else, and the end that connects
\* is up before the other one.
HandshakeFirst(t) ==
  \A r \in Router :
    /\ t.state[r] # "none" => t.state[Other(r)] # "none"
    /\ t.state[r] = "none" => t.wire[r] = <<>>
    /\ t.state[r] = "opening" /\ t.wire[r] # <<>> => Head(t.wire[r]) = "Up"
    /\ t.state[r] = "opening" /\ t.state[Other(r)] = "up" => t.wire[r] # <<>>
    /\ t.state[r] = "opening" /\ t.wire[r] # <<>> /\ r \in t.accept =>
         t.state[Other(r)] # "opening"

\* Connections are used in their order, so that there is one left for each use.
Fresh(net, n) == \A c \in Conn : c > n => \A r \in Router : net[c].state[r] = "none"

NetOK(net, n) == net \in Net /\ Fresh(net, n) /\ \A c \in Conn : HandshakeFirst(net[c])

\* A state that is left is never entered again.
Later(net, net2) ==
  \A c \in Conn, r \in Router :
    /\ net[c].state[r] # "none" => net2[c].state[r] # "none"
    /\ net[c].state[r] \in {"up", "closed"} => net2[c].state[r] \in {"up", "closed"}
    /\ net[c].state[r] = "closed" => net2[c].state[r] = "closed"

\* What needs a connection has one.
Down == {"Idle", "Active"}

Connected(p) ==
  p.obuf # <<>> \/ p.t_read # NoConn \/ p.status \notin Down => p.LocalAgent # NoConn

\* The connection of a peer has been opened.
InUse(p, net, r) == p.LocalAgent # NoConn => net[p.LocalAgent].state[r] # "none"

\* TCP_connection_open waits behind nothing, and there is a connection.
OpenIsNext(p) ==
  \A i \in 1..Len(p.events) : p.events[i] = "Open" => i = 1 /\ p.LocalAgent # NoConn

NoOpen(p) == \A i \in 1..Len(p.events) : p.events[i] # "Open"

\* Without a timer there is an event, or the write thread will fail.
Awake(p, net, r) ==
  p.timers = {} =>
    \/ p.events # <<>>
    \/ /\ p.t_write /\ p.obuf # <<>> /\ p.status # "Connect"
       /\ net[p.LocalAgent].state[r] = "closed"

PeerOK(p, net, r) ==
  p \in PeerType /\ Connected(p) /\ InUse(p, net, r)

PeerInv(r) ==
  PeerOK(peer[r], tcp, r) /\ OpenIsNext(peer[r]) /\ Awake(peer[r], tcp, r)

\* An interrupt or a temporary peer tells of a connection that has been up.
Reached(net, r, c) == net[c].state[r] \in {"up", "closed"}

InboxType == [Router -> Seq(Conn \X (Message \cup {"Zero"}))]

InboxOK(box, net) ==
  /\ box \in InboxType
  /\ \A r \in Router : \A i \in 1..Len(box[r]) : Reached(net, r, box[r][i][1])

AcceptedType == [Router -> [Conn -> {"none", "Active", "OpenSent"}]]

AcceptedOK(acc, net) ==
  /\ acc \in AcceptedType
  /\ \A r \in Router, c \in Conn : acc[r][c] # "none" => Reached(net, r, c)

IInv ==
  /\ used \in 0..MaxUse
  /\ peer \in [Router -> PeerType]
  /\ NetOK(tcp, used)
  /\ InboxOK(inbox, tcp)
  /\ AcceptedOK(accepted, tcp)
  /\ \A r \in Router : PeerInv(r)

-----------------------------------------------------------------------------
\* A set of numbers has a least one.
LEMMA Least ==
  ASSUME NEW S \in SUBSET Nat, S # {}
  PROVE  \E m \in S : \A n \in S : m <= n
<1>1. IsWellFoundedOn({ss \in Nat \X Nat : ss[1] < ss[2]}, Nat)
  BY NatLessThanWellFounded DEF OpToRel
<1>2. PICK m \in S : \A n \in S : ~(<<n, m>> \in {ss \in Nat \X Nat : ss[1] < ss[2]})
  BY <1>1, WFMin
<1>3. \A n \in S : ~(n < m)
  BY <1>2
<1> QED
  BY <1>3

\* There are two routers.
LEMMA Others ==
  ASSUME NEW r \in Router
  PROVE  /\ Other(r) \in Router /\ Other(r) # r /\ Other(Other(r)) = r
         /\ \A q \in Router : q = r \/ q = Other(r)
<1>1. IsFiniteSet(Router \ {r}) /\ Cardinality(Router \ {r}) = 1
  BY RouterAssumption, FS_RemoveElement
<1>2. PICK q : Router \ {r} = {q}
  BY <1>1, FS_Singleton
<1>3. Other(r) = q
  BY <1>2 DEF Other
<1>4. Other(q) = r
  BY <1>2 DEF Other
<1> QED
  BY <1>2, <1>3, <1>4

-----------------------------------------------------------------------------
\* Every row of the table has its types, and what the proof needs of it: after
\* a stop there is no session, and who sends has got as far as OpenSent.
Func ==
  {"start", "reconnect", "stop", "connect_success", "holdtime_expire", "open",
   "keepalive_expire", "establish", "ignore", "received"}

Sound(s, e, func, next) ==
  /\ func \in Func /\ next \in Status
  /\ func \in {"stop", "holdtime_expire"} => next \in Down
  /\ func = "connect_success" => e = "Open"
  /\ func \in {"open", "keepalive_expire", "establish", "holdtime_expire"} => s \notin Down
  /\ func \in {"ignore", "received"} => next \in Down \/ next = s

\* So is every row of the table.
LEMMA FsmRows ==
  ASSUME NEW row \in FsmRow
  PROVE  Sound(row[1], row[2], row[3], row[4])
BY DEF FsmRow, Sound, Func, Down, Status

\* So does every entry of FSM.
LEMMA FsmSound ==
  ASSUME NEW s \in Status, NEW e \in Event
  PROVE  Sound(s, e, FSM[s][e].func, FSM[s][e].next)
<1> DEFINE here(row) == row[1] = s /\ row[2] = e
           pick == CHOOSE row \in FsmRow : here(row)
<1>1. FSM[s][e] = IF \E row \in FsmRow : here(row)
                  THEN [func |-> pick[3], next |-> pick[4]]
                  ELSE [func |-> "ignore", next |-> "Idle"]
  BY DEF FSM
<1>2. CASE \E row \in FsmRow : here(row)
  <2>1. pick \in FsmRow /\ here(pick)
    BY <1>2
  <2>2. Sound(pick[1], pick[2], pick[3], pick[4])
    BY <2>1, FsmRows
  <2>3. FSM[s][e].func = pick[3] /\ FSM[s][e].next = pick[4]
    BY <1>1, <1>2
  <2>4. pick[1] = s /\ pick[2] = e
    BY <2>1
  <2> QED
    BY <2>2, <2>3, <2>4
<1>3. CASE ~\E row \in FsmRow : here(row)
  <2>1. FSM[s][e] = [func |-> "ignore", next |-> "Idle"]
    BY <1>1, <1>3
  <2> QED
    BY <2>1 DEF Sound, Func, Down, Status
<1> QED
  BY <1>2, <1>3

\* Every state has a timer.
LEMMA TimersOfType ==
  ASSUME NEW s \in Status
  PROVE  TimersOf[s] \in SUBSET Timer /\ TimersOf[s] # {}
BY DEF Status, TimersOf, Timer

-----------------------------------------------------------------------------
(***************************************************************************)
(* One connection.                                                         *)
(***************************************************************************)
Sides == {"none", "opening", "up", "closed"}

ConnOK(t) == t \in TcpType /\ HandshakeFirst(t)

\* What a step may do to a connection that is open already.
ConnStep(t, t2) ==
  /\ ConnOK(t2)
  /\ \A q \in Router :
       /\ t.state[q] = "none" <=> t2.state[q] = "none"
       /\ t.state[q] \in {"up", "closed"} => t2.state[q] \in {"up", "closed"}
       /\ t.state[q] = "closed" => t2.state[q] = "closed"

\* A connection of its type, and its parts.
LEMMA ConnParts ==
  ASSUME NEW t \in TcpType, NEW q \in Router
  PROVE  /\ t.state \in [Router -> Sides]
         /\ t.wire \in [Router -> Seq(Message \cup {"Up", "Fin"})]
         /\ t.state[q] \in Sides /\ t.wire[q] \in Seq(Message \cup {"Up", "Fin"})
         /\ t.m_msgs \in SUBSET Router /\ t.accept \in SUBSET Router
BY DEF TcpType, Sides

\* The parts say the whole.
LEMMA ConnOf ==
  ASSUME NEW state \in [Router -> Sides],
         NEW wire \in [Router -> Seq(Message \cup {"Up", "Fin"})],
         NEW m_msgs \in SUBSET Router, NEW accept \in SUBSET Router
  PROVE  [state |-> state, wire |-> wire, m_msgs |-> m_msgs, accept |-> accept] \in TcpType
BY DEF TcpType, Sides

\* The head of a sequence.
LEMMA HeadIsFirst ==
  ASSUME NEW S, NEW s \in Seq(S), Len(s) >= 1
  PROVE  s # <<>> /\ Head(s) = s[1]
OBVIOUS

\* A close keeps what completes the handshake.
LEMMA ShortenedKeepsUp ==
  ASSUME NEW msgs \in Seq(Message \cup {"Up", "Fin"}), NEW lost \in Nat
  PROVE  /\ Shortened(msgs, lost) \in Seq(Message \cup {"Up", "Fin"})
         /\ (msgs # <<>> /\ Head(msgs) = "Up") =>
              (Shortened(msgs, lost) # <<>> /\ Head(Shortened(msgs, lost)) = "Up")
<1> DEFINE first == IF msgs # <<>> /\ Head(msgs) = "Up" THEN 1 ELSE 0
           kept == Len(msgs) - lost
           n == IF kept < first THEN first ELSE kept
<1>1. Shortened(msgs, lost) = SubSeq(msgs, 1, n)
  BY DEF Shortened
<1>2. Len(msgs) \in Nat /\ first \in {0, 1} /\ (first = 1 => Len(msgs) >= 1)
  OBVIOUS
<1> HIDE DEF first
<1>3. n \in Nat /\ n <= Len(msgs) /\ first <= n
  BY <1>2
<1> HIDE DEF n, kept
<1>4. \A i \in 1..n : i \in 1..Len(msgs) /\ msgs[i] \in Message \cup {"Up", "Fin"}
  BY <1>2, <1>3
<1>5. SubSeq(msgs, 1, n) \in Seq(Message \cup {"Up", "Fin"})
  BY <1>3, <1>4
<1>6. ASSUME msgs # <<>>, Head(msgs) = "Up"
      PROVE  SubSeq(msgs, 1, n) # <<>> /\ Head(SubSeq(msgs, 1, n)) = "Up"
  <2>1. n >= 1
    BY <1>6, <1>3 DEF first
  <2>2. Len(SubSeq(msgs, 1, n)) = n /\ SubSeq(msgs, 1, n)[1] = msgs[1]
    BY <2>1, <1>3
  <2>3. msgs[1] = "Up"
    BY <1>6
  <2> QED
    BY <2>1, <2>2, <2>3, <1>5, HeadIsFirst
<1> QED
  BY <1>1, <1>5, <1>6

\* What Close makes of its connection.
LEMMA ClosedStep ==
  ASSUME NEW t, ConnOK(t), NEW r \in Router, t.state[r] # "none", NEW lost \in Nat
  PROVE  ConnStep(t, Closed(t, r, lost))
<1> DEFINE t2 == Closed(t, r, lost)
<1>1. /\ t2.state = [t.state EXCEPT ![r] = "closed"]
      /\ t2.accept = t.accept /\ t2.m_msgs = t.m_msgs
      /\ t2.wire = [q \in Router |->
                     IF q # r /\ t.state[r] = "up" /\ t.state[q] # "closed"
                     THEN Append(Shortened(t.wire[q], lost), "Fin") ELSE <<>>]
      /\ t2 = [state |-> t2.state, wire |-> t2.wire, m_msgs |-> t2.m_msgs,
               accept |-> t2.accept]
  BY DEF Closed
<1> HIDE DEF t2
<1>2. t \in TcpType /\ HandshakeFirst(t)
  BY DEF ConnOK
<1>3. \A q \in Router : /\ t.wire[q] \in Seq(Message \cup {"Up", "Fin"})
                        /\ t.state[q] \in Sides
  BY <1>2, ConnParts
<1>4. \A q \in Router : Append(Shortened(t.wire[q], lost), "Fin")
                          \in Seq(Message \cup {"Up", "Fin"})
  BY <1>3, ShortenedKeepsUp
<1>5. t2 \in TcpType
  <2>1. t2.wire \in [Router -> Seq(Message \cup {"Up", "Fin"})]
    BY <1>1, <1>4
  <2>2. t2.state \in [Router -> Sides]
    BY <1>1, <1>2, ConnParts DEF Sides
  <2>3. t2.m_msgs \in SUBSET Router /\ t2.accept \in SUBSET Router
    BY <1>1, <1>2, ConnParts
  <2>4. [state |-> t2.state, wire |-> t2.wire, m_msgs |-> t2.m_msgs,
         accept |-> t2.accept] \in TcpType
    BY <2>1, <2>2, <2>3, ConnOf
  <2> QED
    BY <2>4, <1>1
<1>6. \A q \in Router : t2.state[q] = IF q = r THEN "closed" ELSE t.state[q]
  BY <1>1, <1>2, ConnParts
<1>7. HandshakeFirst(t2)
  <2> SUFFICES ASSUME NEW q \in Router
               PROVE  /\ t2.state[q] # "none" => t2.state[Other(q)] # "none"
                      /\ t2.state[q] = "none" => t2.wire[q] = <<>>
                      /\ t2.state[q] = "opening" /\ t2.wire[q] # <<>> => Head(t2.wire[q]) = "Up"
                      /\ t2.state[q] = "opening" /\ t2.state[Other(q)] = "up" => t2.wire[q] # <<>>
                      /\ t2.state[q] = "opening" /\ t2.wire[q] # <<>> /\ q \in t2.accept =>
                           t2.state[Other(q)] # "opening"
    BY DEF HandshakeFirst
  <2>1. Other(q) \in Router /\ Other(q) # q /\ (q = r \/ Other(q) = r)
    BY Others
  <2>2. t.state[Other(r)] # "none"
    BY <1>2 DEF HandshakeFirst
  <2>3. q # r => t.state[q] # "none"
    BY <2>1, <2>2, Others
  <2>4. t2.state[q] # "none" /\ t2.state[Other(q)] # "none"
    BY <2>1, <2>2, <2>3, <1>6, Others
  <2>5. t2.state[q] = "opening" => q # r /\ t2.state[Other(q)] = "closed" /\ t.state[q] = "opening"
    BY <2>1, <1>6
  <2>6. t2.state[q] = "opening" /\ t2.wire[q] # <<>> => Head(t2.wire[q]) = "Up"
    <3> HAVE t2.state[q] = "opening" /\ t2.wire[q] # <<>>
    <3>1. q # r /\ t.state[r] = "up" /\ t2.wire[q] = Append(Shortened(t.wire[q], lost), "Fin")
      BY <1>1, <2>5
    <3>2. t.state[q] = "opening" /\ Other(q) = r
      BY <2>1, <2>5, <3>1
    <3>3. t.wire[q] # <<>> /\ Head(t.wire[q]) = "Up"
      BY <1>2, <3>1, <3>2 DEF HandshakeFirst
    <3>4. /\ Shortened(t.wire[q], lost) \in Seq(Message \cup {"Up", "Fin"})
          /\ Shortened(t.wire[q], lost) # <<>> /\ Head(Shortened(t.wire[q], lost)) = "Up"
      BY <3>3, <1>3, ShortenedKeepsUp
    <3> QED
      BY <3>1, <3>4
  <2> QED
    BY <2>4, <2>5, <2>6
<1>8. \A q \in Router :
       /\ t.state[q] = "none" <=> t2.state[q] = "none"
       /\ t.state[q] \in {"up", "closed"} => t2.state[q] \in {"up", "closed"}
       /\ t.state[q] = "closed" => t2.state[q] = "closed"
  BY <1>6
<1> QED
  BY <1>5, <1>7, <1>8 DEF ConnStep, ConnOK, t2

\* The lists of messages and the accepting thread are no part of the handshake,
\* when the thread only goes.
LEMMA ListsStep ==
  ASSUME NEW t, ConnOK(t), NEW m \in SUBSET Router, NEW a \in SUBSET t.accept
  PROVE  ConnStep(t, [state |-> t.state, wire |-> t.wire, m_msgs |-> m, accept |-> a])
<1>1. t \in TcpType
  BY DEF ConnOK
<1>2. [state |-> t.state, wire |-> t.wire, m_msgs |-> m, accept |-> a] \in TcpType
  BY <1>1 DEF TcpType
<1> QED
  BY <1>2 DEF ConnStep, ConnOK, HandshakeFirst

\* A message that is sent is behind the end of the handshake.
SentOn(t, r, m) ==
  [state |-> t.state, wire |-> [t.wire EXCEPT ![Other(r)] = Append(@, m)],
   m_msgs |-> t.m_msgs, accept |-> t.accept]

\* A message that is sent keeps the connection in order.
LEMMA SentStep ==
  ASSUME NEW t, ConnOK(t), NEW r \in Router, t.state[r] = "up", NEW m \in Message
  PROVE  ConnStep(t, SentOn(t, r, m))
<1> DEFINE t2 == SentOn(t, r, m)
<1>1. /\ t2.state = t.state /\ t2.accept = t.accept /\ t2.m_msgs = t.m_msgs
      /\ t2.wire = [t.wire EXCEPT ![Other(r)] = Append(@, m)]
      /\ t2 = [state |-> t2.state, wire |-> t2.wire, m_msgs |-> t2.m_msgs,
               accept |-> t2.accept]
  BY DEF SentOn
<1> HIDE DEF t2
<1>2. t \in TcpType /\ HandshakeFirst(t)
  BY DEF ConnOK
<1>3. t.wire \in [Router -> Seq(Message \cup {"Up", "Fin"})]
  BY <1>2, ConnParts
<1>4. Other(r) \in Router /\ Other(r) # r
  BY Others
<1>5. t2 \in TcpType
  <2>1. Append(t.wire[Other(r)], m) \in Seq(Message \cup {"Up", "Fin"})
    BY <1>3, <1>4
  <2>2. t2.wire \in [Router -> Seq(Message \cup {"Up", "Fin"})]
    BY <1>1, <1>3, <1>4, <2>1
  <2>3. t2.state \in [Router -> Sides] /\ t2.m_msgs \in SUBSET Router
        /\ t2.accept \in SUBSET Router
    BY <1>1, <1>2, ConnParts
  <2>4. [state |-> t2.state, wire |-> t2.wire, m_msgs |-> t2.m_msgs,
         accept |-> t2.accept] \in TcpType
    BY <2>2, <2>3, ConnOf
  <2> QED
    BY <2>4, <1>1
<1>6. \A q \in Router : t2.wire[q] = IF q = Other(r) THEN Append(t.wire[q], m) ELSE t.wire[q]
  BY <1>1, <1>3
<1>7. HandshakeFirst(t2)
  <2> SUFFICES ASSUME NEW q \in Router
               PROVE  /\ t2.state[q] # "none" => t2.state[Other(q)] # "none"
                      /\ t2.state[q] = "none" => t2.wire[q] = <<>>
                      /\ t2.state[q] = "opening" /\ t2.wire[q] # <<>> => Head(t2.wire[q]) = "Up"
                      /\ t2.state[q] = "opening" /\ t2.state[Other(q)] = "up" => t2.wire[q] # <<>>
                      /\ t2.state[q] = "opening" /\ t2.wire[q] # <<>> /\ q \in t2.accept =>
                           t2.state[Other(q)] # "opening"
    BY DEF HandshakeFirst
  <2>1. CASE q = r
    BY <1>1, <1>2, <1>4, <1>6, <2>1 DEF HandshakeFirst
  <2>2. CASE q = Other(r)
    <3>1. Other(q) = r /\ t.state[q] # "none" /\ t.wire[q] \in Seq(Message \cup {"Up", "Fin"})
      BY <1>2, <1>3, <1>4, <2>2, Others DEF HandshakeFirst
    <3>2. t.state[q] = "opening" => t.wire[q] # <<>> /\ Head(t.wire[q]) = "Up"
      BY <1>2, <3>1 DEF HandshakeFirst
    <3>3. t2.wire[q] = Append(t.wire[q], m)
      BY <1>6, <2>2
    <3>4. t2.wire[q] # <<>> /\ (t.wire[q] # <<>> => Head(t2.wire[q]) = Head(t.wire[q]))
      BY <3>1, <3>3
    <3> QED
      BY <1>1, <3>1, <3>2, <3>4
  <2> QED
    BY <2>1, <2>2, Others
<1> QED
  BY <1>1, <1>5, <1>7 DEF ConnStep, ConnOK, t2

-----------------------------------------------------------------------------
(***************************************************************************)
(* All connections.                                                        *)
(***************************************************************************)
\* A step of the connections: they stay as they should be, and none is entered
\* again.
NetStep(net, net2, n) == NetOK(net2, n) /\ Later(net, net2)

Put(net, c, t) == [net EXCEPT ![c] = t]

\* A connection of its type with another list of messages, or another wire.
LEMMA PutLists ==
  ASSUME NEW t \in TcpType, NEW m, NEW w
  PROVE  /\ [t EXCEPT !.m_msgs = m] =
              [state |-> t.state, wire |-> t.wire, m_msgs |-> m, accept |-> t.accept]
         /\ [t EXCEPT !.wire = w] =
              [state |-> t.state, wire |-> w, m_msgs |-> t.m_msgs, accept |-> t.accept]
         /\ [t EXCEPT !.state = m] =
              [state |-> m, wire |-> t.wire, m_msgs |-> t.m_msgs, accept |-> t.accept]
         /\ [t EXCEPT !.accept = m] =
              [state |-> t.state, wire |-> t.wire, m_msgs |-> t.m_msgs, accept |-> m]
BY DEF TcpType

\* A connection steps, the others stay.
LEMMA OneSteps ==
  ASSUME NEW n \in Nat, NEW net, NetOK(net, n), NEW c \in Conn, NEW t2, ConnStep(net[c], t2),
         NEW net2, net2 = Put(net, c, t2)
  PROVE  NetStep(net, net2, n) /\ net2[c] = t2 /\ \A d \in Conn : d # c => net2[d] = net[d]
<1>1. net \in [Conn -> TcpType] /\ t2 \in TcpType
  BY DEF NetOK, Net, ConnStep, ConnOK
<1>2. net2 \in [Conn -> TcpType] /\ net2[c] = t2 /\ \A d \in Conn : d # c => net2[d] = net[d]
  BY <1>1 DEF Put
<1>3. \A d \in Conn : HandshakeFirst(net2[d])
  BY <1>2 DEF NetOK, ConnStep, ConnOK
<1>4. Fresh(net2, n)
  <2> SUFFICES ASSUME NEW d \in Conn, d > n, NEW q \in Router
               PROVE  net2[d].state[q] = "none"
    BY DEF Fresh
  <2>1. net[d].state[q] = "none"
    BY DEF NetOK, Fresh
  <2> QED
    BY <2>1, <1>2 DEF ConnStep
<1>5. Later(net, net2)
  <2> SUFFICES ASSUME NEW d \in Conn, NEW q \in Router
               PROVE  /\ net[d].state[q] # "none" => net2[d].state[q] # "none"
                      /\ net[d].state[q] \in {"up", "closed"} =>
                           net2[d].state[q] \in {"up", "closed"}
                      /\ net[d].state[q] = "closed" => net2[d].state[q] = "closed"
    BY DEF Later
  <2>1. CASE d = c
    BY <2>1, <1>2 DEF ConnStep
  <2>2. CASE d # c
    BY <2>2, <1>2
  <2> QED
    BY <2>1, <2>2
<1> QED
  BY <1>2, <1>3, <1>4, <1>5 DEF NetStep, NetOK, Net

\* Steps follow one another.
LEMMA StepsFollow ==
  ASSUME NEW n, NEW net, NEW net2, NEW net3, Later(net, net2), NetStep(net2, net3, n)
  PROVE  NetStep(net, net3, n)
BY DEF NetStep, Later

\* Nothing happens to the connections.
LEMMA NoStep ==
  ASSUME NEW n, NEW net, NetOK(net, n)
  PROVE  NetStep(net, net, n)
BY DEF NetStep, Later

\* A connection that has been opened is as it should be.
LEMMA ConnIsOK ==
  ASSUME NEW n \in Nat, NEW net, NetOK(net, n), NEW c \in Conn
  PROVE  ConnOK(net[c])
BY DEF NetOK, Net, ConnOK

\* Close, Hangup and sendMessage are steps.
LEMMA CloseStep ==
  ASSUME NEW n \in Nat, NEW net, NetOK(net, n), NEW r \in Router, NEW c \in Conn,
         net[c].state[r] # "none", NEW lost \in Nat
  PROVE  /\ NetStep(net, Close(net, r, c, lost), n)
         /\ Close(net, r, c, lost)[c].state[r] = "closed"
<1> DEFINE t2 == Closed(net[c], r, lost)
<1>1. ConnStep(net[c], t2)
  BY ConnIsOK, ClosedStep
<1>2. t2.state[r] = "closed"
  <2>1. net[c].state \in [Router -> Sides]
    BY ConnIsOK, ConnParts DEF ConnOK
  <2> QED
    BY <2>1 DEF Closed
<1>3. Close(net, r, c, lost) = Put(net, c, t2)
  BY DEF Close, Put
<1> HIDE DEF t2
<1> QED
  BY <1>1, <1>2, <1>3, OneSteps

\* What bgp_stop does to a connection is a step, and closes it.
LEMMA HangupStep ==
  ASSUME NEW n \in Nat, NEW net, NetOK(net, n), NEW r \in Router, NEW c \in Conn \cup {NoConn},
         c # NoConn => net[c].state[r] # "none", NEW lost \in Nat
  PROVE  /\ NetStep(net, Hangup(net, r, c, lost), n)
         /\ c # NoConn => Hangup(net, r, c, lost)[c].state[r] = "closed"
<1>1. CASE c = NoConn
  BY <1>1, NoStep DEF Hangup
<1>2. CASE c # NoConn
  <2>1. c \in Conn
    BY <1>2
  <2> DEFINE t2 == [state |-> net[c].state, wire |-> net[c].wire,
                    m_msgs |-> net[c].m_msgs \ {r}, accept |-> net[c].accept]
             net2 == [net EXCEPT ![c].m_msgs = @ \ {r}]
  <2>2. net[c] \in TcpType /\ net \in [Conn -> TcpType]
    BY <2>1 DEF NetOK, Net
  <2>3. net2 = Put(net, c, t2)
    <3>1. t2 = [net[c] EXCEPT !.m_msgs = net[c].m_msgs \ {r}]
      BY <2>2, PutLists
    <3>2. net2 = [net EXCEPT ![c] = [net[c] EXCEPT !.m_msgs = net[c].m_msgs \ {r}]]
      BY DEF net2
    <3> HIDE DEF t2, net2
    <3> QED
      BY <3>1, <3>2 DEF Put
  <2>4. ConnStep(net[c], t2)
    BY <2>1, <2>2, ConnIsOK, ListsStep, ConnParts
  <2>5. t2.state = net[c].state
    OBVIOUS
  <2>6. Hangup(net, r, c, lost) = Close(net2, r, c, lost)
    BY <1>2 DEF Hangup
  <2> HIDE DEF t2, net2
  <2>7. NetStep(net, net2, n) /\ net2[c] = t2
    BY <2>1, <2>3, <2>4, OneSteps
  <2>8. NetOK(net2, n) /\ Later(net, net2) /\ net2[c].state[r] # "none"
    BY <1>2, <2>5, <2>7 DEF NetStep
  <2>9. /\ NetStep(net2, Close(net2, r, c, lost), n)
        /\ Close(net2, r, c, lost)[c].state[r] = "closed"
    BY <2>1, <2>8, CloseStep
  <2> QED
    BY <2>6, <2>8, <2>9, StepsFollow
<1> QED
  BY <1>1, <1>2

\* sendMessage is a step.
LEMMA SendStep ==
  ASSUME NEW n \in Nat, NEW net, NetOK(net, n), NEW r \in Router, NEW c \in Conn,
         net[c].state[r] = "up", NEW m \in Message
  PROVE  NetStep(net, Sent(net, r, c, m), n) /\ Sent(net, r, c, m)[c].state = net[c].state
<1> DEFINE t2 == SentOn(net[c], r, m)
<1>1. net[c] \in TcpType /\ net \in [Conn -> TcpType] /\ Other(r) \in Router
  BY Others DEF NetOK, Net
<1>2. Sent(net, r, c, m) = Put(net, c, t2)
  <2> DEFINE w == [net[c].wire EXCEPT ![Other(r)] = Append(@, m)]
  <2>1. t2 = [net[c] EXCEPT !.wire = w]
    BY <1>1, PutLists DEF SentOn
  <2>2. Sent(net, r, c, m) = [net EXCEPT ![c] = [net[c] EXCEPT !.wire = w]]
    BY DEF Sent
  <2> HIDE DEF t2, w
  <2> QED
    BY <2>1, <2>2 DEF Put
<1>3. ConnStep(net[c], t2) /\ t2.state = net[c].state
  BY ConnIsOK, SentStep DEF SentOn
<1> HIDE DEF t2
<1> QED
  BY <1>2, <1>3, OneSteps

\* There is a connection left for each use.
LEMMA LeastUnused ==
  ASSUME NEW n \in Nat, NEW net, NetOK(net, n), n < MaxUse,
         NEW c, c = NextConn(net)
  PROVE  c \in Conn /\ c <= n + 1 /\ \A q \in Router : net[c].state[q] = "none"
<1>1. MaxUse \in Nat /\ Conn \subseteq Nat /\ n + 1 \in Conn
  BY BoundsAssumption DEF Conn
<1>2. n + 1 \in Unused(net)
  BY <1>1 DEF Unused, NetOK, Fresh
<1>3. Unused(net) \in SUBSET Nat /\ Unused(net) # {}
  BY <1>1, <1>2 DEF Unused
<1>4. \E m \in Unused(net) : \A d \in Unused(net) : m <= d
  BY <1>3, Least
<1>5. c \in Unused(net) /\ \A d \in Unused(net) : c <= d
  BY <1>4 DEF NextConn
<1> QED
  BY <1>2, <1>5 DEF Unused

\* A new connection.
Opening(r) ==
  [state |-> [q \in Router |-> "opening"],
   wire |-> [q \in Router |-> IF q = r THEN <<"Up">> ELSE <<>>],
   m_msgs |-> {Other(r)}, accept |-> {Other(r)}]

\* A new connection is as it should be.
LEMMA OpeningOK ==
  ASSUME NEW r \in Router
  PROVE  ConnOK(Opening(r)) /\ \A q \in Router : Opening(r).state[q] = "opening"
<1> DEFINE t == Opening(r)
<1>1. /\ t.state = [q \in Router |-> "opening"]
      /\ t.wire = [q \in Router |-> IF q = r THEN <<"Up">> ELSE <<>>]
      /\ t.accept = {Other(r)} /\ t.m_msgs = {Other(r)}
  BY DEF Opening
<1>2. \A q \in Router : t.state[q] = "opening" /\ t.wire[q] = IF q = r THEN <<"Up">> ELSE <<>>
  BY <1>1
<1>3. t \in TcpType
  <2>1. <<"Up">> \in Seq(Message \cup {"Up", "Fin"}) /\ <<>> \in Seq(Message \cup {"Up", "Fin"})
    OBVIOUS
  <2>2. {Other(r)} \in SUBSET Router
    BY Others
  <2> QED
    BY <2>1, <2>2 DEF Opening, TcpType
<1> HIDE DEF t
<1>4. HandshakeFirst(t)
  <2>1. \A q \in Router : Other(q) \in Router
    BY Others
  <2>2. Head(<<"Up">>) = "Up" /\ <<"Up">> # <<>>
    OBVIOUS
  <2>3. \A q \in Router : t.state[Other(q)] = "opening"
    BY <1>2, <2>1
  <2>4. Other(r) # r
    BY Others
  <2>5. \A q \in Router : t.wire[q] # <<>> => (q = r /\ Head(t.wire[q]) = "Up")
    BY <1>2, <2>2
  <2>6. \A q \in Router : t.wire[q] # <<>> => ~(q \in t.accept)
    BY <1>1, <2>4, <2>5
  <2> QED
    BY <1>2, <2>3, <2>5, <2>6 DEF HandshakeFirst
<1> QED
  BY <1>2, <1>3, <1>4 DEF ConnOK, t

\* A new connection is a step of all of them.
LEMMA OpeningStep ==
  ASSUME NEW n \in Nat, NEW net, NetOK(net, n), NEW r \in Router, NEW c \in Conn, c <= n + 1,
         \A q \in Router : net[c].state[q] = "none",
         NEW net2, net2 = Put(net, c, Opening(r))
  PROVE  NetStep(net, net2, n + 1) /\ net2[c].state[r] = "opening"
<1>1. net \in [Conn -> TcpType] /\ Opening(r) \in TcpType
  BY OpeningOK DEF NetOK, Net, ConnOK
<1>2. net2 \in [Conn -> TcpType] /\ net2[c] = Opening(r) /\ \A d \in Conn : d # c => net2[d] = net[d]
  BY <1>1 DEF Put
<1>3. \A d \in Conn : HandshakeFirst(net2[d])
  BY <1>2, OpeningOK DEF NetOK, ConnOK
<1>4. Fresh(net2, n + 1)
  <2> SUFFICES ASSUME NEW d \in Conn, d > n + 1, NEW q \in Router
               PROVE  net2[d].state[q] = "none"
    BY DEF Fresh
  <2>1. d \in Nat /\ c \in Nat
    BY BoundsAssumption DEF Conn
  <2>2. d > n /\ d # c
    BY <2>1
  <2> QED
    BY <2>2, <1>2 DEF NetOK, Fresh
<1>5. Later(net, net2)
  <2> SUFFICES ASSUME NEW d \in Conn, NEW q \in Router
               PROVE  /\ net[d].state[q] # "none" => net2[d].state[q] # "none"
                      /\ net[d].state[q] \in {"up", "closed"} =>
                           net2[d].state[q] \in {"up", "closed"}
                      /\ net[d].state[q] = "closed" => net2[d].state[q] = "closed"
    BY DEF Later
  <2> QED
    BY <1>2
<1> QED
  BY <1>2, <1>3, <1>4, <1>5, OpeningOK DEF NetStep, NetOK, Net

-----------------------------------------------------------------------------
(***************************************************************************)
(* One peer, and what the updates of the model make of it.                 *)
(***************************************************************************)
MaybeConn == Conn \cup {NoConn}

Both(p, net) == [p |-> p, net |-> net]

\* A peer of its type, and its parts.
LEMMA PeerParts ==
  ASSUME NEW p \in PeerType
  PROVE  /\ p.status \in Status /\ p.LocalAgent \in MaybeConn /\ p.t_read \in MaybeConn
         /\ p.t_write \in BOOLEAN /\ p.obuf \in Seq(Message) /\ p.timers \in SUBSET Timer
         /\ p.events \in Seq(Event)
BY DEF PeerType, MaybeConn

\* A peer and the connections, taken apart.
LEMMA BothIs ==
  ASSUME NEW p, NEW net
  PROVE  Both(p, net).p = p /\ Both(p, net).net = net
BY DEF Both

\* Output is queued, and nothing else.
LEMMA QueuedIs ==
  ASSUME NEW p \in PeerType, NEW net, NEW msgs \in Seq(Message),
         NEW d, d = Queued(Both(p, net), msgs)
  PROVE  /\ d.p \in PeerType /\ d.p.t_write
         /\ d.p.status = p.status /\ d.p.LocalAgent = p.LocalAgent /\ d.p.t_read = p.t_read
         /\ d.p.timers = p.timers /\ d.p.events = p.events
         /\ d.net = net
<1>1. d.p = [p EXCEPT !.obuf = @ \o msgs, !.t_write = TRUE]
  BY DEF Queued, Both
<1>2. d.net = net
  BY DEF Queued, Both
<1>3. p.obuf \o msgs \in Seq(Message)
  BY PeerParts
<1> QED
  BY <1>1, <1>2, <1>3 DEF PeerType

\* BGP_READ_ON sets t_read only.
LEMMA ListeningIs ==
  ASSUME NEW p \in PeerType, NEW net, NEW d, d = Listening(Both(p, net))
  PROVE  /\ d.p \in PeerType /\ d.p.t_read = IF p.t_read = NoConn THEN p.LocalAgent ELSE p.t_read
         /\ d.p.status = p.status /\ d.p.LocalAgent = p.LocalAgent /\ d.p.obuf = p.obuf
         /\ d.p.t_write = p.t_write /\ d.p.timers = p.timers /\ d.p.events = p.events
         /\ d.net = net
         /\ d = Both(d.p, net)
<1>1. d.p = [p EXCEPT !.t_read = IF @ = NoConn THEN p.LocalAgent ELSE @]
  BY DEF Listening, Both
<1>2. d.net = net /\ d = Both(d.p, net)
  BY DEF Listening, Both
<1> QED
  BY <1>1, <1>2 DEF PeerType

\* What bgp_stop leaves of a peer.
LEMMA StoppedIs ==
  ASSUME NEW p \in PeerType, NEW net, NEW r, NEW lost,
         NEW d, d = Stopped(Both(p, net), r, lost)
  PROVE  /\ d.p \in PeerType /\ d.p.status = IF p.status = "Established" THEN "Idle" ELSE p.status
         /\ d.p.LocalAgent = NoConn /\ d.p.t_read = NoConn /\ d.p.obuf = <<>>
         /\ d.p.timers = {} /\ d.p.events = <<>> /\ d.p.t_write = p.t_write
         /\ d.net = Hangup(net, r, p.LocalAgent, lost)
         /\ d = Both(d.p, Hangup(net, r, p.LocalAgent, lost))
<1>1. d.p = [p EXCEPT !.status = IF @ = "Established" THEN "Idle" ELSE @,
                    !.LocalAgent = NoConn, !.t_read = NoConn, !.obuf = <<>>,
                    !.timers = {}, !.events = <<>>]
  BY DEF Stopped, Both
<1>2. /\ d.net = Hangup(net, r, p.LocalAgent, lost)
      /\ d = Both(d.p, Hangup(net, r, p.LocalAgent, lost))
  BY DEF Stopped, Both
<1>3. "Idle" \in Status /\ <<>> \in Seq(Message) /\ <<>> \in Seq(Event)
  BY DEF Status
<1> QED
  BY <1>1, <1>2, <1>3 DEF PeerType

\* What bgp_stop and bgp_timer_set leave of a peer.
LEMMA FailedIs ==
  ASSUME NEW p \in PeerType, NEW net, NEW r, NEW lost,
         NEW d, d = Failed(Both(p, net), r, lost)
  PROVE  /\ d.p \in PeerType /\ d.p.status = "Idle"
         /\ d.p.LocalAgent = NoConn /\ d.p.t_read = NoConn /\ d.p.obuf = <<>>
         /\ d.p.timers = {"start"} /\ d.p.events = <<>> /\ d.p.t_write = p.t_write
         /\ d.net = Hangup(net, r, p.LocalAgent, lost)
<1> DEFINE done == Stopped(Both(p, net), r, lost)
           e == done.p
<1>1. /\ e \in PeerType /\ e.LocalAgent = NoConn /\ e.t_read = NoConn /\ e.obuf = <<>>
      /\ e.events = <<>> /\ e.t_write = p.t_write
      /\ done.net = Hangup(net, r, p.LocalAgent, lost)
  BY StoppedIs
<1>2. d.p = [e EXCEPT !.status = "Idle", !.timers = {"start"}]
      /\ d.net = done.net
  BY DEF Failed, TimersOf
<1>3. "Idle" \in Status /\ {"start"} \in SUBSET Timer
  BY DEF Status, Timer
<1> HIDE DEF e, done
<1> QED
  BY <1>1, <1>2, <1>3 DEF PeerType

\* What bgp_start makes of a peer.
LEMMA StartedIs ==
  ASSUME NEW p \in PeerType, NEW net, NEW r,
         NEW c \in Conn, c = NextConn(net),
         NEW d, d = Started(Both(p, net), r)
  PROVE  /\ d.p \in PeerType /\ d.p.LocalAgent = c
         /\ d.p.t_read = IF p.t_read = NoConn THEN c ELSE p.t_read
         /\ d.p.status = p.status /\ d.p.obuf = p.obuf /\ d.p.t_write = p.t_write
         /\ d.p.timers = p.timers /\ d.p.events = p.events
         /\ d.net = Put(net, c, Opening(r))
<1>1. d.p = [p EXCEPT !.LocalAgent = c, !.t_read = IF @ = NoConn THEN c ELSE @]
  BY DEF Started, Both
<1>2. d.net = Put(net, c, Opening(r))
  BY DEF Started, Both, Put, Opening
<1> QED
  BY <1>1, <1>2 DEF PeerType

-----------------------------------------------------------------------------
(***************************************************************************)
(* The functions of the table.                                             *)
(***************************************************************************)
\* What a function leaves, before the state `next' is set.
Done(q, net2, net, r, n, next) ==
  /\ q \in PeerType /\ NoOpen(q) /\ InUse(q, net2, r)
  /\ q.obuf # <<>> \/ q.t_read # NoConn \/ next \notin Down => q.LocalAgent # NoConn
  /\ NetStep(net, net2, n)

\* Messages lost are a number.
LEMMA LostType ==
  ASSUME NEW lost \in Lost
  PROVE  lost \in Nat
BY BoundsAssumption DEF Lost

\* More uses are allowed than there were.
LEMMA MoreUses ==
  ASSUME NEW n \in Nat, NEW net, NetOK(net, n)
  PROVE  NetOK(net, n + 1)
<1>1. \A c \in Conn : c > n + 1 => c > n
  BY BoundsAssumption DEF Conn
<1> QED
  BY <1>1 DEF NetOK, Fresh

\* A step is one as well when more uses are allowed.
LEMMA MoreSteps ==
  ASSUME NEW n \in Nat, NEW net, NEW net2, NetStep(net, net2, n)
  PROVE  NetStep(net, net2, n + 1)
BY MoreUses DEF NetStep

\* A connection in use stays in use.
LEMMA StaysInUse ==
  ASSUME NEW p \in PeerType, NEW net, NEW net2, NEW r \in Router, InUse(p, net, r),
         NEW q, q.LocalAgent = p.LocalAgent, Later(net, net2)
  PROVE  InUse(q, net2, r)
BY PeerParts DEF InUse, Later, MaybeConn

\* bgp_stop lets go of the connection, and closes it.
LEMMA StoppedDone ==
  ASSUME NEW n \in Nat, NEW net, NetOK(net, n), NEW r \in Router, NEW p \in PeerType,
         InUse(p, net, r), NEW lost \in Lost,
         NEW d, d = Stopped(Both(p, net), r, lost)
  PROVE  /\ d.p \in PeerType /\ NoOpen(d.p) /\ d.p.LocalAgent = NoConn /\ d.p.obuf = <<>>
         /\ d.p.t_read = NoConn /\ d.p.timers = {} /\ d.p.events = <<>>
         /\ NetStep(net, d.net, n) /\ d = Both(d.p, d.net)
         /\ p.LocalAgent # NoConn => d.net[p.LocalAgent].state[r] = "closed"
<1>1. lost \in Nat /\ p.LocalAgent \in MaybeConn
  BY LostType, PeerParts
<1>2. /\ NetStep(net, Hangup(net, r, p.LocalAgent, lost), n)
      /\ p.LocalAgent # NoConn =>
           Hangup(net, r, p.LocalAgent, lost)[p.LocalAgent].state[r] = "closed"
  BY <1>1, HangupStep DEF InUse, MaybeConn
<1>3. /\ d.p \in PeerType /\ d.p.LocalAgent = NoConn /\ d.p.obuf = <<>>
      /\ d.p.t_read = NoConn /\ d.p.timers = {} /\ d.p.events = <<>>
      /\ d.net = Hangup(net, r, p.LocalAgent, lost) /\ d = Both(d.p, d.net)
  BY StoppedIs
<1>4. NoOpen(d.p)
  BY <1>3 DEF NoOpen
<1> QED
  BY <1>2, <1>3, <1>4

\* A write that fails ends in Idle, with a timer on.
LEMMA FailedDone ==
  ASSUME NEW n \in Nat, NEW net, NetOK(net, n), NEW r \in Router, NEW p \in PeerType,
         InUse(p, net, r), NEW lost \in Lost,
         NEW d, d = Failed(Both(p, net), r, lost)
  PROVE  /\ d.p \in PeerType /\ NoOpen(d.p) /\ d.p.LocalAgent = NoConn /\ d.p.obuf = <<>>
         /\ d.p.t_read = NoConn
         /\ d.p.status = "Idle" /\ d.p.timers # {} /\ d.p.events = <<>>
         /\ NetStep(net, d.net, n)
<1>1. lost \in Nat /\ p.LocalAgent \in MaybeConn
  BY LostType, PeerParts
<1>2. NetStep(net, Hangup(net, r, p.LocalAgent, lost), n)
  BY <1>1, HangupStep DEF InUse, MaybeConn
<1>3. /\ d.p \in PeerType /\ d.p.LocalAgent = NoConn /\ d.p.obuf = <<>>
      /\ d.p.t_read = NoConn
      /\ d.p.status = "Idle" /\ d.p.timers = {"start"} /\ d.p.events = <<>>
      /\ d.net = Hangup(net, r, p.LocalAgent, lost)
  BY FailedIs
<1>4. NoOpen(d.p)
  BY <1>3 DEF NoOpen
<1> QED
  BY <1>2, <1>3, <1>4

\* bgp_notify_send sends at most one message and fails.
LEMMA NotifiedDone ==
  ASSUME NEW n \in Nat, NEW net, NetOK(net, n), NEW r \in Router, NEW p \in PeerType,
         InUse(p, net, r), p.LocalAgent # NoConn, NEW lost \in Lost,
         NEW d, d = Notified(Both(p, net), r, lost)
  PROVE  /\ d.p \in PeerType /\ NoOpen(d.p) /\ d.p.LocalAgent = NoConn /\ d.p.obuf = <<>>
         /\ d.p.t_read = NoConn
         /\ d.p.status = "Idle" /\ d.p.timers # {} /\ d.p.events = <<>>
         /\ NetStep(net, d.net, n)
<1> DEFINE c == p.LocalAgent
           net1 == IF CanSend(net, r, c) THEN Sent(net, r, c, "Notification") ELSE net
           p1 == [p EXCEPT !.t_write = FALSE]
<1>1. d = Failed(Both(p1, net1), r, lost)
  BY DEF Notified, Both
<1>2. c \in Conn
  BY PeerParts DEF MaybeConn
<1>3. NetStep(net, net1, n)
  BY <1>2, SendStep, NoStep DEF CanSend, Message
<1>4. p1 \in PeerType /\ p1.LocalAgent = p.LocalAgent
  BY DEF PeerType
<1> HIDE DEF c, net1, p1
<1>5. Later(net, net1) /\ NetOK(net1, n)
  BY <1>3 DEF NetStep
<1>6. InUse(p1, net1, r)
  BY <1>4, <1>5, StaysInUse
<1>7. /\ d.p \in PeerType /\ NoOpen(d.p) /\ d.p.LocalAgent = NoConn /\ d.p.obuf = <<>>
      /\ d.p.t_read = NoConn
      /\ d.p.status = "Idle" /\ d.p.timers # {} /\ d.p.events = <<>>
      /\ NetStep(net1, d.net, n)
  BY <1>1, <1>4, <1>5, <1>6, FailedDone
<1> QED
  BY <1>5, <1>7, StepsFollow

\* bgp_start finds a connection.
LEMMA StartedDone ==
  ASSUME NEW n \in Nat, NEW net, NetOK(net, n), n < MaxUse, NEW r \in Router,
         NEW p \in PeerType, NoOpen(p), NEW next,
         NEW d, d = Started(Both(p, net), r)
  PROVE  Done(d.p, d.net, net, r, n + 1, next)
<1> DEFINE c == NextConn(net)
<1>0. c = NextConn(net)
  OBVIOUS
<1> HIDE DEF c
<1>1. c \in Conn /\ c <= n + 1 /\ \A q \in Router : net[c].state[q] = "none"
  BY <1>0, LeastUnused
<1>2. /\ d.p \in PeerType /\ d.p.LocalAgent = c /\ d.p.events = p.events
      /\ d.net = Put(net, c, Opening(r))
  BY <1>0, <1>1, StartedIs
<1>3. NetStep(net, d.net, n + 1) /\ d.net[c].state[r] = "opening"
  BY <1>1, <1>2, OpeningStep
<1>4. c # NoConn
  BY <1>1 DEF Conn, NoConn
<1>5. NoOpen(d.p) /\ InUse(d.p, d.net, r)
  BY <1>2, <1>3 DEF NoOpen, InUse
<1> QED
  BY <1>2, <1>3, <1>4, <1>5 DEF Done

\* Output is queued on a connection.
LEMMA QueuedDone ==
  ASSUME NEW n \in Nat, NEW net, NetOK(net, n), NEW r \in Router, NEW p \in PeerType,
         NoOpen(p), InUse(p, net, r), p.LocalAgent # NoConn, NEW msgs \in Seq(Message),
         NEW next, NEW d, d = Queued(Both(p, net), msgs)
  PROVE  Done(d.p, d.net, net, r, n, next)
<1>1. /\ d.p \in PeerType /\ d.p.LocalAgent = p.LocalAgent /\ d.p.events = p.events
      /\ d.net = net
  BY QueuedIs
<1>2. NoOpen(d.p) /\ InUse(d.p, d.net, r)
  BY <1>1 DEF NoOpen, InUse
<1> QED
  BY <1>1, <1>2, NoStep DEF Done

\* Each function of the table, for an event of the peer.
LEMMA DoDone ==
  ASSUME NEW n \in Nat, NEW net, NetOK(net, n), NEW r \in Router, NEW p, PeerOK(p, net, r),
         NoOpen(p), NEW e \in Event, e = "Open" => p.LocalAgent # NoConn, NEW lost \in Lost,
         NEW func, func = FSM[p.status][e].func, NEW next, next = FSM[p.status][e].next,
         func \in {"start", "reconnect"} => n < MaxUse,
         NEW d, d = Do(func, Both(p, net), r, lost)
  PROVE  Done(d.p, d.net, net, r, IF func \in {"start", "reconnect"} THEN n + 1 ELSE n, next)
<1>1. p \in PeerType /\ Connected(p) /\ InUse(p, net, r)
  BY DEF PeerOK
<1>2. Sound(p.status, e, func, next)
  BY <1>1, PeerParts, FsmSound
<1>3. func \in Func
  BY <1>2 DEF Sound
<1>4. CASE func = "start"
  <2>1. d = Started(Both(p, net), r)
    BY <1>4 DEF Do
  <2>2. Done(d.p, d.net, net, r, n + 1, next)
    BY <2>1, <1>1, <1>4, StartedDone
  <2> QED
    BY <2>2, <1>4
<1>5. CASE func = "reconnect"
  <2> DEFINE x == Stopped(Both(p, net), r, lost)
  <2>1. d = Started(x, r)
    BY <1>5 DEF Do
  <2>2. x.p \in PeerType /\ NoOpen(x.p) /\ NetStep(net, x.net, n) /\ x = Both(x.p, x.net)
    BY <1>1, StoppedDone
  <2> HIDE DEF x
  <2>3. NetOK(x.net, n) /\ Later(net, x.net) /\ n < MaxUse
    BY <2>2, <1>5 DEF NetStep
  <2>4. d = Started(Both(x.p, x.net), r)
    BY <2>1, <2>2
  <2>5. Done(d.p, d.net, x.net, r, n + 1, next)
    BY <2>2, <2>3, <2>4, StartedDone
  <2>6. NetStep(net, d.net, n + 1)
    BY <2>3, <2>5, StepsFollow DEF Done
  <2> QED
    BY <2>5, <2>6, <1>5 DEF Done
<1>6. CASE func = "stop"
  <2>1. d = Stopped(Both(p, net), r, lost)
    BY <1>6 DEF Do
  <2>2. /\ d.p \in PeerType /\ NoOpen(d.p) /\ d.p.LocalAgent = NoConn /\ d.p.obuf = <<>>
        /\ d.p.t_read = NoConn
        /\ NetStep(net, d.net, n)
    BY <2>1, <1>1, StoppedDone
  <2>3. next \in Down
    BY <1>2, <1>6 DEF Sound
  <2> QED
    BY <2>2, <2>3, <1>6 DEF Done, InUse
<1>7. CASE func = "holdtime_expire"
  <2>1. d = Notified(Both(p, net), r, lost)
    BY <1>7 DEF Do
  <2>2. next \in Down
    BY <1>2, <1>7 DEF Sound
  <2>3. p.LocalAgent # NoConn
    <3>1. p.status \notin Down
      BY <1>2, <1>7 DEF Sound
    <3> QED
      BY <3>1, <1>1 DEF Connected, Down
  <2>4. /\ d.p \in PeerType /\ NoOpen(d.p) /\ d.p.LocalAgent = NoConn /\ d.p.obuf = <<>>
        /\ d.p.t_read = NoConn
        /\ NetStep(net, d.net, n)
    BY <2>1, <2>3, <1>1, NotifiedDone
  <2> QED
    BY <2>2, <2>4, <1>7 DEF Done, InUse
<1>8. CASE func = "connect_success"
  <2> DEFINE l == Listening(Both(p, net))
  <2>1. d = Queued(l, <<"Open">>)
    BY <1>8 DEF Do
  <2>2. e = "Open"
    BY <1>2, <1>8 DEF Sound
  <2>3. /\ l.p \in PeerType /\ l.p.LocalAgent = p.LocalAgent /\ l.p.events = p.events
        /\ l = Both(l.p, net)
    BY <1>1, ListeningIs
  <2> HIDE DEF l
  <2>4. NoOpen(l.p) /\ InUse(l.p, net, r) /\ l.p.LocalAgent # NoConn
    BY <2>2, <2>3, <1>1 DEF NoOpen, InUse
  <2>5. <<"Open">> \in Seq(Message)
    BY DEF Message
  <2>6. Done(d.p, d.net, net, r, n, next)
    BY <2>1, <2>3, <2>4, <2>5, QueuedDone
  <2> QED
    BY <2>6, <1>8
<1>9. CASE func \in {"open", "keepalive_expire", "establish"}
  <2>1. p.LocalAgent # NoConn
    <3>1. p.status \notin Down
      BY <1>2, <1>9 DEF Sound
    <3> QED
      BY <3>1, <1>1 DEF Connected, Down
  <2>2. <<"Keepalive">> \in Seq(Message) /\ <<"Keepalive", "Update">> \in Seq(Message)
    BY DEF Message
  <2>3. d = Queued(Both(p, net), <<"Keepalive">>) \/ d = Queued(Both(p, net), <<"Keepalive", "Update">>)
    BY <1>9 DEF Do, Opened
  <2>4. Done(d.p, d.net, net, r, n, next)
    BY <2>1, <2>2, <2>3, <1>1, QueuedDone
  <2> QED
    BY <2>4, <1>9
<1>10. CASE func \in {"ignore", "received"}
  <2>1. d = Both(p, net)
    BY <1>10 DEF Do
  <2>2. d.p = p /\ d.net = net
    BY <2>1, BothIs
  <2>3. next \in Down \/ next = p.status
    BY <1>2, <1>10 DEF Sound
  <2>4. NetStep(net, net, n)
    BY NoStep
  <2>5. p.obuf # <<>> \/ p.t_read # NoConn \/ next \notin Down => p.LocalAgent # NoConn
    BY <2>3, <1>1 DEF Connected, Down
  <2> QED
    BY <2>2, <2>4, <2>5, <1>1, <1>10 DEF Done
<1> QED
  BY <1>3, <1>4, <1>5, <1>6, <1>7, <1>8, <1>9, <1>10 DEF Func

\* bgp_event: the peer is as it should be, its timer is on, and the event that TCP
\* waited for does not come twice.
LEMMA HandledDone ==
  ASSUME NEW n \in Nat, NEW net, NetOK(net, n), NEW r \in Router, NEW p, PeerOK(p, net, r),
         NoOpen(p), NEW e \in Event, e = "Open" => p.LocalAgent # NoConn, NEW lost \in Lost,
         Connects(p.status, e) => n < MaxUse,
         NEW d, d = Handled(Both(p, net), r, e, lost)
  PROVE  /\ PeerOK(d.p, d.net, r) /\ NoOpen(d.p) /\ d.p.timers # {}
         /\ NetStep(net, d.net, IF Connects(p.status, e) THEN n + 1 ELSE n)
<1> DEFINE func == FSM[p.status][e].func
           next == FSM[p.status][e].next
           x == Do(func, Both(p, net), r, lost)
           n2 == IF Connects(p.status, e) THEN n + 1 ELSE n
<1>1. Done(x.p, x.net, net, r, n2, next)
  BY DoDone DEF Connects
<1>2. next \in Status
  BY PeerParts, FsmSound DEF PeerOK, Sound
<1>3. d.net = x.net /\ d.p = [x.p EXCEPT !.status = next, !.timers = TimersOf[next]]
  BY DEF Handled, Both
<1> HIDE DEF x, next, func, n2
<1>4. TimersOf[next] \in SUBSET Timer /\ TimersOf[next] # {}
  BY <1>2, TimersOfType
<1>5. x.p \in PeerType
  BY <1>1 DEF Done
<1>6. /\ d.p \in PeerType /\ d.p.status = next /\ d.p.timers = TimersOf[next]
      /\ d.p.LocalAgent = x.p.LocalAgent /\ d.p.obuf = x.p.obuf /\ d.p.events = x.p.events
      /\ d.p.t_read = x.p.t_read
  BY <1>2, <1>3, <1>4, <1>5 DEF PeerType
<1>7. Connected(d.p)
  BY <1>1, <1>6 DEF Done, Connected, Down
<1>8. InUse(d.p, d.net, r) /\ NoOpen(d.p)
  BY <1>1, <1>3, <1>6 DEF Done, InUse, NoOpen
<1> QED
  BY <1>1, <1>3, <1>4, <1>6, <1>7, <1>8 DEF PeerOK, Done, n2

-----------------------------------------------------------------------------
(***************************************************************************)
(* Interrupts and temporary peers.                                         *)
(***************************************************************************)
\* The elements of a tail, and of a sequence with one more.
LEMMA TailAt ==
  ASSUME NEW S, NEW s \in Seq(S), s # <<>>, NEW i \in 1..Len(Tail(s))
  PROVE  i + 1 \in 1..Len(s) /\ Tail(s)[i] = s[i + 1] /\ i + 1 # 1
OBVIOUS

\* The elements of a sequence with one more.
LEMMA AppendAt ==
  ASSUME NEW S, NEW s \in Seq(S), NEW x, NEW i \in 1..Len(Append(s, x))
  PROVE  \/ i \in 1..Len(s) /\ Append(s, x)[i] = s[i]
         \/ Append(s, x)[i] = x
<1>1. Len(Append(s, x)) = Len(s) + 1 /\ Len(s) \in Nat
  OBVIOUS
<1>2. CASE i = Len(s) + 1
  BY <1>1, <1>2
<1>3. CASE i # Len(s) + 1
  <2>1. i \in 1..Len(s)
    BY <1>1, <1>3
  <2> QED
    BY <2>1
<1> QED
  BY <1>2, <1>3

\* What has been reached stays reached.
LEMMA StaysReached ==
  ASSUME NEW net, NEW net2, Later(net, net2), NEW r \in Router, NEW c \in Conn,
         Reached(net, r, c)
  PROVE  Reached(net2, r, c)
BY DEF Later, Reached

\* Interrupts stay in order when the connections step.
LEMMA InboxLater ==
  ASSUME NEW box, NEW net, NEW net2, InboxOK(box, net), Later(net, net2)
  PROVE  InboxOK(box, net2)
<1> SUFFICES ASSUME NEW r \in Router, NEW i \in 1..Len(box[r])
             PROVE  Reached(net2, r, box[r][i][1])
  BY DEF InboxOK
<1>1. box[r][i] \in Conn \X (Message \cup {"Zero"})
  BY DEF InboxOK, InboxType
<1>2. box[r][i][1] \in Conn
  BY <1>1
<1> QED
  BY <1>2, StaysReached DEF InboxOK

\* The next interrupt.
LEMMA InboxHead ==
  ASSUME NEW box, NEW net, InboxOK(box, net), NEW r \in Router, box[r] # <<>>
  PROVE  /\ Head(box[r])[1] \in Conn /\ Head(box[r])[2] \in Message \cup {"Zero"}
         /\ Reached(net, r, Head(box[r])[1])
<1>1. box[r] \in Seq(Conn \X (Message \cup {"Zero"}))
  BY DEF InboxOK, InboxType
<1>2. 1 \in 1..Len(box[r]) /\ Head(box[r]) = box[r][1]
  BY <1>1
<1>3. Head(box[r]) \in Conn \X (Message \cup {"Zero"})
  BY <1>1, <1>2
<1> QED
  BY <1>2, <1>3 DEF InboxOK

\* An interrupt is handled.
LEMMA InboxTail ==
  ASSUME NEW box, NEW net, InboxOK(box, net), NEW r \in Router, box[r] # <<>>,
         NEW box2, box2 = [box EXCEPT ![r] = Tail(@)]
  PROVE  InboxOK(box2, net)
<1>1. box \in InboxType /\ box[r] \in Seq(Conn \X (Message \cup {"Zero"}))
  BY DEF InboxOK, InboxType
<1>2. Tail(box[r]) \in Seq(Conn \X (Message \cup {"Zero"}))
  BY <1>1
<1>3. box2 \in InboxType
  BY <1>1, <1>2 DEF InboxType
<1>4. ASSUME NEW q \in Router, NEW i \in 1..Len(box2[q])
      PROVE  Reached(net, q, box2[q][i][1])
  <2>1. CASE q = r
    <3>1. box2[q] = Tail(box[r])
      BY <2>1, <1>1 DEF InboxType
    <3>3. i + 1 \in 1..Len(box[r]) /\ box2[q][i] = box[r][i + 1]
      BY <3>1, <1>1, TailAt
    <3> QED
      BY <3>3, <2>1 DEF InboxOK
  <2>2. CASE q # r
    <3>1. box2[q] = box[q]
      BY <2>2, <1>1 DEF InboxType
    <3> QED
      BY <3>1 DEF InboxOK
  <2> QED
    BY <2>1, <2>2
<1> QED
  BY <1>3, <1>4 DEF InboxOK

\* An interrupt arrives.
LEMMA InboxAppend ==
  ASSUME NEW box, NEW net, InboxOK(box, net), NEW r \in Router, NEW c \in Conn,
         Reached(net, r, c), NEW m \in Message \cup {"Zero"},
         NEW box2, box2 = [box EXCEPT ![r] = Append(@, <<c, m>>)]
  PROVE  InboxOK(box2, net)
<1>1. box \in InboxType /\ box[r] \in Seq(Conn \X (Message \cup {"Zero"}))
  BY DEF InboxOK, InboxType
<1>2. Append(box[r], <<c, m>>) \in Seq(Conn \X (Message \cup {"Zero"}))
  BY <1>1
<1>3. box2 \in InboxType
  BY <1>1, <1>2 DEF InboxType
<1>4. ASSUME NEW q \in Router, NEW i \in 1..Len(box2[q])
      PROVE  Reached(net, q, box2[q][i][1])
  <2>1. CASE q = r
    <3>1. box2[q] = Append(box[r], <<c, m>>)
      BY <2>1, <1>1 DEF InboxType
    <3>2. i \in 1..Len(Append(box[r], <<c, m>>))
      BY <3>1
    <3> DEFINE x == <<c, m>>
    <3>3. x[1] = c
      OBVIOUS
    <3> HIDE DEF x
    <3>4. \/ i \in 1..Len(box[r]) /\ Append(box[r], x)[i] = box[r][i]
          \/ Append(box[r], x)[i] = x
      BY <3>2, <1>1, AppendAt DEF x
    <3>5. box2[q][i] = Append(box[r], x)[i]
      BY <3>1 DEF x
    <3> QED
      BY <3>3, <3>4, <3>5, <2>1 DEF InboxOK
  <2>2. CASE q # r
    <3>1. box2[q] = box[q]
      BY <2>2, <1>1 DEF InboxType
    <3> QED
      BY <3>1 DEF InboxOK
  <2> QED
    BY <2>1, <2>2
<1> QED
  BY <1>3, <1>4 DEF InboxOK

\* Temporary peers stay in order when the connections step.
LEMMA AcceptedLater ==
  ASSUME NEW acc, NEW net, NEW net2, AcceptedOK(acc, net), Later(net, net2)
  PROVE  AcceptedOK(acc, net2)
BY StaysReached DEF AcceptedOK

\* A temporary peer changes.
LEMMA AcceptedSet ==
  ASSUME NEW acc, NEW net, AcceptedOK(acc, net), NEW r \in Router, NEW c \in Conn,
         NEW x \in {"none", "Active", "OpenSent"}, x # "none" => Reached(net, r, c),
         NEW acc2, acc2 = [acc EXCEPT ![r][c] = x]
  PROVE  AcceptedOK(acc2, net)
<1>1. acc \in AcceptedType
  BY DEF AcceptedOK
<1>2. acc2 \in AcceptedType
  BY <1>1 DEF AcceptedType
<1>3. \A q \in Router, d \in Conn :
        acc2[q][d] = IF q = r /\ d = c THEN x ELSE acc[q][d]
  BY <1>1 DEF AcceptedType
<1> QED
  BY <1>2, <1>3 DEF AcceptedOK

-----------------------------------------------------------------------------
(***************************************************************************)
(* Steps of one router.                                                    *)
(***************************************************************************)
\* The other peer keeps what it has when the connections step.
LEMMA OtherPeer ==
  ASSUME NEW p, NEW net, NEW net2, NEW q \in Router, PeerOK(p, net, q), Awake(p, net, q),
         Later(net, net2)
  PROVE  PeerOK(p, net2, q) /\ Awake(p, net2, q)
<1>1. p \in PeerType /\ Connected(p) /\ InUse(p, net, q)
  BY DEF PeerOK
<1>2. InUse(p, net2, q)
  BY <1>1, StaysInUse
<1>3. p.LocalAgent \in MaybeConn
  BY <1>1, PeerParts
<1>4. ASSUME p.obuf # <<>>, net[p.LocalAgent].state[q] = "closed"
      PROVE  net2[p.LocalAgent].state[q] = "closed"
  <2>1. p.LocalAgent \in Conn
    BY <1>1, <1>3, <1>4 DEF Connected, MaybeConn
  <2> QED
    BY <2>1, <1>4 DEF Later
<1> QED
  BY <1>1, <1>2, <1>4 DEF PeerOK, Awake

\* A step that leaves router r, with the peer `q', and the rest as they should be.
LEMMA KeptBy ==
  ASSUME IInv, NEW r \in Router, NEW q, peer' = [peer EXCEPT ![r] = q],
         used' \in 0..MaxUse, NetStep(tcp, tcp', used'),
         PeerOK(q, tcp', r), OpenIsNext(q), Awake(q, tcp', r),
         InboxOK(inbox', tcp'), AcceptedOK(accepted', tcp')
  PROVE  IInv'
<1>1. q \in PeerType /\ peer \in [Router -> PeerType]
  BY DEF PeerOK, IInv
<1>2. peer' \in [Router -> PeerType] /\ \A x \in Router : peer'[x] = IF x = r THEN q ELSE peer[x]
  BY <1>1
<1>3. NetOK(tcp', used') /\ Later(tcp, tcp')
  BY DEF NetStep
<1>4. ASSUME NEW x \in Router
      PROVE  PeerOK(peer'[x], tcp', x) /\ OpenIsNext(peer'[x]) /\ Awake(peer'[x], tcp', x)
  <2>1. CASE x = r
    BY <2>1, <1>2
  <2>2. CASE x # r
    <3>1. PeerOK(peer[x], tcp, x) /\ OpenIsNext(peer[x]) /\ Awake(peer[x], tcp, x)
      BY DEF IInv, PeerInv
    <3> QED
      BY <3>1, <2>2, <1>2, <1>3, OtherPeer
  <2> QED
    BY <2>1, <2>2
<1> QED
  BY <1>2, <1>3, <1>4 DEF IInv, PeerInv

\* A step that leaves the peers alone.
LEMMA KeptWithPeers ==
  ASSUME IInv, peer' = peer, used' \in 0..MaxUse, NetStep(tcp, tcp', used'),
         InboxOK(inbox', tcp'), AcceptedOK(accepted', tcp')
  PROVE  IInv'
<1>1. NetOK(tcp', used') /\ Later(tcp, tcp')
  BY DEF NetStep
<1>2. ASSUME NEW x \in Router
      PROVE  PeerOK(peer'[x], tcp', x) /\ OpenIsNext(peer'[x]) /\ Awake(peer'[x], tcp', x)
  <2>1. PeerOK(peer[x], tcp, x) /\ OpenIsNext(peer[x]) /\ Awake(peer[x], tcp, x)
    BY DEF IInv, PeerInv
  <2> QED
    BY <2>1, <1>1, OtherPeer
<1> QED
  BY <1>1, <1>2 DEF IInv, PeerInv

\* What the invariant says of one router.
LEMMA OfRouter ==
  ASSUME IInv, NEW r \in Router
  PROVE  /\ peer[r] \in PeerType /\ PeerOK(peer[r], tcp, r) /\ Connected(peer[r])
         /\ InUse(peer[r], tcp, r) /\ OpenIsNext(peer[r]) /\ Awake(peer[r], tcp, r)
         /\ NetOK(tcp, used) /\ used \in Nat /\ MaxUse \in Nat
         /\ InboxOK(inbox, tcp) /\ AcceptedOK(accepted, tcp)
BY BoundsAssumption DEF IInv, PeerInv, PeerOK

\* An event list without the event of TCP.
LEMMA NoOpenIsNext ==
  ASSUME NEW p, NoOpen(p)
  PROVE  OpenIsNext(p)
BY DEF NoOpen, OpenIsNext

\* The peer of r and the connections, with the peer changed.
LEMMA HereWith ==
  ASSUME NEW r, NEW q
  PROVE  Here(r) = Both(peer[r], tcp) /\ [Here(r) EXCEPT !.p = q] = Both(q, tcp)
         /\ Here(r).p = peer[r]
BY DEF Here, Both

\* A peer that has handled an event.
LEMMA HandledKeeps ==
  ASSUME IInv, NEW r \in Router, NEW p, PeerOK(p, tcp, r), NoOpen(p), NEW e \in Event,
         e = "Open" => p.LocalAgent # NoConn, NEW lost \in Lost,
         Becomes(r, Handled(Both(p, tcp), r, e, lost)),
         Connects(p.status, e) => used' = used + 1,
         used' \in {used, used + 1}, used' \in 0..MaxUse,
         inbox' = inbox, accepted' = accepted
  PROVE  IInv'
<1>1. /\ NetOK(tcp, used) /\ used \in Nat /\ MaxUse \in Nat
      /\ InboxOK(inbox, tcp) /\ AcceptedOK(accepted, tcp)
  BY OfRouter
<1> DEFINE d == Handled(Both(p, tcp), r, e, lost)
<1>2. /\ PeerOK(d.p, d.net, r) /\ NoOpen(d.p) /\ d.p.timers # {}
      /\ NetStep(tcp, d.net, used')
  <2>1. Connects(p.status, e) => used < MaxUse
    BY <1>1
  <2>2. /\ PeerOK(d.p, d.net, r) /\ NoOpen(d.p) /\ d.p.timers # {}
        /\ NetStep(tcp, d.net, IF Connects(p.status, e) THEN used + 1 ELSE used)
    BY <2>1, <1>1, HandledDone
  <2>3. NetStep(tcp, d.net, used')
    BY <2>2, <1>1, MoreSteps
  <2> QED
    BY <2>2, <2>3
<1>3. peer' = [peer EXCEPT ![r] = d.p] /\ tcp' = d.net
  BY DEF Becomes
<1> HIDE DEF d
<1>4. NetStep(tcp, tcp', used') /\ Later(tcp, tcp')
  BY <1>2, <1>3 DEF NetStep
<1>5. InboxOK(inbox', tcp') /\ AcceptedOK(accepted', tcp')
  BY <1>1, <1>4, InboxLater, AcceptedLater
<1>6. OpenIsNext(d.p) /\ Awake(d.p, tcp', r) /\ PeerOK(d.p, tcp', r)
  BY <1>2, <1>3, NoOpenIsNext DEF Awake
<1> QED
  BY <1>3, <1>4, <1>5, <1>6, KeptBy

\* An event of the peer.
LEMMA PeerEventKeeps ==
  ASSUME IInv, NEW r \in Router, PeerEvent(r)
  PROVE  IInv'
<1> DEFINE p == [peer[r] EXCEPT !.events = Tail(@)]
           e == Head(peer[r].events)
           connects == Connects(peer[r].status, e)
<1>1. /\ peer[r] \in PeerType /\ Connected(peer[r]) /\ InUse(peer[r], tcp, r)
      /\ OpenIsNext(peer[r]) /\ used \in Nat /\ MaxUse \in Nat
  BY OfRouter
<1>2. peer[r].events \in Seq(Event) /\ peer[r].events # <<>>
  BY <1>1, PeerParts DEF PeerEvent
<1>3. e \in Event /\ e = peer[r].events[1] /\ 1 \in 1..Len(peer[r].events)
  BY <1>2
<1>4. e = "Open" => peer[r].LocalAgent # NoConn
  BY <1>1, <1>3 DEF OpenIsNext
<1>5. Tail(peer[r].events) \in Seq(Event)
  BY <1>2
<1>6. /\ p \in PeerType /\ p.status = peer[r].status /\ p.LocalAgent = peer[r].LocalAgent
      /\ p.obuf = peer[r].obuf /\ p.t_read = peer[r].t_read /\ p.events = Tail(peer[r].events)
  BY <1>1, <1>5 DEF PeerType
<1>7. NoOpen(p)
  <2> SUFFICES ASSUME NEW i \in 1..Len(Tail(peer[r].events))
               PROVE  Tail(peer[r].events)[i] # "Open"
    BY <1>6 DEF NoOpen
  <2>1. i + 1 \in 1..Len(peer[r].events) /\ Tail(peer[r].events)[i] = peer[r].events[i + 1]
        /\ i + 1 # 1
    BY <1>2, TailAt
  <2> QED
    BY <2>1, <1>1 DEF OpenIsNext
<1>8. [Here(r) EXCEPT !.p.events = Tail(@)] = Both(p, tcp)
  <2>1. [Here(r) EXCEPT !.p.events = Tail(@)] =
          [Here(r) EXCEPT !.p = [Here(r).p EXCEPT !.events = Tail(@)]]
    OBVIOUS
  <2>2. [Here(r).p EXCEPT !.events = Tail(@)] = p
    BY HereWith
  <2> HIDE DEF p
  <2> QED
    BY <2>1, <2>2, HereWith
<1>9. PICK lost \in Lost : Becomes(r, Handled(Both(p, tcp), r, e, lost))
  BY <1>8 DEF PeerEvent
<1>10. used' = (IF connects THEN used + 1 ELSE used) /\ (connects => used < MaxUse)
  BY DEF PeerEvent, Use
<1>11. inbox' = inbox /\ accepted' = accepted
  BY DEF PeerEvent
<1>12. used' \in 0..MaxUse /\ used' \in {used, used + 1}
  BY <1>1, <1>10 DEF IInv
<1>13. Connects(p.status, e) => used' = used + 1
  BY <1>6, <1>10
<1> HIDE DEF p, e, connects
<1>14. PeerOK(p, tcp, r)
  BY <1>1, <1>6 DEF PeerOK, Connected, InUse
<1> QED
  BY <1>3, <1>4, <1>6, <1>7, <1>9, <1>11, <1>12, <1>13, <1>14, HandledKeeps

\* A timer of the peer.
LEMMA TimerExpiresKeeps ==
  ASSUME IInv, NEW r \in Router, NEW t \in Timer, TimerExpires(r, t)
  PROVE  IInv'
<1> DEFINE p == [peer[r] EXCEPT !.timers = @ \ {t}]
           e == TimerEvent[t]
           uses == t = "hold" \/ Connects(peer[r].status, e)
<1>1. /\ peer[r] \in PeerType /\ Connected(peer[r]) /\ InUse(peer[r], tcp, r)
      /\ used \in Nat /\ MaxUse \in Nat
  BY OfRouter
<1>2. peer[r].events = <<>>
  BY DEF TimerExpires, NoEvent
<1>3. e \in Event /\ e # "Open"
  BY DEF TimerEvent, Event, Timer
<1>4. /\ p \in PeerType /\ p.status = peer[r].status /\ p.LocalAgent = peer[r].LocalAgent
      /\ p.obuf = peer[r].obuf /\ p.t_read = peer[r].t_read /\ p.events = peer[r].events
  BY <1>1 DEF PeerType
<1>5. NoOpen(p)
  BY <1>2, <1>4 DEF NoOpen
<1>6. [Here(r) EXCEPT !.p.timers = @ \ {t}] = Both(p, tcp)
  <2>1. [Here(r) EXCEPT !.p.timers = @ \ {t}] =
          [Here(r) EXCEPT !.p = [Here(r).p EXCEPT !.timers = @ \ {t}]]
    OBVIOUS
  <2>2. [Here(r).p EXCEPT !.timers = @ \ {t}] = p
    BY HereWith
  <2> HIDE DEF p
  <2> QED
    BY <2>1, <2>2, HereWith
<1>7. PICK lost \in Lost : Becomes(r, Handled(Both(p, tcp), r, e, lost))
  BY <1>6 DEF TimerExpires
<1>8. used' = (IF uses THEN used + 1 ELSE used) /\ (uses => used < MaxUse)
  BY DEF TimerExpires, Use
<1>9. inbox' = inbox /\ accepted' = accepted
  BY DEF TimerExpires
<1>10. used' \in 0..MaxUse /\ used' \in {used, used + 1}
  BY <1>1, <1>8 DEF IInv
<1>11. Connects(p.status, e) => used' = used + 1
  BY <1>4, <1>8
<1> HIDE DEF p, e, uses
<1>12. PeerOK(p, tcp, r)
  BY <1>1, <1>4 DEF PeerOK, Connected, InUse
<1> QED
  BY <1>3, <1>5, <1>7, <1>9, <1>10, <1>11, <1>12, HandledKeeps

\* A temporary peer gets to OpenSent.
LEMMA AcceptedOpens == FSM["Active"]["Open"].next = "OpenSent"
<1> DEFINE here(row) == row[1] = "Active" /\ row[2] = "Open"
           row0 == <<"Active", "Open", "connect_success", "OpenSent">>
<1>1. row0 \in FsmRow /\ here(row0)
  BY DEF FsmRow
<1>2. \A row \in FsmRow : here(row) => row[4] = "OpenSent"
  BY DEF FsmRow
<1> DEFINE pick == CHOOSE row \in FsmRow : here(row)
<1>3. pick \in FsmRow /\ here(pick)
  BY <1>1
<1>4. pick[4] = "OpenSent"
  BY <1>2, <1>3
<1>5. FSM["Active"]["Open"] = [func |-> pick[3], next |-> pick[4]]
  <2>1. "Active" \in Status /\ "Open" \in Event
    BY DEF Status, Event
  <2>2. \E row \in FsmRow : here(row)
    BY <1>1
  <2> QED
    BY <2>1, <2>2 DEF FSM
<1> HIDE DEF pick
<1> QED
  BY <1>4, <1>5

\* TCP_connection_open of a temporary peer.
LEMMA AcceptedEventKeeps ==
  ASSUME IInv, NEW r \in Router, NEW c \in Conn, AcceptedEvent(r, c)
  PROVE  IInv'
<1>1. NetOK(tcp, used) /\ InboxOK(inbox, tcp) /\ AcceptedOK(accepted, tcp)
  BY OfRouter
<1>2. accepted' = [accepted EXCEPT ![r][c] = "OpenSent"] /\ accepted[r][c] # "none"
  BY AcceptedOpens DEF AcceptedEvent
<1>3. Reached(tcp, r, c)
  BY <1>1, <1>2 DEF AcceptedOK
<1>4. AcceptedOK(accepted', tcp)
  BY <1>1, <1>2, <1>3, AcceptedSet
<1>5. peer' = peer /\ inbox' = inbox /\ tcp' = tcp /\ used' = used
  BY DEF AcceptedEvent
<1>6. NetStep(tcp, tcp', used') /\ used' \in 0..MaxUse
  BY <1>1, <1>5, NoStep DEF IInv
<1> QED
  BY <1>1, <1>4, <1>5, <1>6, KeptWithPeers

\* The hold timer of a temporary peer.
LEMMA AcceptedHoldExpiresKeeps ==
  ASSUME IInv, NEW r \in Router, NEW c \in Conn, AcceptedHoldExpires(r, c)
  PROVE  IInv'
<1>1. /\ NetOK(tcp, used) /\ InboxOK(inbox, tcp) /\ AcceptedOK(accepted, tcp)
      /\ used \in Nat /\ MaxUse \in Nat
  BY OfRouter
<1>2. Reached(tcp, r, c)
  BY <1>1 DEF AcceptedOK, AcceptedHoldExpires
<1> DEFINE net == IF CanSend(tcp, r, c) THEN Sent(tcp, r, c, "Notification") ELSE tcp
<1>3. PICK lost \in Lost : tcp' = Hangup(net, r, c, lost)
  BY DEF AcceptedHoldExpires
<1>4. NetStep(tcp, net, used)
  BY <1>1, SendStep, NoStep DEF CanSend, Message
<1> HIDE DEF net
<1>5. NetOK(net, used) /\ Later(tcp, net)
  BY <1>4 DEF NetStep
<1>6. net[c].state[r] # "none"
  BY <1>2, <1>5 DEF Later, Reached
<1>7. NetStep(net, tcp', used)
  BY <1>1, <1>3, <1>5, <1>6, HangupStep, LostType
<1>8. NetStep(tcp, tcp', used)
  BY <1>5, <1>7, StepsFollow
<1>9. used' = used + 1 /\ used < MaxUse /\ peer' = peer /\ inbox' = inbox
      /\ accepted' = [accepted EXCEPT ![r][c] = "none"]
  BY DEF AcceptedHoldExpires, Use
<1>10. NetStep(tcp, tcp', used') /\ used' \in 0..MaxUse
  BY <1>1, <1>8, <1>9, MoreSteps
<1>11. Later(tcp, tcp')
  BY <1>10 DEF NetStep
<1>12. AcceptedOK(accepted', tcp)
  BY <1>1, <1>9, AcceptedSet
<1>13. InboxOK(inbox', tcp') /\ AcceptedOK(accepted', tcp')
  BY <1>1, <1>9, <1>11, <1>12, InboxLater, AcceptedLater
<1> QED
  BY <1>9, <1>10, <1>13, KeptWithPeers

-----------------------------------------------------------------------------
(***************************************************************************)
(* bgp_write.                                                              *)
(***************************************************************************)
\* While no event waits and the write thread has nothing to fail on, a timer is on.
LEMMA TimerIsOn ==
  ASSUME NEW p, NEW net, NEW r, Awake(p, net, r), p.events = <<>>,
         \/ ~p.t_write \/ p.obuf = <<>> \/ p.status = "Connect"
         \/ net[p.LocalAgent].state[r] # "closed"
  PROVE  p.timers # {}
BY DEF Awake

\* A router whose peer is replaced, with the connections one step on.
LEMMA PeerKept ==
  ASSUME IInv, NEW r \in Router, NEW q, peer' = [peer EXCEPT ![r] = q], used' = used,
         NetStep(tcp, tcp', used), PeerOK(q, tcp', r), OpenIsNext(q), Awake(q, tcp', r),
         InboxOK(inbox', tcp), AcceptedOK(accepted', tcp)
  PROVE  IInv'
<1>1. Later(tcp, tcp')
  BY DEF NetStep
<1>2. InboxOK(inbox', tcp') /\ AcceptedOK(accepted', tcp')
  BY <1>1, InboxLater, AcceptedLater
<1>3. used' \in 0..MaxUse /\ NetStep(tcp, tcp', used')
  BY DEF IInv
<1> QED
  BY <1>2, <1>3, KeptBy

\* The parts of a sequence.
LEMMA SeqTailHead ==
  ASSUME NEW S, NEW s \in Seq(S), s # <<>>
  PROVE  Tail(s) \in Seq(S) /\ Head(s) \in S
OBVIOUS

\* What bgp_write may make of a peer: nothing waits, the first message is sent, or it fails.
Resting(r) == [peer[r] EXCEPT !.t_write = FALSE]

Sending(r) ==
  [p |-> [Resting(r) EXCEPT !.obuf = Tail(@), !.t_write = Len(peer[r].obuf) > 1],
   net |-> Sent(tcp, r, peer[r].LocalAgent, Head(peer[r].obuf))]

FailsToSend(r) == \E lost \in Lost : Becomes(r, Failed(Both(Resting(r), tcp), r, lost))

LEMMA WriteIs ==
  ASSUME NEW r \in Router, Write(r)
  PROVE  \/ /\ peer[r].status = "Connect" \/ peer[r].obuf = <<>>
            /\ Becomes(r, Both(Resting(r), tcp))
         \/ /\ peer[r].obuf # <<>> /\ CanSend(tcp, r, peer[r].LocalAgent)
            /\ Becomes(r, Sending(r))
         \/ FailsToSend(r)
<1> DEFINE s == [Here(r) EXCEPT !.p.t_write = FALSE]
           sent == [p |-> [s.p EXCEPT !.obuf = Tail(@), !.t_write = Len(peer[r].obuf) > 1],
                    net |-> Sent(tcp, r, peer[r].LocalAgent, Head(peer[r].obuf))]
<1>1. \/ /\ peer[r].status = "Connect" \/ peer[r].obuf = <<>>
         /\ Becomes(r, s)
      \/ /\ peer[r].obuf # <<>> /\ CanSend(tcp, r, peer[r].LocalAgent)
         /\ Becomes(r, sent)
      \/ \E lost \in Lost : Becomes(r, Failed(s, r, lost))
  BY DEF Write
<1>2. s = Both(Resting(r), tcp)
  <2>1. s = [Here(r) EXCEPT !.p = [Here(r).p EXCEPT !.t_write = FALSE]]
    OBVIOUS
  <2>2. [Here(r).p EXCEPT !.t_write = FALSE] = Resting(r)
    BY HereWith DEF Resting
  <2> HIDE DEF s
  <2> QED
    BY <2>1, <2>2, HereWith
<1> HIDE DEF s
<1>3. s.p = Resting(r)
  BY <1>2, BothIs
<1>4. sent = Sending(r)
  BY <1>3 DEF Sending
<1> HIDE DEF sent
<1> QED
  BY <1>1, <1>2, <1>4 DEF FailsToSend

\* bgp_write sends, has nothing to send, or fails.
LEMMA WriteKeeps ==
  ASSUME IInv, NEW r \in Router, Write(r)
  PROVE  IInv'
<1> DEFINE p == Resting(r)
           c == peer[r].LocalAgent
<1>1. /\ peer[r] \in PeerType /\ Connected(peer[r]) /\ InUse(peer[r], tcp, r)
      /\ Awake(peer[r], tcp, r) /\ NetOK(tcp, used) /\ used \in Nat
      /\ InboxOK(inbox, tcp) /\ AcceptedOK(accepted, tcp)
  BY OfRouter
<1>2. /\ peer[r].events = <<>> /\ inbox' = inbox /\ accepted' = accepted /\ used' = used
  BY DEF Write, NoEvent
<1>3. /\ p \in PeerType /\ p.status = peer[r].status /\ p.LocalAgent = peer[r].LocalAgent
      /\ p.obuf = peer[r].obuf /\ p.t_read = peer[r].t_read /\ p.events = <<>>
      /\ p.timers = peer[r].timers
  BY <1>1, <1>2 DEF PeerType, Resting
<1>5. \/ /\ peer[r].status = "Connect" \/ peer[r].obuf = <<>>
         /\ Becomes(r, Both(p, tcp))
      \/ /\ peer[r].obuf # <<>> /\ CanSend(tcp, r, c)
         /\ Becomes(r, [p |-> [p EXCEPT !.obuf = Tail(@), !.t_write = Len(peer[r].obuf) > 1],
                        net |-> Sent(tcp, r, c, Head(peer[r].obuf))])
      \/ FailsToSend(r)
  <2>1. \/ /\ peer[r].status = "Connect" \/ peer[r].obuf = <<>>
           /\ Becomes(r, Both(Resting(r), tcp))
        \/ /\ peer[r].obuf # <<>> /\ CanSend(tcp, r, peer[r].LocalAgent)
           /\ Becomes(r, Sending(r))
        \/ FailsToSend(r)
    BY WriteIs
  <2> QED
    BY <2>1 DEF Sending
<1> HIDE DEF p
<1>6. InUse(p, tcp, r) /\ NoOpen(p)
  BY <1>1, <1>3 DEF InUse, NoOpen
<1>7. CASE /\ peer[r].status = "Connect" \/ peer[r].obuf = <<>>
           /\ Becomes(r, Both(p, tcp))
  <2>1. peer' = [peer EXCEPT ![r] = p] /\ tcp' = tcp
    BY <1>7, BothIs DEF Becomes
  <2>2. p.timers # {}
    BY <1>1, <1>2, <1>3, <1>7, TimerIsOn
  <2>3. PeerOK(p, tcp', r) /\ Awake(p, tcp', r)
    BY <1>1, <1>3, <1>6, <2>1, <2>2 DEF PeerOK, Connected, Awake
  <2>4. NetStep(tcp, tcp', used) /\ OpenIsNext(p)
    BY <1>1, <1>6, <2>1, NoStep, NoOpenIsNext
  <2> QED
    BY <1>1, <1>2, <2>1, <2>3, <2>4, PeerKept
<1>8. CASE /\ peer[r].obuf # <<>> /\ CanSend(tcp, r, c)
           /\ Becomes(r, [p |-> [p EXCEPT !.obuf = Tail(@), !.t_write = Len(peer[r].obuf) > 1],
                          net |-> Sent(tcp, r, c, Head(peer[r].obuf))])
  <2> DEFINE b == Len(peer[r].obuf) > 1
             q == [p EXCEPT !.obuf = Tail(@), !.t_write = b]
             m == Head(peer[r].obuf)
  <2>1. peer' = [peer EXCEPT ![r] = q] /\ tcp' = Sent(tcp, r, c, m)
    BY <1>8 DEF Becomes
  <2>2. peer[r].obuf \in Seq(Message) /\ c \in MaybeConn
    BY <1>1, PeerParts
  <2>3. m \in Message /\ Tail(p.obuf) \in Seq(Message) /\ c # NoConn
    BY <1>1, <1>3, <1>8, <2>2, SeqTailHead DEF Connected
  <2>4. b \in BOOLEAN
    OBVIOUS
  <2>5. c \in Conn /\ tcp[c].state[r] = "up"
    BY <1>8, <2>2, <2>3 DEF MaybeConn, CanSend
  <2> HIDE DEF b
  <2>6. /\ q \in PeerType /\ q.status = p.status /\ q.LocalAgent = c /\ q.events = <<>>
        /\ q.timers = p.timers
    BY <1>3, <2>3, <2>4 DEF PeerType
  <2> HIDE DEF q, m, c
  <2>7. NetStep(tcp, tcp', used)
    BY <1>1, <2>1, <2>3, <2>5, SendStep
  <2>8. Later(tcp, tcp')
    BY <2>7 DEF NetStep
  <2>9. InUse(q, tcp', r)
    BY <1>3, <1>6, <2>6, <2>8, StaysInUse DEF c
  <2>10. q.timers # {}
    <3>1. tcp[peer[r].LocalAgent].state[r] # "closed"
      BY <2>5 DEF c
    <3>2. peer[r].timers # {}
      BY <3>1, <1>1, <1>2, TimerIsOn
    <3> QED
      BY <3>2, <1>3, <2>6
  <2>11. PeerOK(q, tcp', r) /\ Awake(q, tcp', r) /\ OpenIsNext(q)
    BY <2>3, <2>6, <2>9, <2>10 DEF PeerOK, Connected, Awake, OpenIsNext
  <2> QED
    BY <1>1, <1>2, <2>1, <2>7, <2>11, PeerKept
<1>9. CASE FailsToSend(r)
  <2>1. PICK lost \in Lost : Becomes(r, Failed(Both(p, tcp), r, lost))
    BY <1>9 DEF FailsToSend, p
  <2> DEFINE d == Failed(Both(p, tcp), r, lost)
  <2>2. /\ d.p \in PeerType /\ NoOpen(d.p) /\ d.p.LocalAgent = NoConn /\ d.p.obuf = <<>>
        /\ d.p.t_read = NoConn /\ d.p.status = "Idle" /\ d.p.timers # {}
        /\ NetStep(tcp, d.net, used)
    BY <1>1, <1>3, <1>6, FailedDone
  <2>3. peer' = [peer EXCEPT ![r] = d.p] /\ tcp' = d.net
    BY <2>1 DEF Becomes
  <2> HIDE DEF d
  <2>4. PeerOK(d.p, tcp', r) /\ Awake(d.p, tcp', r) /\ OpenIsNext(d.p)
    BY <2>2, NoOpenIsNext DEF PeerOK, Connected, Awake, InUse, Down
  <2> QED
    BY <1>1, <1>2, <2>2, <2>3, <2>4, PeerKept
<1> QED
  BY <1>5, <1>7, <1>8, <1>9

-----------------------------------------------------------------------------
(***************************************************************************)
(* Interrupts.                                                             *)
(***************************************************************************)
\* A router that waits has a timer on.
LEMMA WaitingHasTimer ==
  ASSUME IInv, NEW r \in Router, Waiting(r)
  PROVE  peer[r].timers # {} /\ peer[r].events = <<>> /\ ~peer[r].t_write
<1>1. Awake(peer[r], tcp, r)
  BY OfRouter
<1> QED
  BY <1>1 DEF Waiting, NoEvent, Awake

\* The accepting thread is gone, or a list of messages is set up.
LEMMA ListsPut ==
  ASSUME NEW n \in Nat, NEW net, NetOK(net, n), NEW c \in Conn, NEW q \in Router
  PROVE  /\ NetStep(net, [net EXCEPT ![c].accept = {}], n)
         /\ NetStep(net, [net EXCEPT ![c].m_msgs = @ \cup {q}], n)
         /\ [net EXCEPT ![c].accept = {}][c].state = net[c].state
<1> DEFINE a == [state |-> net[c].state, wire |-> net[c].wire, m_msgs |-> net[c].m_msgs,
                 accept |-> {}]
           m == [state |-> net[c].state, wire |-> net[c].wire,
                 m_msgs |-> net[c].m_msgs \cup {q}, accept |-> net[c].accept]
           net1 == [net EXCEPT ![c].accept = {}]
           net2 == [net EXCEPT ![c].m_msgs = @ \cup {q}]
<1>1. ConnOK(net[c]) /\ net[c] \in TcpType
  BY ConnIsOK DEF ConnOK
<1>2. net[c].m_msgs \in SUBSET Router /\ {} \in SUBSET net[c].accept
      /\ net[c].accept \in SUBSET net[c].accept /\ net[c].m_msgs \cup {q} \in SUBSET Router
  BY <1>1, ConnParts
<1>3. ConnStep(net[c], a) /\ ConnStep(net[c], m) /\ a.state = net[c].state
  BY <1>1, <1>2, ListsStep
<1>4. a = [net[c] EXCEPT !.accept = {}]
  BY <1>1, PutLists
<1>5. m = [net[c] EXCEPT !.m_msgs = net[c].m_msgs \cup {q}]
  BY <1>1, PutLists
<1>6. net1 = [net EXCEPT ![c] = [net[c] EXCEPT !.accept = {}]]
  OBVIOUS
<1>7. net2 = [net EXCEPT ![c] = [net[c] EXCEPT !.m_msgs = net[c].m_msgs \cup {q}]]
  OBVIOUS
<1> HIDE DEF a, m, net1, net2
<1>8. net1 = Put(net, c, a) /\ net2 = Put(net, c, m)
  BY <1>4, <1>5, <1>6, <1>7 DEF Put
<1>9. NetStep(net, net1, n) /\ net1[c] = a
  BY <1>3, <1>8, OneSteps
<1>10. NetStep(net, net2, n)
  BY <1>3, <1>8, OneSteps
<1> QED
  BY <1>3, <1>9, <1>10 DEF net1, net2

\* bgp_accept.
LEMMA AcceptKeeps ==
  ASSUME IInv, NEW r \in Router, NEW c \in Conn, Reached(tcp, r, c), Accept(r, c),
         InboxOK(inbox', tcp)
  PROVE  IInv'
<1> DEFINE net == [tcp EXCEPT ![c].accept = {}]
           net2 == [net EXCEPT ![c].m_msgs = @ \cup {Other(r)}]
<1>1. NetOK(tcp, used) /\ used \in Nat /\ AcceptedOK(accepted, tcp) /\ Other(r) \in Router
  BY OfRouter, Others
<1>2. \/ accepted' = accepted /\ \E lost \in Lost : tcp' = Close(net, r, c, lost)
      \/ accepted' = [accepted EXCEPT ![r][c] = "Active"] /\ tcp' = net2
  BY DEF Accept
<1>3. NetStep(tcp, net, used) /\ net[c].state = tcp[c].state
  BY <1>1, ListsPut
<1> HIDE DEF net
<1>4. NetOK(net, used) /\ Later(tcp, net)
  BY <1>3 DEF NetStep
<1>5. NetStep(net, net2, used)
  BY <1>1, <1>4, ListsPut
<1> HIDE DEF net2
<1>6. NetStep(tcp, tcp', used) /\ AcceptedOK(accepted', tcp)
  <2>1. CASE accepted' = accepted /\ \E lost \in Lost : tcp' = Close(net, r, c, lost)
    <3>1. PICK lost \in Lost : tcp' = Close(net, r, c, lost)
      BY <2>1
    <3>2. net[c].state[r] # "none"
      BY <1>3 DEF Reached
    <3>3. NetStep(net, tcp', used)
      BY <1>1, <1>4, <3>1, <3>2, CloseStep, LostType
    <3> QED
      BY <1>1, <1>4, <2>1, <3>3, StepsFollow
  <2>2. CASE accepted' = [accepted EXCEPT ![r][c] = "Active"] /\ tcp' = net2
    <3>1. AcceptedOK(accepted', tcp)
      BY <1>1, <2>2, AcceptedSet
    <3> QED
      BY <1>4, <1>5, <2>2, <3>1, StepsFollow
  <2> QED
    BY <1>2, <2>1, <2>2
<1>7. Later(tcp, tcp') /\ peer' = peer /\ used' = used
  BY <1>6 DEF NetStep, Accept
<1>8. InboxOK(inbox', tcp') /\ AcceptedOK(accepted', tcp')
  BY <1>6, <1>7, InboxLater, AcceptedLater
<1>9. used' \in 0..MaxUse /\ NetStep(tcp, tcp', used')
  BY <1>6, <1>7 DEF IInv
<1> QED
  BY <1>7, <1>8, <1>9, KeptWithPeers

\* The connection of a temporary peer is handed over: what d then is.
HandedOver(d, p, net, r, c, lost) ==
  /\ d.p \in PeerType /\ d.p.LocalAgent = c /\ d.p.status = "OpenSent"
  /\ d.p.obuf = <<"Open">> /\ d.p.t_write /\ d.p.timers = {}
  /\ d.net = Hangup(net, r, p.LocalAgent, lost)
  /\ net[c].state[r] = "up" => d.p.events = <<"ReceiveOpen">> /\ d.p.t_read = c
  /\ net[c].state[r] # "up" => d.p.events = <<>> /\ d.p.t_read = NoConn

LEMMA TransferredIs ==
  ASSUME NEW net, NEW r, NEW p \in PeerType, NEW c \in Conn, NEW lost,
         NEW d, d = Transferred(Both(p, net), r, c, lost)
  PROVE  HandedOver(d, p, net, r, c, lost)
<1> DEFINE x == Stopped(Both(p, net), r, lost)
           q == [x.p EXCEPT !.LocalAgent = c, !.status = "OpenSent"]
           o == Queued(Both(q, x.net), <<"Open">>)
           l == Listening(o)
<1>1. /\ x.p \in PeerType /\ x.p.obuf = <<>> /\ x.p.t_read = NoConn /\ x.p.timers = {}
      /\ x.p.events = <<>> /\ x.net = Hangup(net, r, p.LocalAgent, lost)
  BY StoppedIs
<1>2. d = IF net[c].state[r] = "up" THEN [l EXCEPT !.p.events = <<"ReceiveOpen">>] ELSE o
  <2>1. Both(p, net).net = net
    BY BothIs
  <2>2. Both(q, x.net) = [p |-> q, net |-> x.net]
    BY DEF Both
  <2> QED
    BY <2>1, <2>2 DEF Transferred
<1> HIDE DEF x
<1>3. c # NoConn /\ c \in MaybeConn
  BY DEF Conn, NoConn, MaybeConn
<1>4. "OpenSent" \in Status /\ <<"Open">> \in Seq(Message) /\ <<"ReceiveOpen">> \in Seq(Event)
  BY DEF Status, Message, Event
<1>5. /\ q \in PeerType /\ q.LocalAgent = c /\ q.status = "OpenSent" /\ q.obuf = <<>>
      /\ q.t_read = NoConn /\ q.timers = {} /\ q.events = <<>>
  BY <1>1, <1>3, <1>4 DEF PeerType, MaybeConn
<1> HIDE DEF q
<1>6. /\ o.p \in PeerType /\ o.p.LocalAgent = c /\ o.p.status = "OpenSent"
      /\ o.p.t_write /\ o.p.t_read = NoConn /\ o.p.timers = {} /\ o.p.events = <<>>
      /\ o.net = x.net
  <2> DEFINE msgs == <<"Open">>
  <2>1. o = Queued(Both(q, x.net), msgs) /\ msgs \in Seq(Message)
    BY <1>4
  <2> HIDE DEF msgs, o
  <2>2. /\ o.p \in PeerType /\ o.p.t_write
        /\ o.p.status = q.status /\ o.p.LocalAgent = q.LocalAgent /\ o.p.t_read = q.t_read
        /\ o.p.timers = q.timers /\ o.p.events = q.events
        /\ o.net = x.net
    BY <1>5, <2>1, QueuedIs
  <2> QED
    BY <1>5, <2>2
<1>7. o.p.obuf = <<"Open">> /\ o = Both(o.p, o.net)
  <2>1. o.p.obuf = q.obuf \o <<"Open">>
    <3>1. o.p = [q EXCEPT !.obuf = @ \o <<"Open">>, !.t_write = TRUE]
      BY BothIs DEF Queued
    <3>2. q \in PeerType
      BY <1>5
    <3> QED
      BY <3>1, <3>2 DEF PeerType
  <2>2. o.p.obuf = <<"Open">>
    BY <2>1, <1>5, <1>4
  <2>3. o = Both(o.p, o.net)
    BY DEF Queued, Both
  <2> QED
    BY <2>2, <2>3
<1> HIDE DEF o
<1>8. CASE net[c].state[r] = "up"
  <2>1. l = Listening(Both(o.p, o.net)) /\ o.p \in PeerType
    BY <1>6, <1>7
  <2>2. d = [l EXCEPT !.p.events = <<"ReceiveOpen">>]
    BY <1>2, <1>8
  <2> HIDE DEF l
  <2>3. /\ l.p \in PeerType /\ l = Both(l.p, o.net)
        /\ l.p.t_read = IF o.p.t_read = NoConn THEN o.p.LocalAgent ELSE o.p.t_read
        /\ l.p.status = o.p.status /\ l.p.LocalAgent = o.p.LocalAgent
        /\ l.p.obuf = o.p.obuf /\ l.p.t_write = o.p.t_write /\ l.p.timers = o.p.timers
    BY <2>1, ListeningIs
  <2>4. d.p = [l.p EXCEPT !.events = <<"ReceiveOpen">>] /\ d.net = o.net
    BY <2>2, <2>3 DEF Both
  <2>5. /\ d.p \in PeerType /\ d.p.LocalAgent = l.p.LocalAgent
        /\ d.p.events = <<"ReceiveOpen">>
        /\ d.p.t_read = l.p.t_read /\ d.p.status = l.p.status /\ d.p.obuf = l.p.obuf
        /\ d.p.timers = l.p.timers
    BY <1>4, <2>3, <2>4 DEF PeerType
  <2>6. d.p.t_write = l.p.t_write
    BY <2>3, <2>4 DEF PeerType
  <2>7. d.p.t_write
    BY <1>6, <2>3, <2>6, Zenon
  <2>8. /\ d.p.LocalAgent = c /\ d.p.t_read = c /\ d.p.status = "OpenSent"
        /\ d.p.obuf = <<"Open">> /\ d.p.timers = {}
    BY <1>6, <1>7, <2>3, <2>5
  <2>9. d.net = Hangup(net, r, p.LocalAgent, lost)
    BY <1>1, <1>6, <2>4
  <2> QED
    BY <1>8, <2>5, <2>7, <2>8, <2>9 DEF HandedOver
<1>9. CASE net[c].state[r] # "up"
  <2>1. d = o
    BY <1>2, <1>9
  <2>2. d.p.t_write
    BY <1>6, <2>1, Zenon
  <2> QED
    BY <1>1, <1>6, <1>7, <1>9, <2>1, <2>2 DEF HandedOver
<1> QED
  BY <1>8, <1>9

\* That keeps what a peer needs.
LEMMA TransferredDone ==
  ASSUME NEW n \in Nat, NEW net, NetOK(net, n), NEW r \in Router, NEW p \in PeerType,
         InUse(p, net, r), NEW c \in Conn, Reached(net, r, c), NEW lost \in Lost,
         NEW d, d = Transferred(Both(p, net), r, c, lost)
  PROVE  PeerOK(d.p, d.net, r) /\ NoOpen(d.p) /\ Awake(d.p, d.net, r) /\ NetStep(net, d.net, n)
<1>1. HandedOver(d, p, net, r, c, lost)
  BY TransferredIs
<1>2. NetStep(net, d.net, n)
  <2> DEFINE x == Stopped(Both(p, net), r, lost)
  <2>1. NetStep(net, x.net, n) /\ x.net = Hangup(net, r, p.LocalAgent, lost)
    BY StoppedDone, StoppedIs
  <2> HIDE DEF x
  <2>2. d.net = Hangup(net, r, p.LocalAgent, lost)
    BY <1>1 DEF HandedOver
  <2> QED
    BY <2>1, <2>2
<1>3. Later(net, d.net) /\ Reached(d.net, r, c)
  BY <1>2, StaysReached DEF NetStep
<1>4. c # NoConn
  BY DEF Conn, NoConn
<1>5. PeerOK(d.p, d.net, r)
  BY <1>1, <1>3, <1>4 DEF PeerOK, Connected, InUse, Reached, HandedOver
<1>6. NoOpen(d.p)
  BY <1>1 DEF NoOpen, HandedOver
<1>7. Awake(d.p, d.net, r)
  <2>1. CASE net[c].state[r] = "up"
    BY <1>1, <2>1 DEF Awake, HandedOver
  <2>2. CASE net[c].state[r] # "up"
    <3>1. d.net[c].state[r] = "closed"
      BY <1>3, <2>2 DEF Later, Reached
    <3>2. d.p.obuf # <<>>
      BY <1>1 DEF HandedOver
    <3> QED
      BY <1>1, <3>1, <3>2 DEF Awake, HandedOver
  <2> QED
    BY <2>1, <2>2
<1> QED
  BY <1>2, <1>5, <1>6, <1>7

\* bgp_read of a temporary peer.
LEMMA ReadAcceptedKeeps ==
  ASSUME IInv, NEW r \in Router, NEW c \in Conn, NEW m, ReadAccepted(r, c, m),
         InboxOK(inbox', tcp)
  PROVE  IInv'
<1>1. /\ peer[r] \in PeerType /\ InUse(peer[r], tcp, r) /\ NetOK(tcp, used) /\ used \in Nat
      /\ AcceptedOK(accepted, tcp)
  BY OfRouter
<1>2. /\ accepted[r][c] = "OpenSent" /\ used' = used
      /\ accepted' = [accepted EXCEPT ![r][c] = "none"]
  BY DEF ReadAccepted
<1>3. Reached(tcp, r, c)
  BY <1>1, <1>2 DEF AcceptedOK
<1>4. AcceptedOK(accepted', tcp)
  BY <1>1, <1>2, AcceptedSet
<1>5. PICK lost \in Lost :
        \/ Becomes(r, Transferred(Here(r), r, c, lost))
        \/ tcp' = Hangup(tcp, r, c, lost) /\ peer' = peer
  BY DEF ReadAccepted
<1>6. CASE Becomes(r, Transferred(Here(r), r, c, lost))
  <2> DEFINE d == Transferred(Both(peer[r], tcp), r, c, lost)
  <2>1. peer' = [peer EXCEPT ![r] = d.p] /\ tcp' = d.net
    BY <1>6, HereWith DEF Becomes
  <2>2. PeerOK(d.p, d.net, r) /\ NoOpen(d.p) /\ Awake(d.p, d.net, r) /\ NetStep(tcp, d.net, used)
    BY <1>1, <1>3, TransferredDone
  <2> HIDE DEF d
  <2>3. OpenIsNext(d.p)
    BY <2>2, NoOpenIsNext
  <2> QED
    BY <1>2, <1>4, <2>1, <2>2, <2>3, PeerKept
<1>7. CASE tcp' = Hangup(tcp, r, c, lost) /\ peer' = peer
  <2>1. NetStep(tcp, tcp', used)
    BY <1>1, <1>3, <1>7, HangupStep, LostType DEF Reached
  <2>2. Later(tcp, tcp')
    BY <2>1 DEF NetStep
  <2>3. InboxOK(inbox', tcp') /\ AcceptedOK(accepted', tcp')
    BY <1>4, <2>2, InboxLater, AcceptedLater
  <2>4. used' \in 0..MaxUse /\ NetStep(tcp, tcp', used')
    BY <1>2, <2>1 DEF IInv
  <2> QED
    BY <1>7, <2>3, <2>4, KeptWithPeers
<1> QED
  BY <1>5, <1>6, <1>7

\* A peer with a connection and one event.
LEMMA OneEvent ==
  ASSUME NEW q \in PeerType, NEW net, NEW r, q.LocalAgent # NoConn, InUse(q, net, r),
         q.events # <<>>, Len(q.events) = 1
  PROVE  PeerOK(q, net, r) /\ OpenIsNext(q) /\ Awake(q, net, r)
<1>1. PeerOK(q, net, r)
  BY DEF PeerOK, Connected
<1>2. Awake(q, net, r)
  BY DEF Awake
<1>3. OpenIsNext(q)
  BY DEF OpenIsNext
<1> QED
  BY <1>1, <1>2, <1>3

\* bgp_connect_check.
LEMMA ConnectCheckKeeps ==
  ASSUME IInv, NEW r \in Router, NEW c, ConnectCheck(r, c), InboxOK(inbox', tcp)
  PROVE  IInv'
<1> DEFINE e == IF tcp[peer[r].LocalAgent].state[r] = "up" THEN "Open" ELSE "OpenFailed"
           ev == <<e>>
           q == [peer[r] EXCEPT !.t_read = NoConn, !.events = ev]
<1>1. /\ peer[r] \in PeerType /\ Connected(peer[r]) /\ InUse(peer[r], tcp, r)
      /\ NetOK(tcp, used) /\ AcceptedOK(accepted, tcp)
  BY OfRouter
<1>2. /\ peer' = [peer EXCEPT ![r].t_read = NoConn, ![r].events = ev]
      /\ peer[r].status = "Connect"
      /\ accepted' = accepted /\ tcp' = tcp /\ used' = used
  BY DEF ConnectCheck
<1>3. e \in Event
  BY DEF Event
<1> HIDE DEF e
<1>4. ev \in Seq(Event) /\ ev # <<>> /\ Len(ev) = 1
  BY <1>3
<1> HIDE DEF ev
<1>5. peer' = [peer EXCEPT ![r] = q]
  BY <1>1, <1>2 DEF IInv
<1>6. /\ q \in PeerType /\ q.status = peer[r].status /\ q.LocalAgent = peer[r].LocalAgent
      /\ q.obuf = peer[r].obuf /\ q.events = ev
  BY <1>1, <1>4 DEF PeerType
<1> HIDE DEF q
<1>7. q.LocalAgent # NoConn
  BY <1>1, <1>2, <1>6 DEF Connected, Down
<1>8. PeerOK(q, tcp', r) /\ OpenIsNext(q) /\ Awake(q, tcp', r)
  <2>1. InUse(q, tcp', r)
    BY <1>1, <1>2, <1>6 DEF InUse
  <2> QED
    BY <1>4, <1>6, <1>7, <2>1, OneEvent
<1>9. NetStep(tcp, tcp', used)
  BY <1>1, <1>2, NoStep
<1> QED
  BY <1>1, <1>2, <1>5, <1>8, <1>9, PeerKept

\* What bgp_read may make of a peer: it goes on, it answers, or it has an event.
Reading(r) == [peer[r] EXCEPT !.t_read = peer[r].LocalAgent]

Answers(r) == \E lost \in Lost : Becomes(r, Notified(Both(Reading(r), tcp), r, lost))

Hearing(r, m) == [Reading(r) EXCEPT !.events = <<ReadEvent[m]>>]

LEMMA ReadIs ==
  ASSUME NEW r \in Router, NEW c, NEW m, Read(r, c, m)
  PROVE  \/ m = "Open" /\ Becomes(r, Both(Reading(r), tcp))
         \/ m = "Update" /\ Answers(r)
         \/ /\ m = "Update" => peer[r].status = "Established"
            /\ Becomes(r, Both(Hearing(r, m), tcp))
<1> DEFINE s == [Here(r) EXCEPT !.p.t_read = peer[r].LocalAgent]
           ev == <<ReadEvent[m]>>
<1>1. \/ m = "Open" /\ Becomes(r, s)
      \/ m = "Update" /\ \E lost \in Lost : Becomes(r, Notified(s, r, lost))
      \/ /\ m = "Update" => peer[r].status = "Established"
         /\ Becomes(r, [s EXCEPT !.p.events = ev])
  BY DEF Read
<1>2. s = [Here(r) EXCEPT !.p = [Here(r).p EXCEPT !.t_read = peer[r].LocalAgent]]
  OBVIOUS
<1>3. [Here(r).p EXCEPT !.t_read = peer[r].LocalAgent] = Reading(r)
  BY HereWith DEF Reading
<1>4. [s EXCEPT !.p.events = ev] = [s EXCEPT !.p = [s.p EXCEPT !.events = ev]]
  OBVIOUS
<1>5. Hearing(r, m) = [Reading(r) EXCEPT !.events = ev]
  BY DEF Hearing
<1> HIDE DEF s, ev
<1>6. s = Both(Reading(r), tcp)
  BY <1>2, <1>3, HereWith
<1>7. [s EXCEPT !.p = [s.p EXCEPT !.events = ev]] = Both(Hearing(r, m), tcp)
  BY <1>5, <1>6 DEF Both
<1> QED
  BY <1>1, <1>4, <1>6, <1>7 DEF Answers

\* bgp_read of the configured peer.
LEMMA ReadKeeps ==
  ASSUME IInv, NEW r \in Router, Waiting(r), NEW c \in Conn, NEW m \in Message \cup {"Zero"},
         Read(r, c, m), InboxOK(inbox', tcp)
  PROVE  IInv'
<1> DEFINE p == Reading(r)
<1>1. /\ peer[r] \in PeerType /\ Connected(peer[r]) /\ InUse(peer[r], tcp, r)
      /\ NetOK(tcp, used) /\ used \in Nat /\ AcceptedOK(accepted, tcp)
  BY OfRouter
<1>2. /\ peer[r].t_read = c /\ accepted' = accepted /\ used' = used
      /\ peer[r].events = <<>> /\ peer[r].timers # {}
  BY WaitingHasTimer DEF Read
<1>3. peer[r].LocalAgent # NoConn /\ peer[r].LocalAgent \in MaybeConn
  BY <1>1, <1>2, PeerParts DEF Connected, Conn, NoConn
<1>4. /\ p \in PeerType /\ p.status = peer[r].status /\ p.LocalAgent = peer[r].LocalAgent
      /\ p.obuf = peer[r].obuf /\ p.events = <<>> /\ p.timers = peer[r].timers
  BY <1>1, <1>2, <1>3 DEF PeerType, MaybeConn, Reading
<1>5. ReadEvent[m] \in Event /\ ReadEvent[m] # "Open"
  BY DEF ReadEvent, Event, Message
<1> DEFINE ev == <<ReadEvent[m]>>
<1>6. \/ Becomes(r, Both(p, tcp))
      \/ Answers(r)
      \/ Becomes(r, Both([p EXCEPT !.events = ev], tcp))
  <2>1. \/ Becomes(r, Both(Reading(r), tcp))
        \/ Answers(r)
        \/ Becomes(r, Both(Hearing(r, m), tcp))
    BY ReadIs
  <2>2. Hearing(r, m) = [p EXCEPT !.events = ev]
    BY DEF Hearing
  <2> QED
    BY <2>1, <2>2
<1> HIDE DEF p
<1>7. InUse(p, tcp, r) /\ p.LocalAgent # NoConn
  BY <1>1, <1>3, <1>4 DEF InUse
<1>8. CASE Becomes(r, Both(p, tcp))
  <2>1. peer' = [peer EXCEPT ![r] = p] /\ tcp' = tcp
    BY <1>8, BothIs DEF Becomes
  <2>2. PeerOK(p, tcp', r) /\ OpenIsNext(p) /\ Awake(p, tcp', r)
    BY <1>2, <1>4, <1>7, <2>1 DEF PeerOK, Connected, OpenIsNext, Awake
  <2>3. NetStep(tcp, tcp', used)
    BY <1>1, <2>1, NoStep
  <2> QED
    BY <1>1, <1>2, <2>1, <2>2, <2>3, PeerKept
<1>9. CASE Answers(r)
  <2>1. PICK lost \in Lost : Becomes(r, Notified(Both(p, tcp), r, lost))
    BY <1>9 DEF Answers, p
  <2> DEFINE d == Notified(Both(p, tcp), r, lost)
  <2>2. /\ d.p \in PeerType /\ NoOpen(d.p) /\ d.p.LocalAgent = NoConn /\ d.p.obuf = <<>>
        /\ d.p.t_read = NoConn /\ d.p.status = "Idle" /\ d.p.timers # {}
        /\ NetStep(tcp, d.net, used)
    BY <1>1, <1>4, <1>7, NotifiedDone
  <2>3. peer' = [peer EXCEPT ![r] = d.p] /\ tcp' = d.net
    BY <2>1 DEF Becomes
  <2> HIDE DEF d
  <2>4. PeerOK(d.p, tcp', r) /\ Awake(d.p, tcp', r) /\ OpenIsNext(d.p)
    BY <2>2, NoOpenIsNext DEF PeerOK, Connected, Awake, InUse, Down
  <2> QED
    BY <1>1, <1>2, <2>2, <2>3, <2>4, PeerKept
<1>10. CASE Becomes(r, Both([p EXCEPT !.events = ev], tcp))
  <2> DEFINE q == [p EXCEPT !.events = ev]
  <2>1. peer' = [peer EXCEPT ![r] = q] /\ tcp' = tcp
    BY <1>10, BothIs DEF Becomes
  <2>2. ev \in Seq(Event) /\ ev # <<>> /\ Len(ev) = 1 /\ ev[1] # "Open"
    BY <1>5
  <2> HIDE DEF ev
  <2>3. /\ q \in PeerType /\ q.LocalAgent = p.LocalAgent /\ q.events = ev
    BY <1>4, <2>2 DEF PeerType
  <2> HIDE DEF q
  <2>4. PeerOK(q, tcp', r) /\ OpenIsNext(q) /\ Awake(q, tcp', r)
    <3>1. InUse(q, tcp', r) /\ q.LocalAgent # NoConn
      BY <1>7, <2>1, <2>3 DEF InUse
    <3> QED
      BY <2>2, <2>3, <3>1, OneEvent
  <2>5. NetStep(tcp, tcp', used)
    BY <1>1, <2>1, NoStep
  <2> QED
    BY <1>1, <1>2, <2>1, <2>4, <2>5, PeerKept
<1> QED
  BY <1>6, <1>8, <1>9, <1>10

\* An interrupt, for whoever waits for it.
LEMMA InterruptKeeps ==
  ASSUME IInv, NEW r \in Router, Interrupt(r)
  PROVE  IInv'
<1> DEFINE c == Head(inbox[r])[1]
           m == Head(inbox[r])[2]
<1>1. /\ InboxOK(inbox, tcp) /\ AcceptedOK(accepted, tcp) /\ NetOK(tcp, used)
      /\ inbox[r] # <<>> /\ inbox' = [inbox EXCEPT ![r] = Tail(@)] /\ Waiting(r)
  BY OfRouter DEF Interrupt
<1>2. InboxOK(inbox', tcp)
  BY <1>1, InboxTail
<1>3. c \in Conn /\ m \in Message \cup {"Zero"} /\ Reached(tcp, r, c)
  BY <1>1, InboxHead
<1>4. \/ Accept(r, c) \/ ReadAccepted(r, c, m) \/ ConnectCheck(r, c) \/ Read(r, c, m)
      \/ Ignore(r, c)
  BY DEF Interrupt
<1> HIDE DEF c, m
<1>5. CASE Ignore(r, c)
  <2>1. peer' = peer /\ accepted' = accepted /\ tcp' = tcp /\ used' = used
    BY <1>5 DEF Ignore
  <2>2. NetStep(tcp, tcp', used') /\ used' \in 0..MaxUse
    BY <1>1, <2>1, NoStep DEF IInv
  <2> QED
    BY <1>1, <1>2, <2>1, <2>2, KeptWithPeers
<1> QED
  BY <1>1, <1>2, <1>3, <1>4, <1>5, AcceptKeeps, ReadAcceptedKeeps, ConnectCheckKeeps, ReadKeeps

-----------------------------------------------------------------------------
(***************************************************************************)
(* The network and the operator.                                           *)
(***************************************************************************)
\* `clear ip bgp' comes after the events that wait.
LEMMA ClearBgpKeeps ==
  ASSUME IInv, NEW r \in Router, ClearBgp(r)
  PROVE  IInv'
<1> DEFINE ev == Append(peer[r].events, "Stop")
           q == [peer[r] EXCEPT !.events = ev]
<1>1. /\ peer[r] \in PeerType /\ Connected(peer[r]) /\ InUse(peer[r], tcp, r)
      /\ OpenIsNext(peer[r]) /\ NetOK(tcp, used) /\ used \in Nat /\ MaxUse \in Nat
      /\ InboxOK(inbox, tcp) /\ AcceptedOK(accepted, tcp)
  BY OfRouter
<1>2. /\ used' = used + 1 /\ used < MaxUse /\ peer' = [peer EXCEPT ![r] = q]
      /\ inbox' = inbox /\ accepted' = accepted /\ tcp' = tcp
  BY DEF ClearBgp, Use
<1>3. peer[r].events \in Seq(Event) /\ "Stop" \in Event
  BY <1>1, PeerParts DEF Event
<1>4. ev \in Seq(Event) /\ ev # <<>>
  BY <1>3
<1>5. \A i \in 1..Len(ev) : ev[i] = "Open" => (i \in 1..Len(peer[r].events) /\ ev[i] = peer[r].events[i])
  BY <1>3, AppendAt
<1> HIDE DEF ev
<1>6. /\ q \in PeerType /\ q.status = peer[r].status /\ q.LocalAgent = peer[r].LocalAgent
      /\ q.obuf = peer[r].obuf /\ q.t_read = peer[r].t_read /\ q.events = ev
  BY <1>1, <1>4 DEF PeerType
<1> HIDE DEF q
<1>7. PeerOK(q, tcp', r) /\ Awake(q, tcp', r)
  BY <1>1, <1>2, <1>4, <1>6 DEF PeerOK, Connected, InUse, Awake
<1>8. OpenIsNext(q)
  BY <1>1, <1>5, <1>6 DEF OpenIsNext
<1>9. NetStep(tcp, tcp', used') /\ used' \in 0..MaxUse
  BY <1>1, <1>2, NoStep, MoreSteps DEF IInv
<1> QED
  BY <1>1, <1>2, <1>7, <1>8, <1>9, KeptBy

\* The parts of HandshakeFirst at one end.
HandshakeAt(t, q) ==
  /\ t.state[q] # "none" => t.state[Other(q)] # "none"
  /\ t.state[q] = "none" => t.wire[q] = <<>>
  /\ t.state[q] = "opening" /\ t.wire[q] # <<>> => Head(t.wire[q]) = "Up"
  /\ t.state[q] = "opening" /\ t.state[Other(q)] = "up" => t.wire[q] # <<>>
  /\ t.state[q] = "opening" /\ t.wire[q] # <<>> /\ q \in t.accept =>
       t.state[Other(q)] # "opening"

\* The handshake at both ends.
LEMMA BothEnds ==
  ASSUME NEW t, NEW r \in Router
  PROVE  HandshakeFirst(t) <=> HandshakeAt(t, r) /\ HandshakeAt(t, Other(r))
BY Others DEF HandshakeFirst, HandshakeAt

\* The end of the handshake arrives.
LEMMA JoinedStep ==
  ASSUME NEW t, ConnOK(t), NEW r \in Router, t.wire[r] # <<>>, t.state[r] = "opening"
  PROVE  ConnStep(t, Joined(t, r)) /\ Joined(t, r).state[r] = "up"
<1> DEFINE t2 == Joined(t, r)
           q == Other(r)
           S == Message \cup {"Up", "Fin"}
<1>1. t \in TcpType /\ HandshakeFirst(t) /\ q \in Router /\ q # r /\ Other(q) = r
  BY Others DEF ConnOK
<1>2. t.state \in [Router -> Sides] /\ t.wire \in [Router -> Seq(S)]
  BY <1>1, ConnParts
<1>3. /\ t2.state = [t.state EXCEPT ![r] = "up"]
      /\ t2.wire = [x \in Router |->
            IF x = r THEN Tail(t.wire[x])
            ELSE IF r \in t.accept THEN t.wire[x] ELSE Append(t.wire[x], "Up")]
      /\ t2.m_msgs = t.m_msgs /\ t2.accept = t.accept
      /\ t2 = [state |-> t2.state, wire |-> t2.wire, m_msgs |-> t2.m_msgs,
               accept |-> t2.accept]
  BY DEF Joined
<1> HIDE DEF t2
<1>4. \A x \in Router : t2.state[x] = IF x = r THEN "up" ELSE t.state[x]
  BY <1>2, <1>3
<1>5. /\ t2.wire[r] = Tail(t.wire[r])
      /\ t2.wire[q] = IF r \in t.accept THEN t.wire[q] ELSE Append(t.wire[q], "Up")
  BY <1>1, <1>3
<1>6. t2 \in TcpType
  <2>1. Tail(t.wire[r]) \in Seq(S) /\ t.wire[q] \in Seq(S) /\ Append(t.wire[q], "Up") \in Seq(S)
    BY <1>1, <1>2, SeqTailHead
  <2>2. \A x \in Router : x = r \/ x = q
    BY Others
  <2>3. t2.wire \in [Router -> Seq(S)]
    <3> HIDE DEF S
    <3>1. \A x \in Router : t2.wire[x] \in Seq(S)
      BY <1>5, <2>1, <2>2
    <3> QED
      BY <1>3, <3>1
  <2>4. t2.state \in [Router -> Sides] /\ t2.m_msgs \in SUBSET Router /\ t2.accept \in SUBSET Router
    BY <1>1, <1>2, <1>3, ConnParts DEF Sides
  <2>5. [state |-> t2.state, wire |-> t2.wire, m_msgs |-> t2.m_msgs, accept |-> t2.accept]
          \in TcpType
    BY <2>3, <2>4, ConnOf
  <2> QED
    BY <2>5, <1>3
<1>7. t.state[q] # "none"
  BY <1>1 DEF HandshakeFirst
<1>8. HandshakeAt(t2, r)
  BY <1>1, <1>4, <1>7 DEF HandshakeAt
<1>9. HandshakeAt(t2, q)
  <2>1. t2.state[q] = t.state[q] /\ t2.state[r] = "up" /\ t2.state[Other(q)] = "up"
    BY <1>1, <1>4
  <2>2. t.wire[q] # <<>> /\ t.state[q] = "opening" => Head(t.wire[q]) = "Up"
    BY <1>1 DEF HandshakeFirst
  <2>3. r \in t.accept => t.state[q] # "opening"
    BY <1>1 DEF HandshakeFirst
  <2>4. t.wire[q] \in Seq(S)
    BY <1>1, <1>2
  <2>5. Append(t.wire[q], "Up") # <<>>
        /\ Head(Append(t.wire[q], "Up")) = IF t.wire[q] = <<>> THEN "Up" ELSE Head(t.wire[q])
    BY <2>4
  <2>6. t.state[q] = "opening" => t2.wire[q] # <<>> /\ Head(t2.wire[q]) = "Up"
    BY <1>5, <2>2, <2>3, <2>5
  <2> QED
    BY <1>7, <2>1, <2>6 DEF HandshakeAt
<1>10. HandshakeFirst(t2)
  BY <1>8, <1>9, BothEnds
<1>11. \A x \in Router :
         /\ t.state[x] = "none" <=> t2.state[x] = "none"
         /\ t.state[x] \in {"up", "closed"} => t2.state[x] \in {"up", "closed"}
         /\ t.state[x] = "closed" => t2.state[x] = "closed"
  BY <1>4
<1> QED
  BY <1>4, <1>6, <1>10, <1>11 DEF ConnStep, ConnOK, t2

\* Something that is not the end of the handshake is taken from the wire, and a FIN
\* closes the end.
Taken(t, r) ==
  [state |-> t.state, wire |-> [t.wire EXCEPT ![r] = Tail(@)], m_msgs |-> t.m_msgs,
   accept |-> t.accept]

FinTaken(t, r) ==
  [state |-> [t.state EXCEPT ![r] = "closed"], wire |-> [t.wire EXCEPT ![r] = Tail(@)],
   m_msgs |-> t.m_msgs, accept |-> t.accept]

\* Anything else that arrives is a step of its connection.
LEMMA TakenStep ==
  ASSUME NEW t, ConnOK(t), NEW r \in Router, t.wire[r] # <<>>, t.state[r] \in {"up", "closed"},
         NEW t2, t2 = Taken(t, r) \/ t2 = FinTaken(t, r)
  PROVE  ConnStep(t, t2)
<1> DEFINE q == Other(r)
           S == Message \cup {"Up", "Fin"}
<1>1. t \in TcpType /\ HandshakeFirst(t) /\ q \in Router /\ q # r /\ Other(q) = r
  BY Others DEF ConnOK
<1>2. t.state \in [Router -> Sides] /\ t.wire \in [Router -> Seq(S)]
  BY <1>1, ConnParts
<1>3. /\ t2.state = t.state \/ t2.state = [t.state EXCEPT ![r] = "closed"]
      /\ t2.wire = [t.wire EXCEPT ![r] = Tail(@)]
      /\ t2.m_msgs = t.m_msgs /\ t2.accept = t.accept
      /\ t2 = [state |-> t2.state, wire |-> t2.wire, m_msgs |-> t2.m_msgs,
               accept |-> t2.accept]
  BY DEF Taken, FinTaken
<1>4. /\ \A x \in Router : x # r => t2.state[x] = t.state[x]
      /\ t2.state[r] = t.state[r] \/ t2.state[r] = "closed"
      /\ t2.state \in [Router -> Sides]
  BY <1>2, <1>3 DEF Sides
<1>5. t2.wire[r] = Tail(t.wire[r]) /\ t2.wire[q] = t.wire[q]
  BY <1>1, <1>2, <1>3
<1>6. t2 \in TcpType
  <2>1. Tail(t.wire[r]) \in Seq(S)
    BY <1>1, <1>2, SeqTailHead
  <2>2. t2.wire \in [Router -> Seq(S)]
    <3> HIDE DEF S
    <3> QED
      BY <1>2, <1>3, <2>1
  <2>3. t2.m_msgs \in SUBSET Router /\ t2.accept \in SUBSET Router
    BY <1>1, <1>3, ConnParts
  <2>4. [state |-> t2.state, wire |-> t2.wire, m_msgs |-> t2.m_msgs, accept |-> t2.accept]
          \in TcpType
    BY <1>4, <2>2, <2>3, ConnOf
  <2> QED
    BY <2>4, <1>3
<1>7. HandshakeAt(t, r) /\ HandshakeAt(t, q)
  BY <1>1, BothEnds
<1>8. t2.state[r] \in {"up", "closed"} /\ t2.state[q] = t.state[q]
  BY <1>1, <1>4
<1>9. HandshakeAt(t2, r)
  BY <1>1, <1>7, <1>8 DEF HandshakeAt
<1>10. t2.state[r] = "up" => t.state[r] = "up"
  BY <1>4
<1>11. HandshakeAt(t2, q)
  BY <1>1, <1>3, <1>5, <1>7, <1>8, <1>10 DEF HandshakeAt
<1>12. HandshakeFirst(t2)
  BY <1>9, <1>11, BothEnds
<1>13. \A x \in Router :
         /\ t.state[x] = "none" <=> t2.state[x] = "none"
         /\ t.state[x] \in {"up", "closed"} => t2.state[x] \in {"up", "closed"}
         /\ t.state[x] = "closed" => t2.state[x] = "closed"
  BY <1>4
<1> QED
  BY <1>6, <1>12, <1>13 DEF ConnStep, ConnOK

\* Whatever arrives keeps the invariant.
LEMMA DeliverKeeps ==
  ASSUME IInv, NEW r \in Router, NEW c \in Conn, Deliver(r, c)
  PROVE  IInv'
<1> DEFINE t == tcp[c]
           m == Head(t.wire[r])
           net == [tcp EXCEPT ![c].wire[r] = Tail(@)]
<1>1. /\ NetOK(tcp, used) /\ InboxOK(inbox, tcp) /\ AcceptedOK(accepted, tcp) /\ used \in Nat
      /\ tcp \in [Conn -> TcpType] /\ t \in TcpType /\ ConnOK(t)
  BY OfRouter, ConnIsOK DEF NetOK, Net
<1>2. /\ t.wire[r] # <<>> /\ peer' = peer /\ accepted' = accepted /\ used' = used
  BY DEF Deliver
<1>3. t.state[r] # "none" /\ (t.state[r] = "opening" => m = "Up") /\ t.state[r] \in Sides
  BY <1>1, <1>2, ConnParts DEF ConnOK, HandshakeFirst
<1>4. net = Put(tcp, c, Taken(t, r))
  <2>1. Taken(t, r) = [t EXCEPT !.wire = [t.wire EXCEPT ![r] = Tail(@)]]
    BY <1>1, PutLists DEF Taken
  <2> DEFINE w == [t.wire EXCEPT ![r] = Tail(@)]
  <2>2. net = [tcp EXCEPT ![c] = [t EXCEPT !.wire = w]]
    OBVIOUS
  <2> HIDE DEF net, w, t
  <2> QED
    BY <2>1, <2>2 DEF Put, w
<1>5. \/ /\ m = "Up" /\ t.state[r] = "opening" /\ tcp' = Put(tcp, c, Joined(t, r))
         /\ inbox' = [inbox EXCEPT ![r] = Append(@, <<c, "Zero">>)]
      \/ /\ m = "Fin" /\ t.state[r] = "up" /\ tcp' = [net EXCEPT ![c].state[r] = "closed"]
         /\ inbox' = [inbox EXCEPT ![r] = Append(@, <<c, "Zero">>)]
      \/ /\ m \in Message /\ tcp' = net
         /\ inbox' = [inbox EXCEPT ![r] = Append(@, <<c, m>>)]
  BY DEF Deliver, Put
<1> HIDE DEF net
<1>6. \E x \in Message \cup {"Zero"}, t2 \in TcpType :
        /\ tcp' = Put(tcp, c, t2) /\ ConnStep(t, t2) /\ t2.state[r] \in {"up", "closed"}
        /\ inbox' = [inbox EXCEPT ![r] = Append(@, <<c, x>>)]
  <2>1. CASE /\ m = "Up" /\ t.state[r] = "opening" /\ tcp' = Put(tcp, c, Joined(t, r))
             /\ inbox' = [inbox EXCEPT ![r] = Append(@, <<c, "Zero">>)]
    <3>1. ConnStep(t, Joined(t, r)) /\ Joined(t, r).state[r] = "up"
      BY <1>1, <1>2, <2>1, JoinedStep
    <3> QED
      BY <2>1, <3>1 DEF ConnStep, ConnOK
  <2>2. CASE /\ m = "Fin" /\ t.state[r] = "up" /\ tcp' = [net EXCEPT ![c].state[r] = "closed"]
             /\ inbox' = [inbox EXCEPT ![r] = Append(@, <<c, "Zero">>)]
    <3> DEFINE t1 == Taken(t, r)
               t2 == FinTaken(t, r)
    <3>1. net \in [Conn -> TcpType] /\ net[c] = t1 /\ t1 \in TcpType
      <4>1. ConnStep(t, t1)
        BY <1>1, <1>2, <2>2, TakenStep
      <4>2. t1 \in TcpType
        BY <4>1 DEF ConnStep, ConnOK
      <4> HIDE DEF t1
      <4> QED
        BY <1>1, <1>4, <4>2 DEF Put, t1
    <3>2. t2 = [t1 EXCEPT !.state = [t.state EXCEPT ![r] = "closed"]]
      <4> DEFINE closed == [t.state EXCEPT ![r] = "closed"]
      <4>1. t2 = [state |-> closed, wire |-> t1.wire, m_msgs |-> t1.m_msgs, accept |-> t1.accept]
        BY DEF Taken, FinTaken
      <4> HIDE DEF t1, t2, closed
      <4>2. [t1 EXCEPT !.state = closed] =
              [state |-> closed, wire |-> t1.wire, m_msgs |-> t1.m_msgs, accept |-> t1.accept]
        BY <3>1, PutLists
      <4> QED
        BY <4>1, <4>2 DEF closed
    <3>3. t1.state = t.state
      BY DEF Taken
    <3>4. [net EXCEPT ![c].state[r] = "closed"] =
            [net EXCEPT ![c] = [net[c] EXCEPT !.state = [net[c].state EXCEPT ![r] = "closed"]]]
      OBVIOUS
    <3>5. ConnStep(t, t2)
      BY <1>1, <1>2, <2>2, TakenStep
    <3>6. t2.state[r] = "closed"
      BY <1>1, ConnParts DEF FinTaken
    <3> HIDE DEF t1, t2, t
    <3>7. tcp' = [net EXCEPT ![c] = t2]
      BY <2>2, <3>1, <3>2, <3>3, <3>4
    <3>8. tcp' = Put(tcp, c, t2)
      <4>1. net = Put(tcp, c, t1)
        BY <1>4 DEF t1
      <4> QED
        BY <1>1, <3>7, <4>1 DEF Put
    <3> QED
      BY <2>2, <3>5, <3>6, <3>8 DEF ConnStep, ConnOK
  <2>3. CASE /\ m \in Message /\ tcp' = net
             /\ inbox' = [inbox EXCEPT ![r] = Append(@, <<c, m>>)]
    <3>1. t.state[r] \in {"up", "closed"}
      BY <1>3, <2>3 DEF Message, Sides
    <3>2. ConnStep(t, Taken(t, r))
      BY <1>1, <1>2, <3>1, TakenStep
    <3>3. Taken(t, r).state = t.state
      BY DEF Taken
    <3> QED
      BY <1>4, <2>3, <3>1, <3>2, <3>3 DEF ConnStep, ConnOK
  <2> QED
    BY <1>5, <2>1, <2>2, <2>3
<1>7. PICK x \in Message \cup {"Zero"}, t2 \in TcpType :
        /\ tcp' = Put(tcp, c, t2) /\ ConnStep(t, t2) /\ t2.state[r] \in {"up", "closed"}
        /\ inbox' = [inbox EXCEPT ![r] = Append(@, <<c, x>>)]
  BY <1>6
<1>8. NetStep(tcp, tcp', used) /\ tcp'[c] = t2
  <2>1. used \in Nat /\ NetOK(tcp, used)
    BY <1>1, <1>2, BoundsAssumption DEF IInv
  <2>2. ConnStep(tcp[c], t2) /\ tcp' = Put(tcp, c, t2)
    BY <1>7
  <2> HIDE DEF t, m
  <2> QED
    BY <2>1, <2>2, OneSteps
<1>9. Later(tcp, tcp') /\ Reached(tcp', r, c)
  BY <1>7, <1>8 DEF NetStep, Reached
<1>10. InboxOK(inbox, tcp') /\ AcceptedOK(accepted', tcp')
  BY <1>1, <1>2, <1>9, InboxLater, AcceptedLater
<1>11. InboxOK(inbox', tcp')
  BY <1>7, <1>9, <1>10, InboxAppend
<1>12. used' \in 0..MaxUse /\ NetStep(tcp, tcp', used')
  BY <1>2, <1>8 DEF IInv
<1> QED
  BY <1>2, <1>10, <1>11, <1>12, KeptWithPeers

-----------------------------------------------------------------------------
(***************************************************************************)
(* The theorems.                                                           *)
(***************************************************************************)
LEMMA InitIInv == Init => IInv
<1> SUFFICES ASSUME Init
             PROVE  IInv
  OBVIOUS
<1>1. MaxUse \in Nat
  BY BoundsAssumption
<1>2. IdlePeer \in PeerType
  <2>1. <<>> \in Seq(Message) /\ <<>> \in Seq(Event)
    OBVIOUS
  <2> QED
    BY <2>1 DEF IdlePeer, PeerType, Status, Timer
<1>3. used = 0 /\ used \in 0..MaxUse /\ peer = [r \in Router |-> IdlePeer]
  BY <1>1 DEF Init
<1>4. NetOK(tcp, used)
  <2> DEFINE t == [state |-> [r \in Router |-> "none"], wire |-> [r \in Router |-> <<>>],
                   m_msgs |-> {}, accept |-> {}]
  <2>1. tcp = [c \in Conn |-> t]
    BY DEF Init
  <2>2. t \in TcpType
    <3>1. <<>> \in Seq(Message \cup {"Up", "Fin"})
      OBVIOUS
    <3> QED
      BY <3>1 DEF TcpType
  <2>3. /\ \A r \in Router : t.state[r] = "none" /\ t.wire[r] = <<>>
    OBVIOUS
  <2> HIDE DEF t
  <2>4. HandshakeFirst(t)
    BY <2>3 DEF HandshakeFirst
  <2> QED
    BY <2>1, <2>2, <2>3, <2>4 DEF NetOK, Net, Fresh
<1>5. InboxOK(inbox, tcp)
  <2>1. inbox = [r \in Router |-> <<>>] /\ <<>> \in Seq(Conn \X (Message \cup {"Zero"}))
    BY DEF Init
  <2>2. Len(<<>>) = 0
    OBVIOUS
  <2> QED
    BY <2>1, <2>2 DEF InboxOK, InboxType
<1>6. AcceptedOK(accepted, tcp)
  BY DEF Init, AcceptedOK, AcceptedType
<1>7. ASSUME NEW r \in Router
      PROVE  PeerInv(r)
  <2>1. peer[r] = IdlePeer
    BY <1>3
  <2>2. Len(IdlePeer.events) = 0
    BY DEF IdlePeer
  <2>3. /\ IdlePeer.obuf = <<>> /\ IdlePeer.t_read = NoConn /\ IdlePeer.status = "Idle"
        /\ IdlePeer.LocalAgent = NoConn /\ IdlePeer.timers # {}
    BY DEF IdlePeer
  <2> QED
    BY <1>2, <2>1, <2>2, <2>3
    DEF PeerInv, PeerOK, Connected, InUse, OpenIsNext, Awake, Down
<1> QED
  BY <1>2, <1>3, <1>4, <1>5, <1>6, <1>7 DEF IInv

\* Every step keeps it.
LEMMA NextIInv == IInv /\ [Next]_vars => IInv'
<1> SUFFICES ASSUME IInv, [Next]_vars
             PROVE  IInv'
  OBVIOUS
<1>1. CASE UNCHANGED vars
  BY <1>1 DEF vars, IInv, PeerInv
<1>2. CASE Next
  <2>1. PICK r \in Router :
          \/ PeerEvent(r)
          \/ \E t \in Timer : TimerExpires(r, t)
          \/ Write(r)
          \/ Interrupt(r)
          \/ ClearBgp(r)
          \/ \E c \in Conn : AcceptedEvent(r, c) \/ AcceptedHoldExpires(r, c) \/ Deliver(r, c)
    BY <1>2 DEF Next
  <2> QED
    BY <2>1, PeerEventKeeps, TimerExpiresKeeps, WriteKeeps, InterruptKeeps, ClearBgpKeeps,
       AcceptedEventKeeps, AcceptedHoldExpiresKeeps, DeliverKeeps
<1> QED
  BY <1>1, <1>2

\* The inductive invariant.
THEOREM Invariance == Spec => []IInv
BY InitIInv, NextIInv, PTL DEF Spec

\* Peers, temporary peers, interrupts and connections have their types; the events
\* of a peer are events of the table, and there is a connection for every use of one.
THEOREM TypeCorrect == Spec => []TypeOK
<1>1. IInv => TypeOK
  BY DEF IInv, TypeOK, NetOK, Net, InboxOK, InboxType, AcceptedOK, AcceptedType
<1> QED
  BY <1>1, Invariance, PTL

\* A router that has nothing to do has a timer on, whatever the order of events,
\* closes and transfers: each caller of bgp_stop sees to it that bgp_timer_set runs,
\* or that bgp_write does and fails.
THEOREM NotGivenUp == Spec => []NeverStuck
<1>1. IInv => NeverStuck
  BY WaitingHasTimer DEF NeverStuck
<1> QED
  BY <1>1, Invariance, PTL

\* bgp_write and bgp_connect_check find a connection in LocalAgent.
THEOREM ConnectionIsThere == Spec => []UsesConnection
<1>1. IInv => UsesConnection
  <2> SUFFICES ASSUME IInv, NEW r \in Router, peer[r].obuf # <<>> \/ peer[r].status = "Connect"
               PROVE  peer[r].LocalAgent # NoConn
    BY DEF UsesConnection
  <2>1. Connected(peer[r])
    BY OfRouter
  <2> QED
    BY <2>1 DEF Connected, Down
<1> QED
  BY <1>1, Invariance, PTL

=============================================================================
