--------------------------- MODULE BgpFsmPair_proofs ---------------------------
(***************************************************************************)
(* Proofs about BgpFsm that relate its two routers.  Each connection is    *)
(* looked at from its two ends: what the configured peer and the temporary *)
(* peer of a router have to do with it (End), what is on its way to it,    *)
(* and the state of TCP.  The invariant says what one end may rely on      *)
(* about the other: who has it (Owner), that a close is noticed (Hears),   *)
(* that there is one OPEN (Opens), that nobody confirms a session that the *)
(* other end does not know of (Confirms).  A lemma for each kind of change *)
(* of one end says that all this is kept, and each action is a combination *)
(* of these.                                                               *)
(***************************************************************************)
EXTENDS BgpFsm_proofs

-----------------------------------------------------------------------------
(***************************************************************************)
(* Elements of a sequence.                                                 *)
(***************************************************************************)
Occurs(s, e) == \E i \in 1..Len(s) : s[i] = e

Once(s, e) == \A i, j \in 1..Len(s) : s[i] = e /\ s[j] = e => i = j

Twice(s, e) == \E i, j \in 1..Len(s) : i # j /\ s[i] = e /\ s[j] = e

\* Every u comes after some k.
Follows(s, k, u) ==
  \A j \in 1..Len(s) : s[j] = u => \E i \in 1..Len(s) : i < j /\ s[i] = k

-----------------------------------------------------------------------------
(***************************************************************************)
(* The invariant.                                                          *)
(***************************************************************************)
Late == {"OpenConfirm", "Established"}

Talks == {"OpenSent", "OpenConfirm", "Established"}

FromTimer == {"Start", "ConnectRetry", "HoldExpired", "KeepAliveExpired"}

FromRead ==
  {"Closed", "ReceiveOpen", "ReceiveKeepalive", "ReceiveUpdate", "ReceiveNotification"}

\* The peer by itself.  Only a Stop of `clear ip bgp' waits behind another event, and
\* an event finds the status it was queued for.  A thread that reads another
\* connection than the one of the peer is only left over in Connect.
EventsFit(p) ==
  \A i \in 1..Len(p.events) :
    /\ p.events[i] \notin FromTimer
    /\ p.events[i] # "Stop" => i = 1
    /\ p.events[i] = "Open" => p.status = "Connect" /\ p.t_read = NoConn
    /\ p.events[i] = "OpenFailed" => p.status = "Connect"
    /\ p.events[i] \in FromRead => p.status # "Connect" /\ p.LocalAgent # NoConn
    /\ p.events[i] \in FromRead \ {"ReceiveOpen"} => p.obuf = <<>>
    /\ p.events[i] = "ReceiveOpen" => p.status # "OpenConfirm"
    /\ p.events[i] = "ReceiveUpdate" => p.status = "Established"

BufferFits(p) ==
  /\ p.obuf # <<>> => p.t_write /\ p.status \in Talks
  /\ \A i \in 1..Len(p.obuf) :
       /\ p.obuf[i] = "Open" => i = 1
       /\ p.obuf[i] # "Open" => p.status \in Late
       /\ p.obuf[i] = "Update" => p.status = "Established"

Shape(p) ==
  /\ p.t_read \notin {NoConn, p.LocalAgent} => p.status = "Connect"
  /\ p.status = "Active" => p.LocalAgent = NoConn
  /\ p.timers \subseteq TimersOf[p.status]
  /\ EventsFit(p)
  /\ BufferFits(p)

\* What a router has to do with its end of connection c.
Marks(p) == {e \in {"Open", "ReceiveOpen", "ReceiveKeepalive", "Closed"} : Occurs(p.events, e)}

End(p, acc, c) ==
  [status |-> IF p.LocalAgent = c THEN p.status ELSE "none",
   buf |-> IF p.LocalAgent = c THEN p.obuf ELSE <<>>,
   marks |-> IF p.LocalAgent = c THEN Marks(p) ELSE {},
   threads |-> {th \in {"read", "write", "accepted"} :
                  /\ th = "read" => p.t_read = c
                  /\ th = "write" => p.LocalAgent = c /\ p.t_write
                  /\ th = "accepted" => acc # "none"}]

\* The interrupts of connection c in box.
Came(box, c, m) == Occurs(box, <<c, m>>)

CameOnce(box, c) == Once(box, <<c, "Open">>)

CameTwice(box, c) == Twice(box, <<c, "Zero">>)

CameInOrder(box, c) == Follows(box, <<c, "Keepalive">>, <<c, "Update">>)

\* TCP at both ends: a FIN comes from an end that is closed, and an end that is closed
\* has sent one to an end that is up or will be.
Fins(t, x, q) ==
  /\ Occurs(t.wire[x], "Fin") => t.state[q] = "closed"
  /\ t.state[q] = "closed" /\ t.state[x] = "up" => Occurs(t.wire[x], "Fin")
  /\ t.state[q] = "closed" /\ t.state[x] = "opening" /\ t.wire[x] # <<>> =>
       Occurs(t.wire[x], "Fin")

\* Who owns the end of x: the thread of bgp_accept, or a temporary peer, or the
\* configured peer.
Owned(e, t, x) == e.status # "none" \/ "accepted" \in e.threads \/ x \in t.accept

Owner(e, t, x, q) ==
  /\ x \in t.accept =>
       /\ e.status = "none" /\ "read" \notin e.threads /\ "accepted" \notin e.threads
       /\ q \notin t.accept
  /\ "accepted" \in e.threads => e.status = "none" /\ "read" \notin e.threads
  /\ "read" \in e.threads => t.state[x] # "none"
  /\ t.state[x] = "opening" => x \in t.accept \/ e.status = "Connect"
  /\ t.state[x] = "opening" /\ e.status # "none" => q \in t.accept /\ t.state[q] = "opening"
  /\ t.state[x] = "closed" /\ Owned(e, t, x) => t.state[q] = "closed"
  /\ "Open" \in e.marks => t.state[x] # "opening"

\* What the owner will hear of.
Hears(e, t, x, c, box) ==
  /\ x \in t.accept /\ t.state[x] = "up" => Came(box, c, "Zero")
  /\ x \in t.accept /\ t.state[x] = "closed" => CameTwice(box, c)
  /\ "accepted" \in e.threads /\ t.state[x] = "closed" => Came(box, c, "Zero")
  /\ e.status \in Talks /\ t.state[x] # "closed" => t.state[x] = "up" /\ "read" \in e.threads
  /\ e.status \in Talks /\ t.state[x] = "closed" =>
       \/ "read" \in e.threads /\ Came(box, c, "Zero")
       \/ "Closed" \in e.marks
       \/ "write" \in e.threads /\ e.buf # <<>>

\* x has sent nothing yet.
Silent(e, t, x) == x \in t.accept \/ "accepted" \in e.threads \/ e.status = "Connect"

\* x has read the OPEN, or the KEEPALIVE that establishes its session.
HasOpen(e) == e.status \in Late \/ "ReceiveOpen" \in e.marks

HasKeepalive(e) == e.status = "Established" \/ "ReceiveKeepalive" \in e.marks

\* x has got as far as OpenConfirm, or it has left the connection for ever.
Left(e, t, x) ==
  /\ t.state[x] = "closed" /\ x \notin t.accept
  /\ e.status = "none" /\ "read" \notin e.threads /\ "accepted" \notin e.threads

Past(e, t, x) == e.status \in Late \/ Left(e, t, x)

\* m is on its way to x.
Comes(m, t, x, c, box) == Came(box, c, m) \/ Occurs(t.wire[x], m)

\* e is the end of x, to which the messages come, and f the one of q.
Opens(e, f, t, x, q, c, box) ==
  /\ Silent(f, t, q) =>
       /\ ~HasOpen(e)
       /\ ~Comes("Open", t, x, c, box)
       /\ ~Comes("Keepalive", t, x, c, box)
       /\ ~Comes("Update", t, x, c, box)
  /\ HasOpen(e) => ~Comes("Open", t, x, c, box) /\ ~Occurs(f.buf, "Open")
  /\ CameOnce(box, c) /\ Once(t.wire[x], "Open")
  /\ ~(Came(box, c, "Open") /\ Occurs(t.wire[x], "Open"))
  /\ Occurs(f.buf, "Open") => ~Comes("Open", t, x, c, box)

Follow(e, f, t, x, c, box) ==
  e.status = "OpenConfirm" /\ "ReceiveKeepalive" \notin e.marks =>
    /\ CameInOrder(box, c)
    /\ Came(box, c, "Keepalive") \/ Follows(t.wire[x], "Keepalive", "Update")
    /\ Comes("Keepalive", t, x, c, box) \/ Follows(f.buf, "Keepalive", "Update")

Confirms(e, f, t, x, q, c, box) ==
  /\ Comes("Keepalive", t, x, c, box) \/ HasKeepalive(e) => Past(f, t, q)
  /\ Comes("Update", t, x, c, box) => Past(e, t, x)
  /\ Follow(e, f, t, x, c, box)

\* All of it for the end of x, and for both ends.
Side(e, f, t, x, q, c, box) ==
  /\ Fins(t, x, q)
  /\ Owner(e, t, x, q)
  /\ Hears(e, t, x, c, box)
  /\ Opens(e, f, t, x, q, c, box)
  /\ Confirms(e, f, t, x, q, c, box)

Joint(e, f, t, x, q, c, box, qbox) ==
  Side(e, f, t, x, q, c, box) /\ Side(f, e, t, q, x, c, qbox)

\* Connection c in state t: one end is that of router x, with peer p, a temporary peer in
\* status a and interrupts box.
At(x, p, a, c, box, t) ==
  Joint(End(p, a, c), End(peer[Other(x)], accepted[Other(x)][c], c), t,
        x, Other(x), c, box, inbox[Other(x)])

World(x, p, acc, box, net) == \A c \in Conn : At(x, p, acc[c], c, box, net[c])

PairInv ==
  \A x \in Router : Shape(peer[x]) /\ World(x, peer[x], accepted[x], inbox[x], tcp)

-----------------------------------------------------------------------------
(***************************************************************************)
(* Elements of a sequence: Append, Tail and the prefix that a close keeps. *)
(***************************************************************************)
LEMMA EmptyHas ==
  ASSUME NEW e, NEW k
  PROVE  /\ ~Occurs(<<>>, e) /\ Once(<<>>, e) /\ ~Twice(<<>>, e) /\ Follows(<<>>, k, e)
BY DEF Occurs, Once, Twice, Follows

\* An element at the end.
Longer(S, s, s2, a) == s \in Seq(S) /\ a \in S /\ s2 = Append(s, a)

LEMMA AppendHas ==
  ASSUME NEW S, NEW s, NEW s2, NEW a, Longer(S, s, s2, a), NEW e, NEW k
  PROVE  /\ Occurs(s2, e) <=> Occurs(s, e) \/ a = e
         /\ Once(s, e) /\ (a = e => ~Occurs(s, e)) => Once(s2, e)
         /\ Twice(s, e) \/ (a = e /\ Occurs(s, e)) => Twice(s2, e)
         /\ Follows(s, k, e) /\ (a = e => Occurs(s, k)) => Follows(s2, k, e)
<1>1. /\ Len(s2) = Len(s) + 1 /\ Len(s) \in Nat /\ s2[Len(s) + 1] = a
      /\ \A i \in 1..Len(s) : s2[i] = s[i]
  BY DEF Longer
<1> DEFINE n == Len(s)
<1>2. \A i \in 1..Len(s2) : i \in 1..n \/ i = n + 1
  BY <1>1
<1>3. 1..n \subseteq 1..Len(s2) /\ n + 1 \in 1..Len(s2) /\ \A i \in 1..n : i < n + 1
  BY <1>1
<1>4. \A i \in 1..n : s2[i] = s[i]
  BY <1>1
<1>5. s2[n + 1] = a /\ \A i \in 1..n : i # n + 1
  BY <1>1
<1> HIDE DEF n
<1>6. 1..Len(s) = 1..n
  BY DEF n
<1>7. Occurs(s2, e) <=> Occurs(s, e) \/ a = e
  BY <1>2, <1>3, <1>4, <1>5, <1>6 DEF Occurs
<1>8. Once(s, e) /\ (a = e => ~Occurs(s, e)) => Once(s2, e)
  BY <1>2, <1>4, <1>5, <1>6 DEF Once, Occurs
<1>9. Twice(s, e) \/ (a = e /\ Occurs(s, e)) => Twice(s2, e)
  BY <1>3, <1>4, <1>5, <1>6 DEF Twice, Occurs
<1>10. Follows(s, k, e) /\ (a = e => Occurs(s, k)) => Follows(s2, k, e)
  <2> SUFFICES ASSUME Follows(s, k, e), a = e => Occurs(s, k),
                      NEW j \in 1..Len(s2), s2[j] = e
               PROVE  \E i \in 1..Len(s2) : i < j /\ s2[i] = k
    BY DEF Follows
  <2>1. CASE j \in 1..n
    <3>1. PICK i \in 1..n : i < j /\ s[i] = k
      BY <2>1, <1>4, <1>6 DEF Follows
    <3> QED
      BY <3>1, <1>3, <1>4
  <2>2. CASE j = n + 1
    <3>1. PICK i \in 1..n : s[i] = k
      BY <2>2, <1>5, <1>6 DEF Occurs
    <3> QED
      BY <3>1, <2>2, <1>3, <1>4
  <2> QED
    BY <2>1, <2>2, <1>2
<1> QED
  BY <1>7, <1>8, <1>9, <1>10

\* The head goes.
LEMMA TailHas ==
  ASSUME NEW S, NEW s \in Seq(S), s # <<>>, NEW e, NEW k,
         NEW s2, s2 = Tail(s)
  PROVE  /\ Occurs(s, e) <=> Head(s) = e \/ Occurs(s2, e)
         /\ Once(s, e) => Once(s2, e)
         /\ Once(s, e) /\ Head(s) = e => ~Occurs(s2, e)
         /\ Twice(s, e) => Occurs(s2, e)
         /\ Twice(s, e) /\ Head(s) # e => Twice(s2, e)
         /\ Follows(s, k, e) /\ Head(s) # k => Follows(s2, k, e)
         /\ Follows(s, k, e) => Head(s) # e
<1>1. /\ Len(s2) = Len(s) - 1 /\ Len(s) \in Nat /\ Len(s) >= 1 /\ Head(s) = s[1]
      /\ \A i \in 1..Len(s2) : s2[i] = s[i + 1]
  OBVIOUS
<1> DEFINE n == Len(s)
           h == Head(s)
<1>2. \A i \in 1..n : i = 1 \/ (i - 1 \in 1..Len(s2) /\ s2[i - 1] = s[i])
  BY <1>1
<1>3. \A i \in 1..Len(s2) : i + 1 \in 1..n /\ i + 1 # 1 /\ s2[i] = s[i + 1] /\ i \in Int
  BY <1>1
<1>4. 1 \in 1..n /\ h = s[1] /\ \A i \in 1..n : i \in Int /\ i >= 1
  BY <1>1
<1> HIDE DEF n, h
<1>5. 1..Len(s) = 1..n /\ Head(s) = h
  BY DEF n, h
<1>6. Occurs(s, e) <=> h = e \/ Occurs(s2, e)
  BY <1>2, <1>3, <1>4, <1>5 DEF Occurs
<1>7. Once(s, e) => Once(s2, e)
  BY <1>3, <1>5 DEF Once
<1>8. Once(s, e) /\ h = e => ~Occurs(s2, e)
  BY <1>3, <1>4, <1>5 DEF Once, Occurs
<1>9. ASSUME Twice(s, e) PROVE Occurs(s2, e) /\ (h # e => Twice(s2, e))
  <2>1. PICK i, j \in 1..n : i # j /\ s[i] = e /\ s[j] = e
    BY <1>9, <1>5 DEF Twice
  <2>2. Occurs(s2, e)
    BY <2>1, <1>2 DEF Occurs
  <2>3. h # e => i # 1 /\ j # 1
    BY <2>1, <1>4
  <2>4. h # e => Twice(s2, e)
    <3> HAVE h # e
    <3>1. /\ i - 1 \in 1..Len(s2) /\ s2[i - 1] = e
          /\ j - 1 \in 1..Len(s2) /\ s2[j - 1] = e
      BY <2>1, <2>3, <1>2
    <3>2. i - 1 # j - 1
      BY <2>1, <1>4
    <3> QED
      BY <3>1, <3>2 DEF Twice
  <2> QED
    BY <2>2, <2>4
<1>10. Follows(s, k, e) /\ h # k => Follows(s2, k, e)
  <2> SUFFICES ASSUME Follows(s, k, e), h # k, NEW j \in 1..Len(s2), s2[j] = e
               PROVE  \E i \in 1..Len(s2) : i < j /\ s2[i] = k
    BY DEF Follows
  <2>1. j + 1 \in 1..n /\ s[j + 1] = e
    BY <1>3
  <2>2. PICK i \in 1..n : i < j + 1 /\ s[i] = k
    BY <2>1, <1>5 DEF Follows
  <2>3. i # 1
    BY <2>2, <1>4
  <2>4. i - 1 \in 1..Len(s2) /\ s2[i - 1] = k
    BY <2>2, <2>3, <1>2
  <2>5. i - 1 < j
    BY <2>2, <1>3, <1>4
  <2> QED
    BY <2>4, <2>5
<1>11. Follows(s, k, e) => h # e
  <2> SUFFICES ASSUME Follows(s, k, e), s[1] = e PROVE FALSE
    BY <1>4
  <2>1. \E i \in 1..n : i < 1
    BY <1>4, <1>5 DEF Follows
  <2> QED
    BY <2>1, <1>4
<1> QED
  BY <1>5, <1>6, <1>7, <1>8, <1>9, <1>10, <1>11

\* What is behind goes.
LEMMA PrefixHas ==
  ASSUME NEW S, NEW s \in Seq(S), NEW n \in Nat, n <= Len(s), NEW e, NEW k,
         NEW s2, s2 = SubSeq(s, 1, n)
  PROVE  /\ Occurs(s2, e) => Occurs(s, e)
         /\ Once(s, e) => Once(s2, e)
         /\ Follows(s, k, e) => Follows(s2, k, e)
<1>1. Len(s2) = n /\ Len(s) \in Nat /\ \A i \in 1..n : s2[i] = s[i]
  OBVIOUS
<1>2. 1..n \subseteq 1..Len(s) /\ \A i, j \in 1..Len(s) : i < j /\ j \in 1..n => i \in 1..n
  BY <1>1
<1>3. 1..Len(s2) = 1..n
  BY <1>1
<1>4. \A i \in 1..n : s2[i] = s[i]
  BY <1>1
<1>5. Occurs(s2, e) => Occurs(s, e)
  BY <1>2, <1>3, <1>4 DEF Occurs
<1>6. Once(s, e) => Once(s2, e)
  BY <1>2, <1>3, <1>4 DEF Once
<1>7. Follows(s, k, e) => Follows(s2, k, e)
  <2> SUFFICES ASSUME Follows(s, k, e), NEW j \in 1..n, s2[j] = e
               PROVE  \E i \in 1..n : i < j /\ s2[i] = k
    BY <1>3 DEF Follows
  <2>1. PICK i \in 1..Len(s) : i < j /\ s[i] = k
    BY <1>2, <1>4 DEF Follows
  <2>2. i \in 1..n
    BY <2>1, <1>2
  <2> QED
    BY <2>1, <2>2, <1>4
<1> QED
  BY <1>5, <1>6, <1>7

-----------------------------------------------------------------------------
(***************************************************************************)
(* Interrupts.                                                             *)
(***************************************************************************)
Interrupts == Conn \X (Message \cup {"Zero"})

\* An interrupt a on connection d is added.
Telling(box, box2, d, a) ==
  /\ d \in Conn /\ a \in Message \cup {"Zero"}
  /\ box \in Seq(Interrupts) /\ box2 = Append(box, <<d, a>>)

LEMMA BoxAppend ==
  ASSUME NEW box, NEW c \in Conn, NEW d, NEW a, NEW box2, Telling(box, box2, d, a)
  PROVE  /\ \A m : Came(box2, c, m) <=> Came(box, c, m) \/ (d = c /\ a = m)
         /\ CameOnce(box, c) /\ (d = c /\ a = "Open" => ~Came(box, c, "Open"))
              => CameOnce(box2, c)
         /\ CameTwice(box, c) \/ (d = c /\ a = "Zero" /\ Came(box, c, "Zero"))
              => CameTwice(box2, c)
         /\ CameInOrder(box, c) /\ (d = c /\ a = "Update" => Came(box, c, "Keepalive"))
              => CameInOrder(box2, c)
<1> DEFINE i == <<d, a>>
<1>1. i \in Interrupts /\ \A m : i = <<c, m>> <=> d = c /\ a = m
  BY DEF Interrupts, Telling
<1>2. Longer(Interrupts, box, box2, i)
  BY <1>1 DEF Telling, Longer
<1> HIDE DEF i
<1>3. \A e, k : /\ Occurs(box2, e) <=> Occurs(box, e) \/ i = e
                /\ Once(box, e) /\ (i = e => ~Occurs(box, e)) => Once(box2, e)
                /\ Twice(box, e) \/ (i = e /\ Occurs(box, e)) => Twice(box2, e)
                /\ Follows(box, k, e) /\ (i = e => Occurs(box, k)) => Follows(box2, k, e)
  BY <1>2, AppendHas
<1>4. \A m : Came(box2, c, m) <=> Came(box, c, m) \/ (d = c /\ a = m)
  BY <1>1, <1>3 DEF Came
<1>5. CameOnce(box, c) /\ (d = c /\ a = "Open" => ~Came(box, c, "Open")) => CameOnce(box2, c)
  BY <1>1, <1>3 DEF Came, CameOnce
<1>6. CameTwice(box, c) \/ (d = c /\ a = "Zero" /\ Came(box, c, "Zero")) => CameTwice(box2, c)
  BY <1>1, <1>3 DEF Came, CameTwice
<1>7. CameInOrder(box, c) /\ (d = c /\ a = "Update" => Came(box, c, "Keepalive"))
        => CameInOrder(box2, c)
  <2> DEFINE u == <<c, "Update">>
             k == <<c, "Keepalive">>
  <2>1. i = u <=> d = c /\ a = "Update"
    BY <1>1
  <2> SUFFICES Follows(box, k, u) /\ (i = u => Occurs(box, k)) => Follows(box2, k, u)
    BY <2>1 DEF Came, CameInOrder
  <2> HIDE DEF u, k
  <2> QED
    BY <1>3
<1> QED
  BY <1>4, <1>5, <1>6, <1>7

\* What the interrupts have after the first one, a on connection d, was handled.
Handling(box, box2, d, a) ==
  box \in Seq(Interrupts) /\ box # <<>> /\ Head(box) = <<d, a>> /\ box2 = Tail(box)

LEMMA BoxTail ==
  ASSUME NEW box, NEW c \in Conn, NEW d, NEW a, NEW box2, Handling(box, box2, d, a)
  PROVE  /\ \A m : Came(box, c, m) <=> (d = c /\ a = m) \/ Came(box2, c, m)
         /\ CameOnce(box, c) => CameOnce(box2, c)
         /\ CameOnce(box, c) /\ d = c /\ a = "Open" => ~Came(box2, c, "Open")
         /\ CameTwice(box, c) => Came(box2, c, "Zero")
         /\ CameTwice(box, c) /\ ~(d = c /\ a = "Zero") => CameTwice(box2, c)
         /\ CameInOrder(box, c) /\ ~(d = c /\ a = "Keepalive") => CameInOrder(box2, c)
         /\ CameInOrder(box, c) => ~(d = c /\ a = "Update")
<1> DEFINE i == <<d, a>>
<1>1. \A m : i = <<c, m>> <=> d = c /\ a = m
  OBVIOUS
<1>2. box \in Seq(Interrupts) /\ box # <<>> /\ Head(box) = i /\ box2 = Tail(box)
  BY DEF Handling
<1> HIDE DEF i
<1>3. \A e, k : /\ Occurs(box, e) <=> i = e \/ Occurs(box2, e)
                /\ Once(box, e) => Once(box2, e)
                /\ Once(box, e) /\ i = e => ~Occurs(box2, e)
                /\ Twice(box, e) => Occurs(box2, e)
                /\ Twice(box, e) /\ i # e => Twice(box2, e)
                /\ Follows(box, k, e) /\ i # k => Follows(box2, k, e)
                /\ Follows(box, k, e) => i # e
  BY <1>2, TailHas
<1>4. \A m : Came(box, c, m) <=> (d = c /\ a = m) \/ Came(box2, c, m)
  BY <1>1, <1>3 DEF Came
<1>5. /\ CameOnce(box, c) => CameOnce(box2, c)
      /\ CameOnce(box, c) /\ d = c /\ a = "Open" => ~Came(box2, c, "Open")
  BY <1>1, <1>3 DEF Came, CameOnce
<1>6. /\ CameTwice(box, c) => Came(box2, c, "Zero")
      /\ CameTwice(box, c) /\ ~(d = c /\ a = "Zero") => CameTwice(box2, c)
  BY <1>1, <1>3 DEF Came, CameTwice
<1>7. /\ CameInOrder(box, c) /\ ~(d = c /\ a = "Keepalive") => CameInOrder(box2, c)
      /\ CameInOrder(box, c) => ~(d = c /\ a = "Update")
  <2> DEFINE u == <<c, "Update">>
             k == <<c, "Keepalive">>
  <2>1. (i = u <=> d = c /\ a = "Update") /\ (i = k <=> d = c /\ a = "Keepalive")
    BY <1>1
  <2> SUFFICES /\ Follows(box, k, u) /\ i # k => Follows(box2, k, u)
               /\ Follows(box, k, u) => i # u
    BY <2>1 DEF CameInOrder
  <2> HIDE DEF u, k
  <2> QED
    BY <1>3
<1> QED
  BY <1>4, <1>5, <1>6, <1>7

\* There is nothing of connection c.
LEMMA BoxWithout ==
  ASSUME NEW box \in Seq(Interrupts), NEW c, \A i \in 1..Len(box) : box[i][1] # c
  PROVE  (\A m : ~Came(box, c, m)) /\ CameOnce(box, c) /\ CameInOrder(box, c)
<1>1. \A i \in 1..Len(box) : \A m : box[i] # <<c, m>>
  OBVIOUS
<1> QED
  BY <1>1 DEF Came, CameOnce, CameInOrder, Occurs, Once, Follows

-----------------------------------------------------------------------------
(***************************************************************************)
(* What one end of a connection does, and the other end relies on.         *)
(***************************************************************************)
Main == {"Open", "Keepalive", "Update"}

\* Nobody has to do with an end.
Nothing(e) ==
  /\ e.status = "none" /\ e.buf = <<>> /\ e.marks = {}
  /\ "read" \notin e.threads /\ "accepted" \notin e.threads

LessCame(c, box, box2) ==
  /\ \A m : Came(box2, c, m) => Came(box, c, m)
  /\ CameOnce(box, c) => CameOnce(box2, c)

LessWire(w, w2) ==
  /\ \A m \in Main : Occurs(w2, m) => Occurs(w, m)
  /\ Once(w, "Open") => Once(w2, "Open")
  /\ Follows(w, "Keepalive", "Update") => Follows(w2, "Keepalive", "Update")

\* x has closed its end.
ShutBy(t, t2, x, q) ==
  /\ t2.state[x] = "closed" /\ t2.state[q] = t.state[q]
  /\ x \notin t2.accept /\ (q \in t2.accept => q \in t.accept)
  /\ q \in t.accept => q \in t2.accept
  /\ t2.wire[x] = <<>>
  /\ LessWire(t.wire[q], t2.wire[q])
  /\ Occurs(t2.wire[q], "Fin") \/ t2.wire[q] = <<>>
  /\ t.state[x] = "up" /\ t.state[q] # "closed" => Occurs(t2.wire[q], "Fin")

\* The owner of an end closes it: bgp_stop, peer_delete, or bgp_accept without a peer.
LEMMA Hangs ==
  ASSUME NEW e, NEW f, NEW t, NEW x, NEW q, NEW c, NEW box, NEW qbox,
         NEW e2, NEW t2, NEW box2,
         Joint(e, f, t, x, q, c, box, qbox),
         Owned(e, t, x), t.state[x] \in Sides \ {"none"}, t.state[x] = "opening" => e.status # "none",
         Nothing(e2), ShutBy(t, t2, x, q), LessCame(c, box, box2)
  PROVE  Joint(e2, f, t2, x, q, c, box2, qbox)
<1>1. Side(e, f, t, x, q, c, box) /\ Side(f, e, t, q, x, c, qbox)
  BY DEF Joint
<1>2. Fins(t2, x, q)
  BY EmptyHas DEF Fins, ShutBy
<1>3. Owner(e2, t2, x, q)
  BY DEF Owner, ShutBy, Nothing, Owned
<1>4. Hears(e2, t2, x, c, box2)
  BY DEF Hears, ShutBy, Nothing, Talks
<1>5. \A m \in Main : ~Occurs(t2.wire[x], m)
  BY EmptyHas DEF ShutBy
<1>6. Silent(f, t2, q) => Silent(f, t, q)
  BY DEF Silent, ShutBy
<1>7. \A m \in Main : Comes(m, t2, x, c, box2) => Comes(m, t, x, c, box)
  BY <1>5 DEF Comes, LessCame
<1>8. ~HasOpen(e2) /\ ~HasKeepalive(e2)
  BY DEF HasOpen, HasKeepalive, Nothing, Late
<1>9. Opens(e2, f, t2, x, q, c, box2)
  <2>1. Once(t2.wire[x], "Open") /\ ~Occurs(t2.wire[x], "Open")
    BY EmptyHas DEF ShutBy
  <2>2. CameOnce(box2, c)
    BY <1>1 DEF Side, Opens, LessCame
  <2> QED
    BY <1>1, <1>6, <1>7, <1>8, <2>1, <2>2 DEF Side, Opens, Main
<1>10. Confirms(e2, f, t2, x, q, c, box2)
  <2>1. Past(f, t, q) => Past(f, t2, q)
    BY DEF Past, Left, ShutBy
  <2>2. Past(e2, t2, x)
    BY DEF Past, Left, ShutBy, Nothing
  <2>3. Follow(e2, f, t2, x, c, box2)
    BY DEF Follow, Nothing
  <2> QED
    BY <1>1, <1>7, <1>8, <2>1, <2>2, <2>3 DEF Side, Confirms, Main
<1>11. Fins(t2, q, x)
  <2>1. t.state[x] = "closed" => t.state[q] = "closed"
    BY <1>1 DEF Side, Owner
  <2>2. t.state[x] = "opening" => t.state[q] = "opening"
    BY <1>1 DEF Side, Owner
  <2>3. t2.wire[q] # <<>> => Occurs(t2.wire[q], "Fin")
    BY DEF ShutBy
  <2>4. t.state[q] = "up" => t.state[x] = "up"
    BY <2>1, <2>2 DEF Sides
  <2> QED
    BY <2>1, <2>2, <2>3, <2>4 DEF Fins, ShutBy
<1>12. Owner(f, t2, q, x)
  <2>1. ~(t.state[q] = "opening" /\ f.status # "none")
    <3> SUFFICES ASSUME t.state[q] = "opening", f.status # "none" PROVE FALSE
      OBVIOUS
    <3>1. x \in t.accept /\ t.state[x] = "opening"
      BY <1>1 DEF Side, Owner
    <3> QED
      BY <3>1, <1>1 DEF Side, Owner
  <2> QED
    BY <1>1, <2>1 DEF Side, Owner, Owned, ShutBy
<1>13. Hears(f, t2, q, c, qbox)
  BY <1>1 DEF Side, Hears, ShutBy
<1>14. ~Silent(e2, t2, x) /\ \A m : ~Occurs(e2.buf, m)
  BY EmptyHas DEF Silent, Nothing, ShutBy
<1>15. \A m \in Main : Comes(m, t2, q, c, qbox) => Comes(m, t, q, c, qbox)
  BY DEF Comes, ShutBy, LessWire
<1>16. Opens(f, e2, t2, q, x, c, qbox)
  <2>1. /\ Once(t2.wire[q], "Open")
        /\ Occurs(t2.wire[q], "Open") => Occurs(t.wire[q], "Open")
    BY <1>1 DEF Side, Opens, ShutBy, LessWire, Main
  <2> QED
    BY <1>1, <1>14, <1>15, <2>1 DEF Side, Opens, Main
<1>17. Confirms(f, e2, t2, q, x, c, qbox)
  <2>1. Past(f, t, q) => Past(f, t2, q)
    BY DEF Past, Left, ShutBy
  <2>2. Past(e2, t2, x)
    BY DEF Past, Left, ShutBy, Nothing
  <2>3. Follow(f, e2, t2, q, c, qbox)
    BY <1>1, EmptyHas DEF Side, Confirms, Follow, ShutBy, LessWire, Nothing
  <2> QED
    BY <1>1, <1>15, <2>1, <2>2, <2>3 DEF Side, Confirms, Main
<1> QED
  BY <1>2, <1>3, <1>4, <1>9, <1>10, <1>11, <1>12, <1>13, <1>16, <1>17 DEF Joint, Side
\* A NOTIFICATION is sent, which none of this is about.
LEMMA Alerts ==
  ASSUME NEW e, NEW f, NEW t, NEW x, NEW q, NEW c, NEW box, NEW qbox, NEW t2,
         Joint(e, f, t, x, q, c, box, qbox),
         t2.state = t.state, t2.accept = t.accept, t2.wire[x] = t.wire[x],
         t.state[x] = "up",
         \A m \in Main \cup {"Fin"} : Occurs(t2.wire[q], m) <=> Occurs(t.wire[q], m),
         LessWire(t.wire[q], t2.wire[q])
  PROVE  Joint(e, f, t2, x, q, c, box, qbox)
<1>1. Side(e, f, t, x, q, c, box) /\ Side(f, e, t, q, x, c, qbox)
  BY DEF Joint
<1>2. Side(e, f, t2, x, q, c, box)
  <2>1. Fins(t2, x, q) /\ Owner(e, t2, x, q) /\ Hears(e, t2, x, c, box)
    BY <1>1 DEF Side, Fins, Owner, Owned, Hears
  <2>2. Opens(e, f, t2, x, q, c, box)
    BY <1>1 DEF Side, Opens, Silent, Comes
  <2>3. Confirms(e, f, t2, x, q, c, box)
    BY <1>1 DEF Side, Confirms, Past, Left, Comes, Follow
  <2> QED
    BY <2>1, <2>2, <2>3 DEF Side
<1>3. Side(f, e, t2, q, x, c, qbox)
  <2>1. Fins(t2, q, x) /\ Owner(f, t2, q, x) /\ Hears(f, t2, q, c, qbox)
    BY <1>1 DEF Side, Fins, Owner, Owned, Hears
  <2>2. \A m \in Main : Comes(m, t2, q, c, qbox) <=> Comes(m, t, q, c, qbox)
    BY DEF Comes
  <2>3. Opens(f, e, t2, q, x, c, qbox)
    BY <1>1, <2>2 DEF Side, Opens, Silent, LessWire, Main
  <2>4. Confirms(f, e, t2, q, x, c, qbox)
    BY <1>1, <2>2 DEF Side, Confirms, Past, Left, Follow, LessWire, Main
  <2> QED
    BY <2>1, <2>3, <2>4 DEF Side
<1> QED
  BY <1>2, <1>3 DEF Joint

\* An interrupt of another connection is handled, or one that nobody waits for.
SameCame(c, box, box2) ==
  /\ \A m : Came(box2, c, m) <=> Came(box, c, m)
  /\ CameOnce(box, c) => CameOnce(box2, c)
  /\ CameTwice(box, c) => CameTwice(box2, c)
  /\ CameInOrder(box, c) => CameInOrder(box2, c)

LEMMA Skips ==
  ASSUME NEW e, NEW f, NEW t, NEW x, NEW q, NEW c, NEW box, NEW qbox, NEW box2,
         Joint(e, f, t, x, q, c, box, qbox),
         \/ SameCame(c, box, box2)
         \/ /\ LessCame(c, box, box2) /\ x \notin t.accept
            /\ e.status \notin Talks /\ "accepted" \notin e.threads
  PROVE  Joint(e, f, t, x, q, c, box2, qbox)
<1>1. Side(e, f, t, x, q, c, box) /\ Side(f, e, t, q, x, c, qbox)
  BY DEF Joint
<1>2. Hears(e, t, x, c, box2)
  BY <1>1 DEF Side, Hears, SameCame
<1>3. /\ \A m : Came(box2, c, m) => Came(box, c, m)
      /\ \A m : Comes(m, t, x, c, box2) => Comes(m, t, x, c, box)
      /\ CameOnce(box, c) => CameOnce(box2, c)
  BY DEF SameCame, LessCame, Comes
<1>4. Opens(e, f, t, x, q, c, box2)
  BY <1>1, <1>3 DEF Side, Opens
<1>5. Confirms(e, f, t, x, q, c, box2)
  <2>1. Follow(e, f, t, x, c, box2)
    BY <1>1 DEF Side, Confirms, Follow, SameCame, Comes, Talks
  <2> QED
    BY <1>1, <1>3, <2>1 DEF Side, Confirms
<1> QED
  BY <1>1, <1>2, <1>4, <1>5 DEF Joint, Side

\* t_read is turned off, or left to another connection.
LEMMA Unreads ==
  ASSUME NEW e, NEW f, NEW t, NEW x, NEW q, NEW c, NEW box, NEW qbox, NEW e2,
         Joint(e, f, t, x, q, c, box, qbox), e.status = "none",
         e2.status = e.status, e2.buf = e.buf, e2.marks = e.marks,
         "accepted" \in e2.threads <=> "accepted" \in e.threads,
         "read" \in e2.threads => "read" \in e.threads
  PROVE  Joint(e2, f, t, x, q, c, box, qbox)
<1>1. Side(e, f, t, x, q, c, box) /\ Side(f, e, t, q, x, c, qbox)
  BY DEF Joint
<1>2. /\ Silent(e2, t, x) <=> Silent(e, t, x)
      /\ HasOpen(e2) <=> HasOpen(e)
      /\ HasKeepalive(e2) <=> HasKeepalive(e)
      /\ Past(e, t, x) => Past(e2, t, x)
  BY DEF Silent, HasOpen, HasKeepalive, Past, Left
<1>3. Owner(e2, t, x, q) /\ Hears(e2, t, x, c, box)
  BY <1>1 DEF Side, Owner, Owned, Hears, Talks
<1>4. Opens(e2, f, t, x, q, c, box) /\ Opens(f, e2, t, q, x, c, qbox)
  BY <1>1, <1>2 DEF Side, Opens
<1>5. Follow(e2, f, t, x, c, box) /\ Follow(f, e2, t, q, c, qbox)
  BY <1>1 DEF Side, Confirms, Follow
<1>6. Confirms(e2, f, t, x, q, c, box) /\ Confirms(f, e2, t, q, x, c, qbox)
  BY <1>1, <1>2, <1>5 DEF Side, Confirms
<1> QED
  BY <1>1, <1>3, <1>4, <1>6 DEF Joint, Side

\* A connection is forgotten by a new one (bgp_start in Idle).
LEMMA Orphans ==
  ASSUME NEW e, NEW f, NEW t, NEW x, NEW q, NEW c, NEW box, NEW qbox, NEW e2,
         Joint(e, f, t, x, q, c, box, qbox), e.status = "Idle",
         e2.status = "none", e2.buf = <<>>, e2.marks = {},
         "accepted" \notin e2.threads,
         "read" \in e2.threads => "read" \in e.threads
  PROVE  Joint(e2, f, t, x, q, c, box, qbox)
<1>1. Side(e, f, t, x, q, c, box) /\ Side(f, e, t, q, x, c, qbox)
  BY DEF Joint
<1>2. /\ ~Silent(e2, t, x) /\ ~HasOpen(e2) /\ ~HasKeepalive(e2) /\ ~Past(e, t, x)
      /\ x \notin t.accept /\ t.state[x] # "opening"
  BY <1>1 DEF Side, Owner, Silent, HasOpen, HasKeepalive, Past, Left, Late
<1>3. Owner(e2, t, x, q) /\ Hears(e2, t, x, c, box)
  BY <1>1, <1>2 DEF Side, Owner, Owned, Hears, Talks
<1>4. Owner(f, t, q, x) /\ Hears(f, t, q, c, qbox)
  BY <1>1 DEF Side
<1>5. \A m : ~Occurs(e2.buf, m)
  BY EmptyHas
<1>6. Opens(e2, f, t, x, q, c, box) /\ Opens(f, e2, t, q, x, c, qbox)
  BY <1>1, <1>2, <1>5 DEF Side, Opens
<1>7. Follow(e2, f, t, x, c, box) /\ Follow(f, e2, t, q, c, qbox)
  BY <1>1, EmptyHas DEF Side, Confirms, Follow
<1>8. Confirms(e2, f, t, x, q, c, box) /\ Confirms(f, e2, t, q, x, c, qbox)
  BY <1>1, <1>2, <1>7 DEF Side, Confirms
<1> QED
  BY <1>1, <1>3, <1>4, <1>6, <1>8 DEF Joint, Side

\* A message that the state has no row for: the peer is Idle, and its connection stays.
LEMMA Idles ==
  ASSUME NEW e, NEW f, NEW t, NEW x, NEW q, NEW c, NEW box, NEW qbox, NEW e2,
         Joint(e, f, t, x, q, c, box, qbox), e.status \in {"Idle", "OpenSent"},
         e.buf = <<>>, e2.status = "Idle", e2.buf = <<>>, e2.marks = {},
         e2.threads = e.threads
  PROVE  Joint(e2, f, t, x, q, c, box, qbox)
<1>1. Side(e, f, t, x, q, c, box) /\ Side(f, e, t, q, x, c, qbox)
  BY DEF Joint
<1>2. /\ "accepted" \notin e.threads /\ x \notin t.accept /\ t.state[x] # "opening"
      /\ ~Past(e, t, x)
  BY <1>1 DEF Side, Owner, Past, Left, Late
<1>3. ~Silent(e2, t, x) /\ ~HasOpen(e2) /\ ~HasKeepalive(e2)
  BY <1>2 DEF Silent, HasOpen, HasKeepalive, Late
<1>4. Owner(e2, t, x, q) /\ Hears(e2, t, x, c, box)
  BY <1>1, <1>2 DEF Side, Owner, Owned, Hears, Talks
<1>5. \A m : ~Occurs(e2.buf, m)
  BY EmptyHas
<1>6. Opens(e2, f, t, x, q, c, box) /\ Opens(f, e2, t, q, x, c, qbox)
  BY <1>1, <1>3, <1>5 DEF Side, Opens
<1>7. Follow(e2, f, t, x, c, box) /\ Follow(f, e2, t, q, c, qbox)
  BY <1>1, EmptyHas DEF Side, Confirms, Follow
<1>8. Confirms(e2, f, t, x, q, c, box) /\ Confirms(f, e2, t, q, x, c, qbox)
  BY <1>1, <1>2, <1>3, <1>7 DEF Side, Confirms
<1> QED
  BY <1>1, <1>4, <1>6, <1>8 DEF Joint, Side

\* bgp_event: the connection is open, and the OPEN goes to the output buffer.
LEMMA Greets ==
  ASSUME NEW e, NEW f, NEW t, NEW x, NEW q, NEW c, NEW box, NEW qbox, NEW e2,
         Joint(e, f, t, x, q, c, box, qbox),
         e.status = "Connect", "Open" \in e.marks, t.state[x] \in Sides \ {"none"},
         e2.status = "OpenSent", e2.buf = <<"Open">>, e2.marks = {},
         "read" \in e2.threads, "write" \in e2.threads, "accepted" \notin e2.threads
  PROVE  Joint(e2, f, t, x, q, c, box, qbox)
<1>1. Side(e, f, t, x, q, c, box) /\ Side(f, e, t, q, x, c, qbox)
  BY DEF Joint
<1>2. /\ x \notin t.accept /\ "accepted" \notin e.threads /\ ~Past(e, t, x)
      /\ Silent(e, t, x) /\ t.state[x] \in {"up", "closed"}
  BY <1>1 DEF Side, Owner, Past, Left, Late, Silent, Sides
<1>3. ~Silent(e2, t, x) /\ ~HasOpen(e2) /\ ~HasKeepalive(e2) /\ e2.buf # <<>>
  BY <1>2 DEF Silent, HasOpen, HasKeepalive, Late
<1>4. Owner(e2, t, x, q) /\ Owner(f, t, q, x)
  BY <1>1, <1>2 DEF Side, Owner, Owned
<1>5. Hears(e2, t, x, c, box) /\ Hears(f, t, q, c, qbox)
  BY <1>1, <1>2, <1>3 DEF Side, Hears, Talks
<1>6. Opens(e2, f, t, x, q, c, box) /\ Opens(f, e2, t, q, x, c, qbox)
  BY <1>1, <1>2, <1>3 DEF Side, Opens
<1>7. Follow(e2, f, t, x, c, box) /\ Follow(f, e2, t, q, c, qbox)
  BY <1>1, <1>2 DEF Side, Opens, Follow, HasOpen, Late
<1>8. Confirms(e2, f, t, x, q, c, box) /\ Confirms(f, e2, t, q, x, c, qbox)
  BY <1>1, <1>2, <1>3, <1>7 DEF Side, Confirms
<1> QED
  BY <1>1, <1>4, <1>5, <1>6, <1>8 DEF Joint, Side

\* What is in the output buffer at an end, by the status there.
EndFits(e) ==
  /\ e.buf \in Seq(Message)
  /\ e.buf # <<>> => e.status \in Talks /\ "write" \in e.threads
  /\ Once(e.buf, "Open")
  /\ Occurs(e.buf, "Keepalive") => e.status \in Late
  /\ Occurs(e.buf, "Update") => e.status = "Established"

\* bgp_event: the session gets on, or goes on.
LEMMA Advances ==
  ASSUME NEW e, NEW f, NEW t, NEW x, NEW q, NEW c, NEW box, NEW qbox, NEW e2,
         Joint(e, f, t, x, q, c, box, qbox), EndFits(f),
         e.status \in Talks, e2.status \in Late, HasOpen(e),
         HasKeepalive(e2) => HasKeepalive(e),
         e2.status = "OpenConfirm" =>
           e.status = "OpenSent" \/ (e.status = "OpenConfirm" /\ e2.marks = e.marks),
         "Open" \notin e2.marks,
         "read" \in e2.threads <=> "read" \in e.threads, "accepted" \notin e2.threads,
         \/ e2.buf # <<>> /\ "write" \in e2.threads
         \/ "Closed" \notin e.marks /\ e2.buf = e.buf /\ e2.threads = e.threads,
         Occurs(e2.buf, "Open") => Occurs(e.buf, "Open"),
         Follows(e.buf, "Keepalive", "Update") => Follows(e2.buf, "Keepalive", "Update")
  PROVE  Joint(e2, f, t, x, q, c, box, qbox)
<1>1. Side(e, f, t, x, q, c, box) /\ Side(f, e, t, q, x, c, qbox)
  BY DEF Joint
<1>2. x \notin t.accept /\ e.status # "none"
  BY <1>1 DEF Side, Owner, Talks
<1>3. ~Silent(e2, t, x) /\ HasOpen(e2) /\ Past(e2, t, x) /\ ~Silent(f, t, q)
  BY <1>1, <1>2 DEF Side, Opens, Silent, HasOpen, Past, Late
<1>4. Owner(e2, t, x, q) /\ Owner(f, t, q, x)
  BY <1>1, <1>2 DEF Side, Owner, Owned, Late, Talks
<1>5. Hears(e2, t, x, c, box) /\ Hears(f, t, q, c, qbox)
  BY <1>1, <1>2 DEF Side, Hears, Late, Talks
<1>6. Opens(e2, f, t, x, q, c, box) /\ Opens(f, e2, t, q, x, c, qbox)
  BY <1>1, <1>3 DEF Side, Opens
<1>7. Follow(e2, f, t, x, c, box)
  <2>1. CASE e.status = "OpenSent"
    <3>1. ~Past(e, t, x)
      BY <2>1 DEF Past, Left, Late
    <3>2. ~Comes("Update", t, x, c, box) /\ ~HasKeepalive(f)
      BY <1>1, <3>1 DEF Side, Confirms
    <3>3. ~Occurs(f.buf, "Update")
      BY <3>2 DEF EndFits, HasKeepalive
    <3>4. \A s : ~Occurs(s, "Update") => Follows(s, "Keepalive", "Update")
      BY DEF Occurs, Follows
    <3>5. CameInOrder(box, c)
      BY <3>2 DEF Comes, Came, CameInOrder, Occurs, Follows
    <3> QED
      BY <3>2, <3>3, <3>4, <3>5 DEF Follow, Comes
  <2>2. CASE e.status # "OpenSent"
    BY <1>1, <2>2 DEF Side, Confirms, Follow
  <2> QED
    BY <2>1, <2>2
<1>8. Follow(f, e2, t, q, c, qbox)
  BY <1>1 DEF Side, Confirms, Follow
<1>9. Confirms(e2, f, t, x, q, c, box) /\ Confirms(f, e2, t, q, x, c, qbox)
  BY <1>1, <1>3, <1>7, <1>8 DEF Side, Confirms
<1> QED
  BY <1>1, <1>4, <1>5, <1>6, <1>9 DEF Joint, Side

\* What is put on a wire.
Wires == Message \cup {"Up", "Fin"}

LEMMA WireAppend ==
  ASSUME NEW w, NEW a, NEW w2, Longer(Wires, w, w2, a)
  PROVE  /\ \A m : Occurs(w2, m) <=> Occurs(w, m) \/ a = m
         /\ Once(w, "Open") /\ (a = "Open" => ~Occurs(w, "Open")) => Once(w2, "Open")
         /\ Follows(w, "Keepalive", "Update") /\ (a = "Update" => Occurs(w, "Keepalive"))
              => Follows(w2, "Keepalive", "Update")
BY AppendHas

LEMMA WireTail ==
  ASSUME NEW w \in Seq(Wires), w # <<>>, NEW w2, w2 = Tail(w)
  PROVE  /\ \A m : Occurs(w, m) <=> Head(w) = m \/ Occurs(w2, m)
         /\ Once(w, "Open") => Once(w2, "Open")
         /\ Once(w, "Open") /\ Head(w) = "Open" => ~Occurs(w2, "Open")
         /\ Follows(w, "Keepalive", "Update") /\ Head(w) # "Keepalive"
              => Follows(w2, "Keepalive", "Update")
         /\ Follows(w, "Keepalive", "Update") => Head(w) # "Update"
BY TailHas

\* bgp_write.
LEMMA Writes ==
  ASSUME NEW e, NEW f, NEW t, NEW x, NEW q, NEW c, NEW box, NEW qbox, NEW e2, NEW t2,
         Joint(e, f, t, x, q, c, box, qbox), EndFits(e), e.buf # <<>>,
         t.state[x] = "up", t.wire[q] \in Seq(Wires),
         t2.state = t.state, t2.accept = t.accept, t2.wire[x] = t.wire[x],
         t2.wire[q] = Append(t.wire[q], Head(e.buf)),
         e2.status = e.status, e2.marks = e.marks, e2.buf = Tail(e.buf),
         "read" \in e2.threads <=> "read" \in e.threads,
         "accepted" \in e2.threads <=> "accepted" \in e.threads
  PROVE  Joint(e2, f, t2, x, q, c, box, qbox)
<1>1. Side(e, f, t, x, q, c, box) /\ Side(f, e, t, q, x, c, qbox)
  BY DEF Joint
<1> DEFINE a == Head(e.buf)
           w == t.wire[q]
           w2 == t2.wire[q]
<1>2. Longer(Wires, w, w2, a) /\ a \in Message /\ e.status \in Talks /\ a # "Fin"
  BY DEF Longer, EndFits, Message, Wires
<1> HIDE DEF a, w, w2
<1>3. /\ \A m : Occurs(w2, m) <=> Occurs(w, m) \/ a = m
      /\ Once(w, "Open") /\ (a = "Open" => ~Occurs(w, "Open")) => Once(w2, "Open")
      /\ Follows(w, "Keepalive", "Update") /\ (a = "Update" => Occurs(w, "Keepalive"))
           => Follows(w2, "Keepalive", "Update")
  BY <1>2, WireAppend
<1>4. /\ \A m : Occurs(e.buf, m) <=> a = m \/ Occurs(e2.buf, m)
      /\ a = "Open" => ~Occurs(e2.buf, "Open")
      /\ Follows(e.buf, "Keepalive", "Update") /\ a # "Keepalive"
           => Follows(e2.buf, "Keepalive", "Update")
      /\ Follows(e.buf, "Keepalive", "Update") => a # "Update"
  BY TailHas DEF EndFits, a
<1>5. Fins(t2, x, q) /\ Fins(t2, q, x)
  BY <1>1, <1>2, <1>3 DEF Side, Fins, w, w2
<1>6. Owner(e2, t2, x, q) /\ Owner(f, t2, q, x)
  BY <1>1 DEF Side, Owner, Owned
<1>7. Hears(e2, t2, x, c, box) /\ Hears(f, t2, q, c, qbox)
  BY <1>1, <1>2 DEF Side, Hears
<1>8. /\ \A m : Comes(m, t2, x, c, box) <=> Comes(m, t, x, c, box)
      /\ \A m : Comes(m, t2, q, c, qbox) <=> Comes(m, t, q, c, qbox) \/ a = m
  BY <1>3 DEF Comes, w, w2
<1>9. /\ HasOpen(e2) <=> HasOpen(e)
      /\ HasKeepalive(e2) <=> HasKeepalive(e)
      /\ Past(e2, t2, x) <=> Past(e, t, x)
      /\ Past(f, t2, q) <=> Past(f, t, q)
      /\ Silent(f, t2, q) <=> Silent(f, t, q)
      /\ ~Silent(e2, t2, x)
  BY <1>1, <1>2 DEF Side, Owner, HasOpen, HasKeepalive, Past, Left, Silent, Talks
<1>10. /\ Occurs(e.buf, a)
       /\ a = "Keepalive" => Past(e, t, x)
       /\ a = "Update" => HasKeepalive(e)
  BY <1>4 DEF EndFits, Past, HasKeepalive
<1>11. Opens(e2, f, t2, x, q, c, box)
  BY <1>1, <1>8, <1>9 DEF Side, Opens
<1>12. Opens(f, e2, t2, q, x, c, qbox)
  <2>1. a = "Open" => ~HasOpen(f) /\ ~Comes("Open", t, q, c, qbox)
    BY <1>1, <1>10 DEF Side, Opens
  <2>2. a = "Open" => ~Occurs(w, "Open") /\ ~Came(qbox, c, "Open")
    BY <2>1 DEF Comes, w
  <2>3. /\ CameOnce(qbox, c) /\ Once(w2, "Open")
        /\ ~(Came(qbox, c, "Open") /\ Occurs(w2, "Open"))
    BY <1>1, <1>3, <2>2 DEF Side, Opens, w
  <2>4. /\ HasOpen(f) => ~Comes("Open", t2, q, c, qbox) /\ ~Occurs(e2.buf, "Open")
        /\ Occurs(e2.buf, "Open") => ~Comes("Open", t2, q, c, qbox)
    BY <1>1, <1>4, <1>8, <2>1 DEF Side, Opens
  <2> QED
    BY <1>9, <2>3, <2>4 DEF Opens, w2
<1>13. Confirms(e2, f, t2, x, q, c, box)
  <2>1. Follow(e2, f, t2, x, c, box)
    BY <1>1, <1>8 DEF Side, Confirms, Follow
  <2> QED
    BY <1>1, <1>8, <1>9, <2>1 DEF Side, Confirms
<1>14. Confirms(f, e2, t2, q, x, c, qbox)
  <2>1. Follow(f, e2, t2, q, c, qbox)
    <3> SUFFICES ASSUME f.status = "OpenConfirm", "ReceiveKeepalive" \notin f.marks
                 PROVE  /\ CameInOrder(qbox, c)
                        /\ Came(qbox, c, "Keepalive") \/ Follows(w2, "Keepalive", "Update")
                        /\ Comes("Keepalive", t2, q, c, qbox)
                             \/ Follows(e2.buf, "Keepalive", "Update")
      BY DEF Follow, w2
    <3>1. /\ CameInOrder(qbox, c)
          /\ Came(qbox, c, "Keepalive") \/ Follows(w, "Keepalive", "Update")
          /\ Comes("Keepalive", t, q, c, qbox) \/ Follows(e.buf, "Keepalive", "Update")
      BY <1>1 DEF Side, Confirms, Follow, w
    <3>2. a = "Update" => Came(qbox, c, "Keepalive") \/ Occurs(w, "Keepalive")
      BY <3>1, <1>4 DEF Comes, w
    <3> QED
      BY <3>1, <3>2, <1>3, <1>4, <1>8
  <2> QED
    BY <1>1, <1>8, <1>9, <1>10, <2>1 DEF Side, Confirms
<1> QED
  BY <1>5, <1>6, <1>7, <1>11, <1>12, <1>13, <1>14 DEF Joint, Side

\* bgp_read of the configured peer.
LEMMA Reads ==
  ASSUME NEW e, NEW f, NEW t, NEW x, NEW q, NEW c \in Conn, NEW box, NEW qbox, NEW e2, NEW box2,
         NEW m,
         Joint(e, f, t, x, q, c, box, qbox), Handling(box, box2, c, m),
         e.status \notin {"none", "Connect"}, "read" \in e.threads,
         e.marks = {}, e.buf = <<>>,
         e2.status = e.status, e2.buf = e.buf, e2.threads = e.threads,
         m = "Zero" => "Closed" \in e2.marks,
         "ReceiveOpen" \in e2.marks => m = "Open",
         m = "Keepalive" <=> "ReceiveKeepalive" \in e2.marks,
         "Open" \notin e2.marks
  PROVE  Joint(e2, f, t, x, q, c, box2, qbox)
<1>1. Side(e, f, t, x, q, c, box) /\ Side(f, e, t, q, x, c, qbox)
  BY DEF Joint
<1>2. /\ \A k : Came(box, c, k) <=> m = k \/ Came(box2, c, k)
      /\ CameOnce(box, c) => CameOnce(box2, c)
      /\ CameOnce(box, c) /\ m = "Open" => ~Came(box2, c, "Open")
      /\ CameInOrder(box, c) /\ m # "Keepalive" => CameInOrder(box2, c)
  BY BoxTail
<1>3. \A k : Comes(k, t, x, c, box2) => Comes(k, t, x, c, box)
  BY <1>2 DEF Comes
<1>4. /\ Silent(e2, t, x) <=> Silent(e, t, x)
      /\ Past(e2, t, x) <=> Past(e, t, x)
      /\ x \notin t.accept
  BY <1>1 DEF Side, Owner, Silent, Past, Left
<1>5. Owner(e2, t, x, q) /\ Owner(f, t, q, x)
  BY <1>1 DEF Side, Owner, Owned
<1>6. Hears(e2, t, x, c, box2) /\ Hears(f, t, q, c, qbox)
  BY <1>1, <1>2, <1>4 DEF Side, Hears, Owner
<1>7. Opens(e2, f, t, x, q, c, box2)
  <2>1. m = "Open" => Comes("Open", t, x, c, box)
    BY <1>2 DEF Comes
  <2>2. HasOpen(e2) => HasOpen(e) \/ m = "Open"
    BY DEF HasOpen
  <2>3. m = "Open" => ~Comes("Open", t, x, c, box2) /\ ~Occurs(f.buf, "Open")
    BY <1>1, <1>2, <2>1 DEF Side, Opens, Comes
  <2> QED
    BY <1>1, <1>2, <1>3, <2>1, <2>2, <2>3 DEF Side, Opens
<1>8. Opens(f, e2, t, q, x, c, qbox)
  BY <1>1, <1>4 DEF Side, Opens
<1>9. Confirms(e2, f, t, x, q, c, box2)
  <2>1. Follow(e2, f, t, x, c, box2)
    BY <1>1, <1>2 DEF Side, Confirms, Follow, Comes
  <2>2. HasKeepalive(e2) => HasKeepalive(e) \/ Comes("Keepalive", t, x, c, box)
    BY <1>2 DEF HasKeepalive, Comes
  <2> QED
    BY <1>1, <1>3, <1>4, <2>1, <2>2 DEF Side, Confirms
<1>10. Confirms(f, e2, t, q, x, c, qbox)
  BY <1>1, <1>4 DEF Side, Confirms, Follow
<1> QED
  BY <1>1, <1>5, <1>6, <1>7, <1>8, <1>9, <1>10 DEF Joint, Side

\* bgp_accept with a temporary peer.
LEMMA Welcomes ==
  ASSUME NEW e, NEW f, NEW t, NEW x, NEW q, NEW c \in Conn, NEW box, NEW qbox, NEW e2, NEW box2,
         NEW t2, NEW m,
         Joint(e, f, t, x, q, c, box, qbox), Handling(box, box2, c, m),
         x \in t.accept, t.state[x] \in {"up", "closed"},
         t2.state = t.state, t2.wire = t.wire, t2.accept = t.accept \ {x},
         e2.status = e.status, e2.buf = e.buf, e2.marks = e.marks,
         "read" \in e2.threads <=> "read" \in e.threads, "accepted" \in e2.threads
  PROVE  Joint(e2, f, t2, x, q, c, box2, qbox)
<1>1. Side(e, f, t, x, q, c, box) /\ Side(f, e, t, q, x, c, qbox)
  BY DEF Joint
<1>2. /\ \A k : Came(box2, c, k) => Came(box, c, k)
      /\ CameOnce(box, c) => CameOnce(box2, c)
      /\ CameTwice(box, c) => Came(box2, c, "Zero")
  BY BoxTail
<1>3. \A k : Comes(k, t2, x, c, box2) => Comes(k, t, x, c, box)
  BY <1>2 DEF Comes
<1>4. /\ e.status = "none" /\ q \notin t.accept
      /\ x \notin t2.accept /\ q \notin t2.accept
  BY <1>1 DEF Side, Owner
<1>5. /\ Silent(e, t, x) /\ Silent(e2, t2, x) /\ ~Past(e, t, x)
      /\ HasOpen(e2) <=> HasOpen(e)
      /\ HasKeepalive(e2) <=> HasKeepalive(e)
      /\ Silent(f, t2, q) <=> Silent(f, t, q)
      /\ Past(f, t2, q) <=> Past(f, t, q)
  BY <1>4 DEF Silent, Past, Left, Late, HasOpen, HasKeepalive
<1>6. Fins(t2, x, q) /\ Fins(t2, q, x)
  BY <1>1 DEF Side, Fins
<1>7. Owner(e2, t2, x, q)
  BY <1>1, <1>4 DEF Side, Owner, Owned
<1>8. Owner(f, t2, q, x)
  BY <1>1, <1>4 DEF Side, Owner, Owned
<1>9. Hears(e2, t2, x, c, box2) /\ Hears(f, t2, q, c, qbox)
  BY <1>1, <1>2, <1>4 DEF Side, Hears, Talks
<1>10. Opens(e2, f, t2, x, q, c, box2)
  BY <1>1, <1>2, <1>3, <1>5 DEF Side, Opens
<1>11. \A k : Comes(k, t2, q, c, qbox) <=> Comes(k, t, q, c, qbox)
  BY DEF Comes
<1>12. Opens(f, e2, t2, q, x, c, qbox)
  BY <1>1, <1>5, <1>11 DEF Side, Opens
<1>13. Follow(e2, f, t2, x, c, box2) /\ Follow(f, e2, t2, q, c, qbox)
  BY <1>1, <1>4, <1>11 DEF Side, Confirms, Follow
<1>14. Confirms(e2, f, t2, x, q, c, box2) /\ Confirms(f, e2, t2, q, x, c, qbox)
  BY <1>1, <1>3, <1>5, <1>11, <1>13 DEF Side, Confirms
<1> QED
  BY <1>6, <1>7, <1>8, <1>9, <1>10, <1>12, <1>14 DEF Joint, Side

\* bgp_open_receive hands the connection over.
LEMMA TakesOver ==
  ASSUME NEW e, NEW f, NEW t, NEW x, NEW q, NEW c \in Conn, NEW box, NEW qbox, NEW e2, NEW box2,
         Joint(e, f, t, x, q, c, box, qbox), Handling(box, box2, c, "Open"),
         "accepted" \in e.threads, t.state[x] \in Sides \ {"none"},
         e2.status = "OpenSent", e2.buf = <<"Open">>, "write" \in e2.threads,
         "accepted" \notin e2.threads, e2.marks \subseteq {"ReceiveOpen"},
         "read" \in e2.threads <=> t.state[x] = "up"
  PROVE  Joint(e2, f, t, x, q, c, box2, qbox)
<1>1. Side(e, f, t, x, q, c, box) /\ Side(f, e, t, q, x, c, qbox)
  BY DEF Joint
<1>2. /\ \A k : Came(box2, c, k) => Came(box, c, k)
      /\ Came(box, c, "Open")
      /\ CameOnce(box, c) => CameOnce(box2, c)
      /\ CameOnce(box, c) => ~Came(box2, c, "Open")
  BY BoxTail
<1>3. \A k : Comes(k, t, x, c, box2) => Comes(k, t, x, c, box)
  BY <1>2 DEF Comes
<1>4. /\ e.status = "none" /\ x \notin t.accept /\ t.state[x] \in {"up", "closed"}
      /\ Silent(e, t, x) /\ ~Past(e, t, x)
      /\ ~Silent(e2, t, x) /\ ~HasKeepalive(e2)
  BY <1>1 DEF Side, Owner, Silent, Past, Left, Late, HasKeepalive, Sides
<1>5. Owner(e2, t, x, q) /\ Owner(f, t, q, x)
  BY <1>1, <1>4 DEF Side, Owner, Owned
<1>6. Hears(e2, t, x, c, box2) /\ Hears(f, t, q, c, qbox)
  BY <1>1, <1>4 DEF Side, Hears, Talks
<1>7. Opens(e2, f, t, x, q, c, box2)
  <2>1. Comes("Open", t, x, c, box)
    BY <1>2 DEF Comes
  <2>2. ~Silent(f, t, q) /\ ~Occurs(f.buf, "Open") /\ ~Occurs(t.wire[x], "Open")
    BY <1>1, <1>2, <2>1 DEF Side, Opens
  <2> QED
    BY <1>1, <1>2, <2>2 DEF Side, Opens, Comes
<1>8. Opens(f, e2, t, q, x, c, qbox)
  BY <1>1, <1>4 DEF Side, Opens
<1>9. Follow(e2, f, t, x, c, box2) /\ Follow(f, e2, t, q, c, qbox)
  BY <1>1, <1>4 DEF Side, Opens, Follow, HasOpen, Late
<1>10. Confirms(e2, f, t, x, q, c, box2) /\ Confirms(f, e2, t, q, x, c, qbox)
  BY <1>1, <1>3, <1>4, <1>9 DEF Side, Confirms
<1> QED
  BY <1>1, <1>5, <1>6, <1>7, <1>8, <1>10 DEF Joint, Side

\* bgp_connect_check.
LEMMA Looks ==
  ASSUME NEW e, NEW f, NEW t, NEW x, NEW q, NEW c, NEW box, NEW qbox, NEW e2, NEW box2,
         Joint(e, f, t, x, q, c, box, qbox), LessCame(c, box, box2),
         e.status = "Connect", e2.status = e.status, e2.buf = e.buf,
         e2.marks \subseteq {"Open"}, "Open" \in e2.marks => t.state[x] = "up",
         "accepted" \notin e2.threads,
         "read" \in e2.threads => "read" \in e.threads
  PROVE  Joint(e2, f, t, x, q, c, box2, qbox)
<1>1. Side(e, f, t, x, q, c, box) /\ Side(f, e, t, q, x, c, qbox)
  BY DEF Joint
<1>2. /\ \A k : Comes(k, t, x, c, box2) => Comes(k, t, x, c, box)
      /\ CameOnce(box, c) => CameOnce(box2, c)
      /\ \A k : Came(box2, c, k) => Came(box, c, k)
  BY DEF LessCame, Comes
<1>3. /\ Silent(e, t, x) /\ Silent(e2, t, x) /\ ~Past(e, t, x)
      /\ ~HasOpen(e2) /\ ~HasKeepalive(e2) /\ x \notin t.accept
  BY <1>1 DEF Side, Owner, Silent, Past, Left, Late, HasOpen, HasKeepalive
<1>4. Owner(e2, t, x, q) /\ Owner(f, t, q, x)
  BY <1>1 DEF Side, Owner, Owned
<1>5. Hears(e2, t, x, c, box2) /\ Hears(f, t, q, c, qbox)
  BY <1>1, <1>3 DEF Side, Hears, Talks
<1>6. Opens(e2, f, t, x, q, c, box2) /\ Opens(f, e2, t, q, x, c, qbox)
  BY <1>1, <1>2, <1>3 DEF Side, Opens
<1>7. Follow(e2, f, t, x, c, box2) /\ Follow(f, e2, t, q, c, qbox)
  BY <1>1 DEF Side, Confirms, Follow
<1>8. Confirms(e2, f, t, x, q, c, box2) /\ Confirms(f, e2, t, q, x, c, qbox)
  BY <1>1, <1>2, <1>3, <1>7 DEF Side, Confirms
<1> QED
  BY <1>1, <1>4, <1>5, <1>6, <1>8 DEF Joint, Side

\* bgp_connect: a connection that nobody has used.
LEMMA Dials ==
  ASSUME NEW e, NEW f, NEW x, NEW q, NEW c, NEW box, NEW qbox, NEW e2, NEW t2,
         x # q, Nothing(f),
         t2.state[x] = "opening", t2.state[q] = "opening", t2.wire[x] = <<"Up">>,
         t2.wire[q] = <<>>, t2.accept = {q},
         box \in Seq(Interrupts), qbox \in Seq(Interrupts),
         \A i \in 1..Len(box) : box[i][1] # c, \A i \in 1..Len(qbox) : qbox[i][1] # c,
         e2.status = "Connect", e2.buf = <<>>, e2.marks = {}, "accepted" \notin e2.threads
  PROVE  Joint(e2, f, t2, x, q, c, box, qbox)
<1>1. /\ (\A m : ~Came(box, c, m)) /\ CameOnce(box, c) /\ CameInOrder(box, c)
      /\ (\A m : ~Came(qbox, c, m)) /\ CameOnce(qbox, c) /\ CameInOrder(qbox, c)
  BY BoxWithout
<1>2. \A m \in Main \cup {"Fin"} : /\ ~Occurs(t2.wire[x], m) /\ ~Occurs(t2.wire[q], m)
                                  /\ ~Occurs(f.buf, m) /\ ~Occurs(e2.buf, m)
  BY DEF Nothing, Occurs, Main
<1>3. Once(t2.wire[x], "Open") /\ Once(t2.wire[q], "Open")
  BY DEF Once
<1>4. \A m \in Main : ~Comes(m, t2, x, c, box) /\ ~Comes(m, t2, q, c, qbox)
  BY <1>1, <1>2 DEF Comes
<1>5. Fins(t2, x, q) /\ Fins(t2, q, x)
  BY <1>2 DEF Fins
<1>6. Owner(e2, t2, x, q) /\ Owner(f, t2, q, x)
  BY DEF Owner, Owned, Nothing
<1>7. Hears(e2, t2, x, c, box) /\ Hears(f, t2, q, c, qbox)
  BY DEF Hears, Nothing, Talks
<1>8. /\ ~HasOpen(e2) /\ ~HasOpen(f) /\ ~HasKeepalive(e2) /\ ~HasKeepalive(f)
  BY DEF HasOpen, HasKeepalive, Nothing, Late
<1>9. Opens(e2, f, t2, x, q, c, box) /\ Opens(f, e2, t2, q, x, c, qbox)
  BY <1>1, <1>2, <1>3, <1>4, <1>8 DEF Opens, Main
<1>10. Confirms(e2, f, t2, x, q, c, box) /\ Confirms(f, e2, t2, q, x, c, qbox)
  BY <1>4, <1>8 DEF Confirms, Follow, Nothing, Main
<1> QED
  BY <1>5, <1>6, <1>7, <1>9, <1>10 DEF Joint, Side

-----------------------------------------------------------------------------
(***************************************************************************)
(* What arrives at the end of x.                                           *)
(***************************************************************************)
\* The end of the handshake.
LEMMA ArrivesUp ==
  ASSUME NEW e, NEW f, NEW t, NEW x, NEW q, NEW c \in Conn, NEW box, NEW qbox, NEW box2, NEW t2,
         x # q, Joint(e, f, t, x, q, c, box, qbox),
         Telling(box, box2, c, "Zero"),
         t.wire[x] \in Seq(Wires), t.wire[x] # <<>>, Head(t.wire[x]) = "Up",
         t.wire[q] \in Seq(Wires), t.state[x] = "opening",
         x \in t.accept => t.state[q] # "opening",
         t2.state[x] = "up", t2.state[q] = t.state[q], t2.accept = t.accept,
         t2.wire[x] = Tail(t.wire[x]),
         t2.wire[q] \in {t.wire[q], Append(t.wire[q], "Up")}
  PROVE  Joint(e, f, t2, x, q, c, box2, qbox)
<1>1. Side(e, f, t, x, q, c, box) /\ Side(f, e, t, q, x, c, qbox)
  BY DEF Joint
<1>2. /\ \A m : Came(box2, c, m) <=> Came(box, c, m) \/ m = "Zero"
      /\ CameOnce(box, c) => CameOnce(box2, c)
      /\ CameInOrder(box, c) => CameInOrder(box2, c)
  BY BoxAppend
<1>3. /\ \A m : Occurs(t.wire[x], m) <=> m = "Up" \/ Occurs(t2.wire[x], m)
      /\ Once(t.wire[x], "Open") => Once(t2.wire[x], "Open")
      /\ Follows(t.wire[x], "Keepalive", "Update")
           => Follows(t2.wire[x], "Keepalive", "Update")
  <2> DEFINE w == t.wire[x]
             w2 == t2.wire[x]
  <2>1. w \in Seq(Wires) /\ w # <<>> /\ w2 = Tail(w) /\ Head(w) = "Up"
    OBVIOUS
  <2> HIDE DEF w, w2
  <2>2. /\ \A m : Occurs(w, m) <=> m = "Up" \/ Occurs(w2, m)
        /\ Once(w, "Open") => Once(w2, "Open")
        /\ Follows(w, "Keepalive", "Update") => Follows(w2, "Keepalive", "Update")
    BY <2>1, WireTail
  <2> QED
    BY <2>2 DEF w, w2
<1>4. /\ \A m : m # "Up" => (Occurs(t2.wire[q], m) <=> Occurs(t.wire[q], m))
      /\ Once(t.wire[q], "Open") => Once(t2.wire[q], "Open")
      /\ Follows(t.wire[q], "Keepalive", "Update")
           => Follows(t2.wire[q], "Keepalive", "Update")
  <2> DEFINE w == t.wire[q]
             w2 == t2.wire[q]
             up == "Up"
  <2>1. w \in Seq(Wires) /\ (w2 = w \/ w2 = Append(w, up)) /\ up \in Wires
    BY DEF Wires
  <2>2. up # "Open" /\ up # "Update"
    OBVIOUS
  <2> HIDE DEF w, w2
  <2>3. CASE w2 = w
    BY <2>3 DEF w, w2
  <2>4. CASE w2 = Append(w, up)
    <3>2. Longer(Wires, w, w2, up)
      BY <2>1, <2>4 DEF Longer
    <3> HIDE DEF up
    <3>1. /\ \A m : Occurs(w2, m) <=> Occurs(w, m) \/ up = m
          /\ Once(w, "Open") => Once(w2, "Open")
          /\ Follows(w, "Keepalive", "Update") => Follows(w2, "Keepalive", "Update")
      BY <2>2, <3>2, WireAppend
    <3> QED
      BY <3>1 DEF w, w2, up
  <2> QED
    BY <2>1, <2>3, <2>4
<1>5. \A m \in Main : /\ Comes(m, t2, x, c, box2) <=> Comes(m, t, x, c, box)
                      /\ Comes(m, t2, q, c, qbox) <=> Comes(m, t, q, c, qbox)
                      /\ Occurs(t2.wire[x], m) <=> Occurs(t.wire[x], m)
                      /\ Occurs(t2.wire[q], m) <=> Occurs(t.wire[q], m)
                      /\ Came(box2, c, m) <=> Came(box, c, m)
  BY <1>2, <1>3, <1>4 DEF Comes, Main
<1>6. /\ Silent(e, t2, x) <=> Silent(e, t, x)
      /\ Silent(f, t2, q) <=> Silent(f, t, q)
      /\ Past(e, t2, x) <=> Past(e, t, x)
      /\ Past(f, t2, q) <=> Past(f, t, q)
  BY DEF Silent, Past, Left
<1>7. Fins(t2, x, q)
  BY <1>1, <1>3 DEF Side, Fins
<1>8. Fins(t2, q, x)
  BY <1>1, <1>4 DEF Side, Fins
<1>9. Owner(e, t2, x, q)
  BY <1>1 DEF Side, Owner, Owned
<1>10. Owner(f, t2, q, x)
  BY <1>1 DEF Side, Owner, Owned
<1>11. Hears(e, t2, x, c, box2)
  BY <1>1, <1>2 DEF Side, Hears
<1>12. Hears(f, t2, q, c, qbox)
  BY <1>1 DEF Side, Hears
<1>13. Opens(e, f, t2, x, q, c, box2)
  BY <1>1, <1>2, <1>3, <1>5, <1>6 DEF Side, Opens, Main
<1>14. Opens(f, e, t2, q, x, c, qbox)
  BY <1>1, <1>4, <1>5, <1>6 DEF Side, Opens, Main
<1>15. Follow(e, f, t2, x, c, box2) /\ Follow(f, e, t2, q, c, qbox)
  BY <1>1, <1>2, <1>3, <1>4, <1>5 DEF Side, Confirms, Follow, Main
<1>16. Confirms(e, f, t2, x, q, c, box2) /\ Confirms(f, e, t2, q, x, c, qbox)
  BY <1>1, <1>5, <1>6, <1>15 DEF Side, Confirms, Main
<1> QED
  BY <1>7, <1>8, <1>9, <1>10, <1>11, <1>12, <1>13, <1>14, <1>16 DEF Joint, Side

\* A FIN.
LEMMA ArrivesFin ==
  ASSUME NEW e, NEW f, NEW t, NEW x, NEW q, NEW c \in Conn, NEW box, NEW qbox, NEW box2, NEW t2,
         x # q, Joint(e, f, t, x, q, c, box, qbox),
         Telling(box, box2, c, "Zero"),
         t.wire[x] \in Seq(Wires), t.wire[x] # <<>>, Head(t.wire[x]) = "Fin",
         t.state[x] = "up",
         t2.state[x] = "closed", t2.state[q] = t.state[q], t2.accept = t.accept,
         t2.wire[x] = Tail(t.wire[x]), t2.wire[q] = t.wire[q]
  PROVE  Joint(e, f, t2, x, q, c, box2, qbox)
<1>1. Side(e, f, t, x, q, c, box) /\ Side(f, e, t, q, x, c, qbox)
  BY DEF Joint
<1>2. /\ \A m : Came(box2, c, m) <=> Came(box, c, m) \/ m = "Zero"
      /\ CameOnce(box, c) => CameOnce(box2, c)
      /\ Came(box, c, "Zero") => CameTwice(box2, c)
      /\ CameInOrder(box, c) => CameInOrder(box2, c)
  BY BoxAppend
<1>3. /\ \A m : Occurs(t.wire[x], m) <=> m = "Fin" \/ Occurs(t2.wire[x], m)
      /\ Once(t.wire[x], "Open") => Once(t2.wire[x], "Open")
      /\ Follows(t.wire[x], "Keepalive", "Update")
           => Follows(t2.wire[x], "Keepalive", "Update")
  <2> DEFINE w == t.wire[x]
             w2 == t2.wire[x]
  <2>1. w \in Seq(Wires) /\ w # <<>> /\ w2 = Tail(w) /\ Head(w) = "Fin"
    OBVIOUS
  <2> HIDE DEF w, w2
  <2>2. /\ \A m : Occurs(w, m) <=> m = "Fin" \/ Occurs(w2, m)
        /\ Once(w, "Open") => Once(w2, "Open")
        /\ Follows(w, "Keepalive", "Update") => Follows(w2, "Keepalive", "Update")
    BY <2>1, WireTail
  <2> QED
    BY <2>2 DEF w, w2
<1>4. t.state[q] = "closed"
  BY <1>1, <1>3 DEF Side, Fins
<1>5. \A m \in Main : /\ Comes(m, t2, x, c, box2) <=> Comes(m, t, x, c, box)
                      /\ Comes(m, t2, q, c, qbox) <=> Comes(m, t, q, c, qbox)
                      /\ Occurs(t2.wire[x], m) <=> Occurs(t.wire[x], m)
                      /\ Came(box2, c, m) <=> Came(box, c, m)
  BY <1>2, <1>3 DEF Comes, Main
<1>6. /\ Silent(e, t2, x) <=> Silent(e, t, x)
      /\ Silent(f, t2, q) <=> Silent(f, t, q)
      /\ Past(e, t, x) => Past(e, t2, x)
      /\ Past(f, t2, q) <=> Past(f, t, q)
  BY DEF Silent, Past, Left
<1>7. Fins(t2, x, q) /\ Fins(t2, q, x)
  BY <1>1, <1>3, <1>4 DEF Side, Fins
<1>8. Owner(e, t2, x, q)
  BY <1>1, <1>4 DEF Side, Owner, Owned
<1>9. Owner(f, t2, q, x)
  BY <1>1, <1>4 DEF Side, Owner, Owned
<1>10. Hears(e, t2, x, c, box2)
  BY <1>1, <1>2 DEF Side, Hears
<1>11. Hears(f, t2, q, c, qbox)
  BY <1>1 DEF Side, Hears
<1>12. Opens(e, f, t2, x, q, c, box2)
  BY <1>1, <1>2, <1>3, <1>5, <1>6 DEF Side, Opens, Main
<1>13. Opens(f, e, t2, q, x, c, qbox)
  BY <1>1, <1>5, <1>6 DEF Side, Opens, Main
<1>14. Follow(e, f, t2, x, c, box2) /\ Follow(f, e, t2, q, c, qbox)
  BY <1>1, <1>2, <1>3, <1>5 DEF Side, Confirms, Follow, Main
<1>15. Confirms(e, f, t2, x, q, c, box2) /\ Confirms(f, e, t2, q, x, c, qbox)
  BY <1>1, <1>5, <1>6, <1>14 DEF Side, Confirms, Main
<1> QED
  BY <1>7, <1>8, <1>9, <1>10, <1>11, <1>12, <1>13, <1>15 DEF Joint, Side

\* A message.
LEMMA Arrives ==
  ASSUME NEW e, NEW f, NEW t, NEW x, NEW q, NEW c \in Conn, NEW box, NEW qbox, NEW box2, NEW t2,
         NEW a \in Message,
         x # q, Joint(e, f, t, x, q, c, box, qbox),
         Telling(box, box2, c, a),
         t.wire[x] \in Seq(Wires), t.wire[x] # <<>>, Head(t.wire[x]) = a,
         t2.state = t.state, t2.accept = t.accept,
         t2.wire[x] = Tail(t.wire[x]), t2.wire[q] = t.wire[q]
  PROVE  Joint(e, f, t2, x, q, c, box2, qbox)
<1>1. Side(e, f, t, x, q, c, box) /\ Side(f, e, t, q, x, c, qbox)
  BY DEF Joint
<1>2. /\ \A m : Came(box2, c, m) <=> Came(box, c, m) \/ m = a
      /\ CameOnce(box, c) /\ (a = "Open" => ~Came(box, c, "Open")) => CameOnce(box2, c)
      /\ CameTwice(box, c) => CameTwice(box2, c)
      /\ CameInOrder(box, c) /\ (a = "Update" => Came(box, c, "Keepalive"))
           => CameInOrder(box2, c)
  BY BoxAppend
<1>3. /\ \A m : Occurs(t.wire[x], m) <=> m = a \/ Occurs(t2.wire[x], m)
      /\ Once(t.wire[x], "Open") => Once(t2.wire[x], "Open")
      /\ Once(t.wire[x], "Open") /\ a = "Open" => ~Occurs(t2.wire[x], "Open")
      /\ Follows(t.wire[x], "Keepalive", "Update") /\ a # "Keepalive"
           => Follows(t2.wire[x], "Keepalive", "Update")
      /\ Follows(t.wire[x], "Keepalive", "Update") => a # "Update"
  <2> DEFINE w == t.wire[x]
             w2 == t2.wire[x]
  <2>1. w \in Seq(Wires) /\ w # <<>> /\ w2 = Tail(w) /\ Head(w) = a
    OBVIOUS
  <2> HIDE DEF w, w2
  <2>2. /\ \A m : Occurs(w, m) <=> m = a \/ Occurs(w2, m)
        /\ Once(w, "Open") => Once(w2, "Open")
        /\ Once(w, "Open") /\ a = "Open" => ~Occurs(w2, "Open")
        /\ Follows(w, "Keepalive", "Update") /\ a # "Keepalive"
             => Follows(w2, "Keepalive", "Update")
        /\ Follows(w, "Keepalive", "Update") => a # "Update"
    BY <2>1, WireTail
  <2> QED
    BY <2>2 DEF w, w2
<1>4. /\ \A m : Comes(m, t2, x, c, box2) <=> Comes(m, t, x, c, box)
      /\ \A m : Comes(m, t2, q, c, qbox) <=> Comes(m, t, q, c, qbox)
  BY <1>2, <1>3 DEF Comes
<1>5. /\ Silent(e, t2, x) <=> Silent(e, t, x)
      /\ Silent(f, t2, q) <=> Silent(f, t, q)
      /\ Past(e, t2, x) <=> Past(e, t, x)
      /\ Past(f, t2, q) <=> Past(f, t, q)
  BY DEF Silent, Past, Left
<1>6. a # "Fin" /\ a # "Zero"
  BY DEF Message
<1>7. Fins(t2, x, q) /\ Fins(t2, q, x)
  <2>1. Occurs(t2.wire[x], "Fin") <=> Occurs(t.wire[x], "Fin")
    BY <1>3, <1>6
  <2> QED
    BY <1>1, <2>1 DEF Side, Fins
<1>8. Owner(e, t2, x, q) /\ Owner(f, t2, q, x)
  BY <1>1 DEF Side, Owner, Owned
<1>9. Hears(e, t2, x, c, box2) /\ Hears(f, t2, q, c, qbox)
  BY <1>1, <1>2 DEF Side, Hears
<1>10. Opens(e, f, t2, x, q, c, box2)
  <2>1. a = "Open" => ~Came(box, c, "Open")
    BY <1>1, <1>3 DEF Side, Opens
  <2> QED
    BY <1>1, <1>2, <1>3, <1>4, <1>5, <2>1 DEF Side, Opens
<1>11. Opens(f, e, t2, q, x, c, qbox)
  BY <1>1, <1>4, <1>5 DEF Side, Opens
<1>12. Follow(e, f, t2, x, c, box2)
  <2> SUFFICES ASSUME e.status = "OpenConfirm", "ReceiveKeepalive" \notin e.marks
               PROVE  /\ CameInOrder(box2, c)
                      /\ Came(box2, c, "Keepalive") \/ Follows(t2.wire[x], "Keepalive", "Update")
                      /\ Comes("Keepalive", t2, x, c, box2)
                           \/ Follows(f.buf, "Keepalive", "Update")
    BY DEF Follow
  <2>1. /\ CameInOrder(box, c)
        /\ Came(box, c, "Keepalive") \/ Follows(t.wire[x], "Keepalive", "Update")
        /\ Comes("Keepalive", t, x, c, box) \/ Follows(f.buf, "Keepalive", "Update")
    BY <1>1 DEF Side, Confirms, Follow
  <2>2. a = "Update" => Came(box, c, "Keepalive")
    BY <1>3, <2>1
  <2> QED
    BY <1>2, <1>3, <1>4, <2>1, <2>2
<1>13. Follow(f, e, t2, q, c, qbox)
  BY <1>1, <1>4 DEF Side, Confirms, Follow
<1>14. Confirms(e, f, t2, x, q, c, box2) /\ Confirms(f, e, t2, q, x, c, qbox)
  BY <1>1, <1>4, <1>5, <1>12, <1>13 DEF Side, Confirms
<1> QED
  BY <1>7, <1>8, <1>9, <1>10, <1>11, <1>14 DEF Joint, Side

\* Both ends are alike.
LEMMA JointSwap ==
  ASSUME NEW e, NEW f, NEW t, NEW x, NEW q, NEW c, NEW box, NEW qbox
  PROVE  Joint(e, f, t, x, q, c, box, qbox) <=> Joint(f, e, t, q, x, c, qbox, box)
BY DEF Joint

-----------------------------------------------------------------------------
(***************************************************************************)
(* What a handler makes of a connection.                                   *)
(***************************************************************************)
\* A close.
LEMMA ClosedShuts ==
  ASSUME NEW x \in Router, NEW q, q = Other(x), NEW t \in TcpType, NEW t1,
         t1.state = t.state, t1.wire = t.wire, x \notin t1.accept,
         q \in t1.accept <=> q \in t.accept,
         NEW lost \in Nat, NEW t2, t2 = Closed(t1, x, lost)
  PROVE  ShutBy(t, t2, x, q)
<1>1. q \in Router /\ q # x
  BY Others
<1>2. /\ t.state \in [Router -> Sides] /\ t.wire[q] \in Seq(Wires) /\ t.state[x] \in Sides
  BY <1>1, ConnParts DEF Wires
<1>3. /\ t2.state = [t.state EXCEPT ![x] = "closed"] /\ t2.accept = t1.accept
      /\ t2.wire = [y \in Router |->
            IF y # x /\ t.state[x] = "up" /\ t.state[y] # "closed"
            THEN Append(Shortened(t.wire[y], lost), "Fin") ELSE <<>>]
  BY DEF Closed
<1>4. t2.state[x] = "closed" /\ t2.state[q] = t.state[q] /\ t2.wire[x] = <<>>
  BY <1>1, <1>2, <1>3
<1> DEFINE w == t.wire[q]
           s == Shortened(w, lost)
           w2 == t2.wire[q]
           up == t.state[x] = "up" /\ t.state[q] # "closed"
           fin == "Fin"
<1>5. /\ up => w2 = Append(s, fin)
      /\ ~up => w2 = <<>>
  BY <1>1, <1>3
<1>6. w \in Seq(Wires) /\ s \in Seq(Wires)
  BY <1>2, ShortenedKeepsUp DEF Wires
<1> HIDE DEF w, s, w2
<1>7. /\ \A m : Occurs(s, m) => Occurs(w, m)
      /\ Once(w, "Open") => Once(s, "Open")
      /\ Follows(w, "Keepalive", "Update") => Follows(s, "Keepalive", "Update")
  <2> DEFINE first == IF w # <<>> /\ Head(w) = "Up" THEN 1 ELSE 0
             kept == Len(w) - lost
             n == IF kept < first THEN first ELSE kept
  <2>1. s = SubSeq(w, 1, n)
    BY DEF Shortened, s
  <2>2. Len(w) \in Nat /\ first \in {0, 1} /\ (first = 1 => Len(w) >= 1)
    BY <1>6
  <2> HIDE DEF first
  <2>3. n \in Nat /\ n <= Len(w)
    BY <2>2
  <2> HIDE DEF n
  <2>4. \A e, k : /\ Occurs(s, e) => Occurs(w, e)
                  /\ Once(w, e) => Once(s, e)
                  /\ Follows(w, k, e) => Follows(s, k, e)
    BY <1>6, <2>1, <2>3, PrefixHas
  <2> QED
    BY <2>4
<1>8. up => LessWire(w, w2) /\ Occurs(w2, fin)
  <2> HAVE up
  <2>1. Longer(Wires, s, w2, fin)
    BY <1>5, <1>6 DEF Longer, Wires
  <2>2. fin # "Open" /\ fin # "Update" /\ fin \notin Main
    BY DEF Main
  <2> HIDE DEF fin, up
  <2>3. /\ \A m : Occurs(w2, m) <=> Occurs(s, m) \/ fin = m
        /\ Once(s, "Open") => Once(w2, "Open")
        /\ Follows(s, "Keepalive", "Update") => Follows(w2, "Keepalive", "Update")
    BY <2>1, <2>2, WireAppend
  <2> QED
    BY <1>7, <2>2, <2>3 DEF LessWire
<1>9. ~up => LessWire(w, w2) /\ w2 = <<>>
  <2> HAVE ~up
  <2>1. w2 = <<>>
    BY <1>5
  <2> HIDE DEF up
  <2> QED
    BY <2>1, EmptyHas DEF LessWire
<1> QED
  BY <1>3, <1>4, <1>8, <1>9 DEF ShutBy, w, w2

\* Only connection c changes.
Elsewhere(net, net2, c) == \A d \in Conn : d # c => net2[d] = net[d]

\* bgp_stop.
LEMMA HangupAt ==
  ASSUME NEW n \in Nat, NEW net, NetOK(net, n), NEW x \in Router, NEW c \in MaybeConn,
         NEW lost \in Nat, NEW net2, net2 = Hangup(net, x, c, lost)
  PROVE  /\ c # NoConn /\ x \notin net[c].accept => ShutBy(net[c], net2[c], x, Other(x))
         /\ Elsewhere(net, net2, c)
<1>1. CASE c = NoConn
  BY <1>1 DEF Hangup, Elsewhere
<1>2. CASE c # NoConn
  <2>1. c \in Conn
    BY <1>2 DEF MaybeConn
  <2>2. net \in [Conn -> TcpType] /\ net[c] \in TcpType
    BY <2>1 DEF NetOK, Net
  <2> DEFINE m == net[c].m_msgs \ {x}
             t1 == [net[c] EXCEPT !.m_msgs = m]
             net1 == [net EXCEPT ![c] = t1]
  <2>3. net2 = Close(net1, x, c, lost)
    BY <1>2 DEF Hangup
  <2>4. t1.state = net[c].state /\ t1.wire = net[c].wire /\ t1.accept = net[c].accept
    BY <2>2, PutLists
  <2> HIDE DEF t1
  <2>5. net1[c] = t1 /\ (\A d \in Conn : d # c => net1[d] = net[d]) /\ DOMAIN net1 = Conn
    BY <2>1, <2>2
  <2> HIDE DEF net1
  <2>6. net2 = [net1 EXCEPT ![c] = Closed(net1[c], x, lost)]
    BY <2>3 DEF Close
  <2>7. net2[c] = Closed(t1, x, lost) /\ \A d \in Conn : d # c => net2[d] = net[d]
    BY <2>1, <2>5, <2>6
  <2> QED
    BY <2>2, <2>4, <2>7, ClosedShuts DEF Elsewhere
<1> QED
  BY <1>1, <1>2

\* sendMessage.
Sends(net, x, q, c, m, net2) == q = Other(x) /\ net2 = Sent(net, x, c, m)

Carries(t, t2, x, q, m) ==
  /\ t2.state = t.state /\ t2.accept = t.accept /\ t2.wire[x] = t.wire[x]
  /\ t2.wire[q] = Append(t.wire[q], m) /\ t.wire[q] \in Seq(Wires)

LEMMA SentAt ==
  ASSUME NEW n \in Nat, NEW net, NetOK(net, n), NEW x \in Router, NEW q,
         NEW c \in Conn, NEW m \in Message, NEW net2, Sends(net, x, q, c, m, net2)
  PROVE  Carries(net[c], net2[c], x, q, m) /\ Elsewhere(net, net2, c)
<1>1. net \in [Conn -> TcpType] /\ net[c] \in TcpType /\ q \in Router /\ q # x
  BY Others DEF NetOK, Net, Sends
<1>2. net[c].wire \in [Router -> Seq(Message \cup {"Up", "Fin"})] /\ net[c].wire[q] \in Seq(Wires)
  BY <1>1, ConnParts DEF Wires
<1> DEFINE w == [net[c].wire EXCEPT ![q] = Append(@, m)]
           t == [net[c] EXCEPT !.wire = w]
<1>3. net2 = [net EXCEPT ![c] = t]
  <2>1. Other(x) = q
    BY DEF Sends
  <2> QED
    BY <2>1 DEF Sends, Sent
<1>4. t.state = net[c].state /\ t.accept = net[c].accept /\ t.wire = w
  BY <1>1, PutLists
<1> HIDE DEF t
<1>5. net2[c] = t /\ \A d \in Conn : d # c => net2[d] = net[d]
  BY <1>1, <1>3
<1>6. w[x] = net[c].wire[x] /\ w[q] = Append(net[c].wire[q], m)
  BY <1>1, <1>2
<1> QED
  BY <1>2, <1>4, <1>5, <1>6 DEF Carries, Elsewhere

-----------------------------------------------------------------------------
(***************************************************************************)
(* The ends of one router.                                                 *)
(***************************************************************************)
LEMMA EndIs ==
  ASSUME NEW p, NEW a, NEW c, NEW e, e = End(p, a, c)
  PROVE  /\ p.LocalAgent = c => /\ e.status = p.status /\ e.buf = p.obuf /\ e.marks = Marks(p)
                                /\ "write" \in e.threads <=> p.t_write
         /\ p.LocalAgent # c => /\ e.status = "none" /\ e.buf = <<>> /\ e.marks = {}
                                /\ "write" \notin e.threads
         /\ "read" \in e.threads <=> p.t_read = c
         /\ "accepted" \in e.threads <=> a # "none"
BY DEF End

\* What the end depends on.
LEMMA EndSame ==
  ASSUME NEW p, NEW p2, NEW a, NEW a2, NEW c,
         p2.LocalAgent = p.LocalAgent, p2.t_read = p.t_read, p2.t_write = p.t_write,
         p2.obuf = p.obuf, p2.status = p.status, Marks(p2) = Marks(p),
         a2 = "none" <=> a = "none"
  PROVE  End(p2, a2, c) = End(p, a, c)
BY DEF End

\* A connection that is not the one of the peer, before and after.
LEMMA Away ==
  ASSUME NEW p, NEW p2, NEW a, NEW f, NEW t, NEW x, NEW q, NEW c, NEW box, NEW qbox,
         Joint(End(p, a, c), f, t, x, q, c, box, qbox),
         p.LocalAgent # c, p2.LocalAgent # c, p2.t_read = c => p.t_read = c
  PROVE  Joint(End(p2, a, c), f, t, x, q, c, box, qbox)
<1> DEFINE e == End(p, a, c)
           e2 == End(p2, a, c)
<1>1. /\ e.status = "none" /\ e2.status = e.status /\ e2.buf = e.buf /\ e2.marks = e.marks
      /\ "accepted" \in e2.threads <=> "accepted" \in e.threads
      /\ "read" \in e2.threads => "read" \in e.threads
  <2>1. e = End(p, a, c) /\ e2 = End(p2, a, c)
    OBVIOUS
  <2> HIDE DEF e, e2
  <2>2. /\ e.status = "none" /\ e.buf = <<>> /\ e.marks = {}
        /\ "read" \in e.threads <=> p.t_read = c
        /\ "accepted" \in e.threads <=> a # "none"
    BY <2>1, EndIs
  <2>3. /\ e2.status = "none" /\ e2.buf = <<>> /\ e2.marks = {}
        /\ "read" \in e2.threads <=> p2.t_read = c
        /\ "accepted" \in e2.threads <=> a # "none"
    BY <2>1, EndIs
  <2> QED
    BY <2>2, <2>3
<1>2. Joint(e, f, t, x, q, c, box, qbox)
  OBVIOUS
<1> HIDE DEF e, e2
<1>3. Joint(e2, f, t, x, q, c, box, qbox)
  BY <1>1, <1>2, Unreads
<1> QED
  BY <1>3 DEF e2

\* What the peer of an end has in its buffer.
LEMMA EndOK ==
  ASSUME NEW p \in PeerType, Shape(p), NEW a, NEW c
  PROVE  EndFits(End(p, a, c))
<1> DEFINE e == End(p, a, c)
<1>1. e = End(p, a, c)
  OBVIOUS
<1> HIDE DEF e
<1>2. CASE p.LocalAgent = c
  <2>1. /\ e.status = p.status /\ e.buf = p.obuf /\ p.obuf \in Seq(Message)
        /\ "write" \in e.threads <=> p.t_write
    BY <1>1, <1>2, EndIs, PeerParts
  <2>2. BufferFits(p)
    BY DEF Shape
  <2>3. /\ p.obuf # <<>> => p.status \in Talks /\ p.t_write
        /\ Once(p.obuf, "Open")
        /\ Occurs(p.obuf, "Keepalive") => p.status \in Late
        /\ Occurs(p.obuf, "Update") => p.status = "Established"
    BY <2>2 DEF BufferFits, Once, Occurs
  <2>5. p.obuf # <<>> => p.status \in Talks /\ "write" \in e.threads
    BY <2>1, <2>3, Zenon
  <2>6. e.status = p.status /\ e.buf = p.obuf /\ p.obuf \in Seq(Message)
    BY <2>1
  <2>7. /\ Once(p.obuf, "Open")
        /\ Occurs(p.obuf, "Keepalive") => p.status \in Late
        /\ Occurs(p.obuf, "Update") => p.status = "Established"
    BY <2>3
  <2>4. EndFits(e)
    BY <2>5, <2>6, <2>7 DEF EndFits
  <2> QED
    BY <1>1, <2>4
<1>3. CASE p.LocalAgent # c
  <2>1. e.buf = <<>>
    BY <1>1, <1>3, EndIs
  <2>2. <<>> \in Seq(Message)
    OBVIOUS
  <2> QED
    BY <1>1, <2>1, <2>2, EmptyHas DEF EndFits
<1> QED
  BY <1>2, <1>3

\* The write thread is turned off, or on.
LEMMA Rests ==
  ASSUME NEW e, NEW f, NEW t, NEW x, NEW q, NEW c, NEW box, NEW qbox, NEW e2,
         Joint(e, f, t, x, q, c, box, qbox), e.buf = <<>>,
         e2.status = e.status, e2.buf = e.buf, e2.marks = e.marks,
         "accepted" \in e2.threads <=> "accepted" \in e.threads,
         "read" \in e2.threads <=> "read" \in e.threads
  PROVE  Joint(e2, f, t, x, q, c, box, qbox)
<1>1. Side(e, f, t, x, q, c, box) /\ Side(f, e, t, q, x, c, qbox)
  BY DEF Joint
<1>2. /\ Silent(e2, t, x) <=> Silent(e, t, x)
      /\ HasOpen(e2) <=> HasOpen(e)
      /\ HasKeepalive(e2) <=> HasKeepalive(e)
      /\ Past(e, t, x) <=> Past(e2, t, x)
  BY DEF Silent, HasOpen, HasKeepalive, Past, Left
<1>3. Owner(e2, t, x, q) /\ Hears(e2, t, x, c, box)
  BY <1>1 DEF Side, Owner, Owned, Hears
<1>4. Opens(e2, f, t, x, q, c, box) /\ Opens(f, e2, t, q, x, c, qbox)
  BY <1>1, <1>2 DEF Side, Opens
<1>5. Follow(e2, f, t, x, c, box) /\ Follow(f, e2, t, q, c, qbox)
  BY <1>1 DEF Side, Confirms, Follow
<1>6. Confirms(e2, f, t, x, q, c, box) /\ Confirms(f, e2, t, q, x, c, qbox)
  BY <1>1, <1>2, <1>5 DEF Side, Confirms
<1> QED
  BY <1>1, <1>3, <1>4, <1>6 DEF Joint, Side

\* A peer with nothing to do has the shape.
LEMMA QuietShape ==
  ASSUME NEW p, p.events = <<>>, p.obuf = <<>>, p.t_read = NoConn,
         p.status = "Active" => p.LocalAgent = NoConn, p.timers \subseteq TimersOf[p.status]
  PROVE  Shape(p) /\ Marks(p) = {}
<1>1. EventsFit(p) /\ BufferFits(p)
  BY DEF EventsFit, BufferFits
<1>2. Marks(p) = {}
  BY EmptyHas DEF Marks
<1> QED
  BY <1>1, <1>2 DEF Shape

\* e is the end that the peer p has, by the connection of p.
AgentEnd(p, a, c, e) == p \in PeerType /\ p.LocalAgent = c /\ e = End(p, a, c)

LEMMA AgentOwns ==
  ASSUME NEW p, NEW a, NEW c, NEW e, AgentEnd(p, a, c, e),
         NEW f, NEW t, NEW x, NEW q, NEW box, NEW qbox,
         Joint(e, f, t, x, q, c, box, qbox)
  PROVE  /\ a = "none" /\ x \notin t.accept /\ e.status = p.status /\ p.status # "none"
         /\ t.state[x] = "opening" => p.status = "Connect"
         /\ t.state[x] = "closed" => t.state[q] = "closed"
<1>1. p \in PeerType /\ p.LocalAgent = c /\ e = End(p, a, c)
  BY DEF AgentEnd
<1>2. Owner(e, t, x, q)
  BY DEF Joint, Side
<1>3. e.status = p.status /\ p.status \in Status
  BY <1>1, EndIs, PeerParts
<1>4. a # "none" => "accepted" \in e.threads
  BY <1>1, EndIs
<1>5. p.status # "none"
  BY <1>3 DEF Status
<1> QED
  BY <1>2, <1>3, <1>4, <1>5 DEF Owner, Owned

\* bgp_stop lets go of the connection.
LEMMA Released ==
  ASSUME NEW x \in Router, NEW n \in Nat, NEW net, NetOK(net, n), NEW p \in PeerType,
         InUse(p, net, x), NEW acc, NEW box, World(x, p, acc, box, net), NEW lost \in Nat,
         NEW p2, p2.LocalAgent = NoConn, p2.t_read = NoConn,
         NEW net2, net2 = Hangup(net, x, p.LocalAgent, lost)
  PROVE  World(x, p2, acc, box, net2)
<1> DEFINE l == p.LocalAgent
<1> SUFFICES ASSUME NEW c \in Conn
             PROVE  At(x, p2, acc[c], c, box, net2[c])
  BY DEF World
<1>1. At(x, p, acc[c], c, box, net[c])
  BY DEF World
<1>2. /\ l # NoConn /\ x \notin net[l].accept => ShutBy(net[l], net2[l], x, Other(x))
      /\ \A d \in Conn : d # l => net2[d] = net[d]
  <2>1. l \in MaybeConn
    BY PeerParts
  <2> QED
    BY <2>1, HangupAt DEF Elsewhere
<1>3. c # NoConn
  BY DEF Conn, NoConn
<1> DEFINE q == Other(x)
           f == End(peer[q], accepted[q][c], c)
           qbox == inbox[q]
           e == End(p, acc[c], c)
           e2 == End(p2, acc[c], c)
<1>4. Joint(e, f, net[c], x, q, c, box, qbox)
  BY <1>1 DEF At
<1>5. CASE c = l
  <2>1. /\ acc[c] = "none" /\ x \notin net[c].accept
        /\ net[c].state[x] = "opening" => p.status = "Connect"
    <3> DEFINE t == net[c]
               a == acc[c]
    <3>1. AgentEnd(p, a, c, e) /\ Joint(e, f, t, x, q, c, box, qbox)
      BY <1>4, <1>5 DEF AgentEnd
    <3> HIDE DEF t, a, f, q, qbox, e, l
    <3>2. /\ a = "none" /\ x \notin t.accept
          /\ t.state[x] = "opening" => p.status = "Connect"
      BY <3>1, AgentOwns
    <3> QED
      BY <3>2 DEF t, a
  <2>2. e = End(p, acc[c], c) /\ e2 = End(p2, acc[c], c)
    OBVIOUS
  <2> HIDE DEF e, e2, f
  <2>3. e.status = p.status /\ p.status # "none"
    BY <2>2, <1>5, EndIs, PeerParts DEF Status
  <2>4. Nothing(e2)
    <3>1. /\ e2.status = "none" /\ e2.buf = <<>> /\ e2.marks = {}
          /\ "read" \in e2.threads <=> p2.t_read = c
          /\ "accepted" \in e2.threads <=> acc[c] # "none"
      BY <2>2, <1>3, EndIs
    <3> QED
      BY <3>1, <2>1, <1>3 DEF Nothing
  <2>5. ShutBy(net[c], net2[c], x, q)
    BY <1>2, <1>3, <1>5, <2>1
  <2>6. net[c].state[x] \in Sides \ {"none"}
    BY <1>3, <1>5, ConnParts DEF InUse, NetOK, Net
  <2>7. LessCame(c, box, box)
    BY DEF LessCame
  <2>8. Owned(e, net[c], x)
    BY <2>3 DEF Owned
  <2> HIDE DEF q, qbox
  <2>9. Joint(e2, f, net2[c], x, q, c, box, qbox)
    BY <1>4, <2>3, <2>4, <2>5, <2>6, <2>7, <2>8, Hangs
  <2> QED
    BY <2>9 DEF e2, f, q, qbox, At
<1>6. CASE c # l
  <2>1. net2[c] = net[c] /\ p.LocalAgent # c /\ p2.LocalAgent # c /\ p2.t_read # c
    BY <1>2, <1>3, <1>6
  <2> HIDE DEF q, f, qbox
  <2>2. Joint(End(p2, acc[c], c), f, net2[c], x, q, c, box, qbox)
    BY <1>4, <2>1, Away
  <2> QED
    BY <2>2 DEF At, f, q, qbox
<1> QED
  BY <1>5, <1>6

\* The parts of a new connection.
LEMMA OpeningParts ==
  ASSUME NEW x \in Router, NEW q, q = Other(x)
  PROVE  /\ Opening(x).state[x] = "opening" /\ Opening(x).state[q] = "opening"
         /\ Opening(x).wire[x] = <<"Up">> /\ Opening(x).wire[q] = <<>>
         /\ Opening(x).accept = {q}
<1>1. q \in Router /\ q # x
  BY Others
<1>2. Opening(x).state[x] = "opening" /\ Opening(x).state[q] = "opening"
  BY <1>1 DEF Opening
<1>3. Opening(x).wire[x] = <<"Up">> /\ Opening(x).wire[q] = <<>>
  BY <1>1 DEF Opening
<1>4. Opening(x).accept = {q}
  BY DEF Opening
<1> QED
  BY <1>2, <1>3, <1>4

\* bgp_connect takes a connection that nobody has to do with.
LEMMA Dialed ==
  ASSUME NEW x \in Router, NEW q, q = Other(x), NEW n \in Nat, NEW net, NetOK(net, n),
         NEW p \in PeerType, InUse(p, net, x), InUse(peer[q], net, q),
         InboxOK(inbox, net), AcceptedOK(accepted, net),
         World(x, p, accepted[x], inbox[x], net),
         p.LocalAgent # NoConn => p.status = "Idle",
         NEW c \in Conn, \A r \in Router : net[c].state[r] = "none",
         NEW net2, net2 = Put(net, c, Opening(x)),
         NEW p2, p2.LocalAgent = c, p2.status = "Connect", p2.obuf = <<>>, Marks(p2) = {},
         p2.t_read \in {p.t_read, c}
  PROVE  World(x, p2, accepted[x], inbox[x], net2)
<1> SUFFICES ASSUME NEW d \in Conn
             PROVE  At(x, p2, accepted[x][d], d, inbox[x], net2[d])
  BY DEF World
<1> DEFINE a == accepted[x][d]
           f == End(peer[q], accepted[q][d], d)
           e == End(p, a, d)
           e2 == End(p2, a, d)
           box == inbox[x]
           qbox == inbox[q]
<1>1. At(x, p, a, d, box, net[d])
  BY DEF World
<1>2. Joint(e, f, net[d], x, q, d, box, qbox)
  BY <1>1 DEF At
<1>3. q \in Router /\ x # q /\ DOMAIN net = Conn /\ net[d] \in TcpType
  BY Others DEF NetOK, Net
<1>4. d # NoConn
  BY DEF Conn, NoConn
<1>5. f = End(peer[q], accepted[q][d], d) /\ e = End(p, a, d) /\ e2 = End(p2, a, d)
  OBVIOUS
<1>6. SUFFICES Joint(e2, f, net2[d], x, q, d, box, qbox)
  BY DEF At
<1>7. CASE d = c
  <2>1. a = "none" /\ accepted[q][d] = "none"
    BY <1>3, <1>7 DEF AcceptedOK, Reached
  <2>2. peer[q].LocalAgent # d
    BY <1>3, <1>4, <1>7 DEF InUse
  <2>3. net2[d] = Opening(x)
    BY <1>3, <1>7 DEF Put
  <2>4. box \in Seq(Interrupts) /\ qbox \in Seq(Interrupts)
    BY <1>3 DEF InboxOK, InboxType, Interrupts
  <2>5. /\ \A i \in 1..Len(box) : box[i][1] # d
        /\ \A i \in 1..Len(qbox) : qbox[i][1] # d
    BY <1>3, <1>7 DEF InboxOK, Reached
  <2> DEFINE t2 == net2[d]
  <2>6. /\ t2.state[x] = "opening" /\ t2.state[q] = "opening" /\ t2.wire[x] = <<"Up">>
        /\ t2.wire[q] = <<>> /\ t2.accept = {q}
    BY <2>3, OpeningParts
  <2>7. Owner(f, net[d], q, x) /\ net[d].state[q] = "none"
    BY <1>2, <1>3, <1>7 DEF Joint, Side
  <2> HIDE DEF e, e2, f, t2, a
  <2>8. Nothing(f)
    <3>1. /\ f.status = "none" /\ f.buf = <<>> /\ f.marks = {}
          /\ "accepted" \in f.threads <=> accepted[q][d] # "none"
      BY <1>5, <2>2, EndIs
    <3> QED
      BY <3>1, <2>1, <2>7 DEF Nothing, Owner
  <2>9. /\ e2.status = "Connect" /\ e2.buf = <<>> /\ e2.marks = {}
        /\ "accepted" \in e2.threads <=> a # "none"
    BY <1>5, <1>7, EndIs
  <2>10. "accepted" \notin e2.threads
    BY <2>1, <2>9
  <2> HIDE DEF box, qbox
  <2>11. Joint(e2, f, t2, x, q, d, box, qbox)
    BY <1>3, <2>4, <2>5, <2>6, <2>8, <2>9, <2>10, Dials
  <2> QED
    BY <2>11 DEF t2
<1>8. CASE d # c /\ d = p.LocalAgent
  <2>1. net2[d] = net[d] /\ p.status = "Idle" /\ p2.LocalAgent # d
    BY <1>3, <1>4, <1>8 DEF Put
  <2>2. AgentEnd(p, a, d, e)
    BY <1>5, <1>8 DEF AgentEnd
  <2> DEFINE t == net[d]
  <2> HIDE DEF e, e2, f, t, a, box, qbox
  <2>3. Joint(e, f, t, x, q, d, box, qbox)
    BY <1>2 DEF t
  <2>4. a = "none" /\ e.status = p.status
    BY <2>2, <2>3, AgentOwns
  <2>5. /\ e2.status = "none" /\ e2.buf = <<>> /\ e2.marks = {}
        /\ "accepted" \in e2.threads <=> a # "none"
        /\ "read" \in e2.threads <=> p2.t_read = d
    BY <1>5, <2>1, EndIs
  <2>6. "read" \in e.threads <=> p.t_read = d
    BY <1>5, EndIs
  <2>7. "accepted" \notin e2.threads /\ ("read" \in e2.threads => "read" \in e.threads)
    BY <2>4, <2>5, <2>6, <1>8
  <2>8. Joint(e2, f, t, x, q, d, box, qbox)
    BY <2>1, <2>3, <2>4, <2>5, <2>7, Orphans
  <2> QED
    BY <2>1, <2>8 DEF t
<1>9. CASE d # c /\ d # p.LocalAgent
  <2>1. net2[d] = net[d] /\ p.LocalAgent # d /\ p2.LocalAgent # d /\ (p2.t_read = d => p.t_read = d)
    BY <1>3, <1>9 DEF Put
  <2> DEFINE t == net[d]
  <2> HIDE DEF f, t, a, box, qbox
  <2>2. Joint(End(p, a, d), f, t, x, q, d, box, qbox)
    BY <1>2 DEF t
  <2>3. Joint(End(p2, a, d), f, t, x, q, d, box, qbox)
    BY <2>1, <2>2, Away
  <2> QED
    BY <2>1, <2>3 DEF t
<1> QED
  BY <1>7, <1>8, <1>9

-----------------------------------------------------------------------------
(***************************************************************************)
(* The table, for the events that can meet a status.                       *)
(***************************************************************************)
Fits(s, e) ==
  /\ e \in {"Open", "OpenFailed"} => s = "Connect"
  /\ e \in FromRead => s \notin {"Connect", "Active"}
  /\ e = "ReceiveOpen" => s # "OpenConfirm"
  /\ e = "ReceiveUpdate" => s = "Established"
  /\ e = "Start" => s = "Idle"
  /\ e = "ConnectRetry" => s \in {"Connect", "Active"}
  /\ e = "HoldExpired" => s \in Talks
  /\ e = "KeepAliveExpired" => s \in Late

\* What is done, and the status after it.
Moves(s, e, func, next) ==
  \/ func = "stop" /\ next \in Down
  \/ func = "holdtime_expire" /\ s \in Talks /\ next = "Idle"
  \/ func = "start" /\ s \in Down /\ next = "Connect"
  \/ func = "reconnect" /\ s = "Connect" /\ next = "Connect"
  \/ func = "connect_success" /\ s = "Connect" /\ e = "Open" /\ next = "OpenSent"
  \/ func = "open" /\ s = "OpenSent" /\ e = "ReceiveOpen" /\ next = "OpenConfirm"
  \/ func = "establish" /\ s = "OpenConfirm" /\ e = "ReceiveKeepalive" /\ next = "Established"
  \/ func = "keepalive_expire" /\ s = "Established" /\ e = "KeepAliveExpired" /\ next = s
  \/ func = "received" /\ s = "Established" /\ e \in {"ReceiveKeepalive", "ReceiveUpdate"}
     /\ next = s
  \/ func = "ignore" /\ s = "OpenConfirm" /\ e = "KeepAliveExpired" /\ next = s
  \/ func = "ignore" /\ next = "Idle" /\ e \in FromRead \ {"Closed"}
     /\ s \in {"Idle", "OpenSent"} /\ (e = "ReceiveOpen" => s = "Idle")

HasRow(s, e) == \E row \in FsmRow : row[1] = s /\ row[2] = e

LEMMA RowMoves ==
  ASSUME NEW row \in FsmRow, Fits(row[1], row[2])
  PROVE  Moves(row[1], row[2], row[3], row[4])
BY DEF FsmRow, Fits, Moves, Talks, Late, Down, FromRead

LEMMA RowIs ==
  ASSUME NEW s, NEW e, NEW func, NEW next, <<s, e, func, next>> \in FsmRow
  PROVE  HasRow(s, e)
<1> DEFINE row == <<s, e, func, next>>
<1>1. row \in FsmRow /\ row[1] = s /\ row[2] = e
  OBVIOUS
<1> HIDE DEF row
<1> QED
  BY <1>1 DEF HasRow

\* An event without a row is a message that is not meant for the status.
LEMMA NoRow ==
  ASSUME NEW s \in Status, NEW e \in Event, Fits(s, e), ~HasRow(s, e)
  PROVE  Moves(s, e, "ignore", "Idle")
<1>1. /\ HasRow("Idle", "Start") /\ HasRow("Idle", "Stop") /\ HasRow("Idle", "Closed")
  <2>1. /\ <<"Idle", "Start", "start", "Connect">> \in FsmRow
        /\ <<"Idle", "Stop", "stop", "Idle">> \in FsmRow
        /\ <<"Idle", "Closed", "stop", "Idle">> \in FsmRow
    BY DEF FsmRow
  <2> QED
    BY <2>1, RowIs
<1>2. /\ HasRow("Connect", "Stop") /\ HasRow("Connect", "Open")
      /\ HasRow("Connect", "OpenFailed") /\ HasRow("Connect", "ConnectRetry")
      /\ HasRow("Active", "Stop") /\ HasRow("Active", "ConnectRetry")
  <2>1. /\ <<"Connect", "Stop", "stop", "Idle">> \in FsmRow
        /\ <<"Connect", "Open", "connect_success", "OpenSent">> \in FsmRow
        /\ <<"Connect", "OpenFailed", "stop", "Active">> \in FsmRow
        /\ <<"Connect", "ConnectRetry", "reconnect", "Connect">> \in FsmRow
        /\ <<"Active", "Stop", "stop", "Idle">> \in FsmRow
        /\ <<"Active", "ConnectRetry", "start", "Connect">> \in FsmRow
    BY DEF FsmRow
  <2> QED
    BY <2>1, RowIs
<1>3. /\ HasRow("OpenSent", "Stop") /\ HasRow("OpenSent", "Closed")
      /\ HasRow("OpenSent", "HoldExpired") /\ HasRow("OpenSent", "ReceiveOpen")
  <2>1. /\ <<"OpenSent", "Stop", "stop", "Idle">> \in FsmRow
        /\ <<"OpenSent", "Closed", "stop", "Active">> \in FsmRow
        /\ <<"OpenSent", "HoldExpired", "holdtime_expire", "Idle">> \in FsmRow
        /\ <<"OpenSent", "ReceiveOpen", "open", "OpenConfirm">> \in FsmRow
    BY DEF FsmRow
  <2> QED
    BY <2>1, RowIs
<1>4. /\ HasRow("OpenConfirm", "Stop") /\ HasRow("OpenConfirm", "Closed")
      /\ HasRow("OpenConfirm", "HoldExpired") /\ HasRow("OpenConfirm", "KeepAliveExpired")
      /\ HasRow("OpenConfirm", "ReceiveKeepalive")
      /\ HasRow("OpenConfirm", "ReceiveNotification")
  <2>1. /\ <<"OpenConfirm", "Stop", "stop", "Idle">> \in FsmRow
        /\ <<"OpenConfirm", "Closed", "stop", "Idle">> \in FsmRow
        /\ <<"OpenConfirm", "HoldExpired", "holdtime_expire", "Idle">> \in FsmRow
        /\ <<"OpenConfirm", "KeepAliveExpired", "ignore", "OpenConfirm">> \in FsmRow
        /\ <<"OpenConfirm", "ReceiveKeepalive", "establish", "Established">> \in FsmRow
        /\ <<"OpenConfirm", "ReceiveNotification", "stop", "Idle">> \in FsmRow
    BY DEF FsmRow
  <2> QED
    BY <2>1, RowIs
<1>5. /\ HasRow("Established", "Stop") /\ HasRow("Established", "Closed")
      /\ HasRow("Established", "HoldExpired") /\ HasRow("Established", "KeepAliveExpired")
      /\ HasRow("Established", "ReceiveOpen") /\ HasRow("Established", "ReceiveKeepalive")
      /\ HasRow("Established", "ReceiveUpdate")
      /\ HasRow("Established", "ReceiveNotification")
  <2>1. /\ <<"Established", "Stop", "stop", "Idle">> \in FsmRow
        /\ <<"Established", "Closed", "stop", "Idle">> \in FsmRow
        /\ <<"Established", "HoldExpired", "holdtime_expire", "Idle">> \in FsmRow
        /\ <<"Established", "KeepAliveExpired", "keepalive_expire", "Established">> \in FsmRow
        /\ <<"Established", "ReceiveOpen", "stop", "Idle">> \in FsmRow
        /\ <<"Established", "ReceiveKeepalive", "received", "Established">> \in FsmRow
        /\ <<"Established", "ReceiveUpdate", "received", "Established">> \in FsmRow
        /\ <<"Established", "ReceiveNotification", "stop", "Idle">> \in FsmRow
    BY DEF FsmRow
  <2> QED
    BY <2>1, RowIs
<1>6. CASE s \in {"Idle", "Connect", "Active"}
  BY <1>1, <1>2, <1>6 DEF Fits, Moves, Event, FromRead, Talks, Late
<1>7. CASE s \in Talks
  BY <1>3, <1>4, <1>5, <1>7 DEF Fits, Moves, Event, FromRead, Talks, Late
<1> QED
  BY <1>6, <1>7 DEF Status, Talks

\* Every entry of FSM.
LEMMA FsmMoves ==
  ASSUME NEW s \in Status, NEW e \in Event, Fits(s, e)
  PROVE  Moves(s, e, FSM[s][e].func, FSM[s][e].next)
<1> DEFINE here(row) == row[1] = s /\ row[2] = e
           pick == CHOOSE row \in FsmRow : here(row)
<1>1. FSM[s][e] = IF \E row \in FsmRow : here(row)
                  THEN [func |-> pick[3], next |-> pick[4]]
                  ELSE [func |-> "ignore", next |-> "Idle"]
  BY DEF FSM
<1>2. CASE HasRow(s, e)
  <2>1. pick \in FsmRow /\ here(pick)
    BY <1>2 DEF HasRow
  <2>2. FSM[s][e].func = pick[3] /\ FSM[s][e].next = pick[4]
    BY <1>1, <1>2 DEF HasRow
  <2>3. pick[1] = s /\ pick[2] = e
    BY <2>1
  <2> HIDE DEF pick
  <2>4. Moves(pick[1], pick[2], pick[3], pick[4])
    BY <2>1, <2>3, RowMoves
  <2> QED
    BY <2>2, <2>3, <2>4
<1>3. CASE ~HasRow(s, e)
  <2>1. FSM[s][e] = [func |-> "ignore", next |-> "Idle"]
    BY <1>1, <1>3 DEF HasRow
  <2>2. FSM[s][e].func = "ignore" /\ FSM[s][e].next = "Idle"
    BY <2>1
  <2> QED
    BY <1>3, <2>2, NoRow
<1> QED
  BY <1>2, <1>3

-----------------------------------------------------------------------------
(***************************************************************************)
(* Events.                                                                 *)
(***************************************************************************)
\* What the invariant says of one router.
LEMMA OfPair ==
  ASSUME PairInv, NEW r \in Router
  PROVE  /\ Shape(peer[r]) /\ World(r, peer[r], accepted[r], inbox[r], tcp)
         /\ Shape(peer[Other(r)])
BY Others DEF PairInv

\* Only the connection of the peer changes.
LEMMA OwnChanges ==
  ASSUME NEW x, NEW p, NEW p2, NEW acc, NEW box, NEW net, NEW net2, World(x, p, acc, box, net),
         p2.LocalAgent = p.LocalAgent, p2.t_read \in {p.t_read, p.LocalAgent},
         \A d \in Conn : d # p.LocalAgent => net2[d] = net[d],
         \A d \in Conn : d = p.LocalAgent => At(x, p2, acc[d], d, box, net2[d])
  PROVE  World(x, p2, acc, box, net2)
<1> SUFFICES ASSUME NEW d \in Conn, d # p.LocalAgent
             PROVE  At(x, p2, acc[d], d, box, net2[d])
  BY DEF World
<1> DEFINE q == Other(x)
           f == End(peer[q], accepted[q][d], d)
           a == acc[d]
           t == net[d]
           qbox == inbox[q]
<1>1. Joint(End(p, a, d), f, t, x, q, d, box, qbox)
  BY DEF World, At
<1>2. net2[d] = t /\ p.LocalAgent # d /\ p2.LocalAgent # d /\ (p2.t_read = d => p.t_read = d)
  OBVIOUS
<1> HIDE DEF q, f, a, t, qbox
<1>3. Joint(End(p2, a, d), f, t, x, q, d, box, qbox)
  BY <1>1, <1>2, Away
<1> QED
  BY <1>2, <1>3 DEF At, q, f, a, qbox

\* The ends of a connection of router x, now.
LEMMA WorldAt ==
  ASSUME NEW x, NEW p, NEW acc, NEW box, NEW net, World(x, p, acc, box, net), NEW c \in Conn,
         NEW q, q = Other(x), NEW f, f = End(peer[q], accepted[q][c], c)
  PROVE  Joint(End(p, acc[c], c), f, net[c], x, q, c, box, inbox[q])
BY DEF World, At

\* The NOTIFICATION that may be sent on connection c.
Alerting(net, x, q, c, net1) ==
  /\ q = Other(x)
  /\ net1 = IF CanSend(net, x, c) THEN Sent(net, x, c, "Notification") ELSE net

LEMMA Alerted ==
  ASSUME NEW x \in Router, NEW q, NEW n \in Nat, NEW net, NetOK(net, n), NEW c \in Conn,
         NEW net1, Alerting(net, x, q, c, net1),
         NEW e, NEW f, NEW box, NEW qbox, Joint(e, f, net[c], x, q, c, box, qbox)
  PROVE  /\ Joint(e, f, net1[c], x, q, c, box, qbox)
         /\ NetStep(net, net1, n) /\ net1[c].state = net[c].state
         /\ Elsewhere(net, net1, c)
<1>1. CASE ~CanSend(net, x, c)
  <2>1. net1 = net
    BY <1>1 DEF Alerting
  <2> QED
    BY <2>1, NoStep DEF Elsewhere
<1>2. CASE CanSend(net, x, c)
  <2> DEFINE m == "Notification"
             t == net[c]
             t2 == net1[c]
             w == t.wire[q]
             w2 == t2.wire[q]
  <2>1. net1 = Sent(net, x, c, m) /\ net[c].state[x] = "up" /\ q = Other(x)
    BY <1>2 DEF Alerting, CanSend
  <2>2. m \in Message /\ m \notin Main \cup {"Fin"}
    BY DEF Main, Message
  <2> HIDE DEF m
  <2>3. NetStep(net, net1, n)
    BY <2>1, <2>2, SendStep
  <2>4. Sends(net, x, q, c, m, net1)
    BY <2>1 DEF Sends
  <2>14. Carries(t, t2, x, q, m) /\ Elsewhere(net, net1, c)
    BY <2>2, <2>4, SentAt
  <2>5. /\ t2.state = t.state /\ t2.accept = t.accept /\ t2.wire[x] = t.wire[x]
        /\ w2 = Append(w, m) /\ w \in Seq(Wires)
    BY <2>14 DEF Carries
  <2> HIDE DEF w, w2
  <2>6. Longer(Wires, w, w2, m)
    BY <2>2, <2>5 DEF Longer, Wires
  <2>7. /\ \A k : Occurs(w2, k) <=> Occurs(w, k) \/ m = k
        /\ Once(w, "Open") /\ (m = "Open" => ~Occurs(w, "Open")) => Once(w2, "Open")
        /\ Follows(w, "Keepalive", "Update") /\ (m = "Update" => Occurs(w, "Keepalive"))
             => Follows(w2, "Keepalive", "Update")
    BY <2>6, WireAppend
  <2>8. (\A k \in Main \cup {"Fin"} : Occurs(w2, k) <=> Occurs(w, k)) /\ LessWire(w, w2)
    BY <2>2, <2>7 DEF LessWire, Main
  <2>9. /\ t.state[x] = "up" /\ LessWire(t.wire[q], t2.wire[q])
        /\ \A k \in Main \cup {"Fin"} : Occurs(t2.wire[q], k) <=> Occurs(t.wire[q], k)
    BY <2>1, <2>8 DEF w, w2
  <2>10. Joint(e, f, t, x, q, c, box, qbox)
    OBVIOUS
  <2> HIDE DEF t, t2
  <2>11. Joint(e, f, t2, x, q, c, box, qbox)
    BY <2>5, <2>9, <2>10, Alerts
  <2> QED
    BY <2>3, <2>5, <2>11, <2>14 DEF t, t2
<1> QED
  BY <1>1, <1>2

\* bgp_notify_send.
LEMMA NotifiedWorld ==
  ASSUME NEW x \in Router, NEW n \in Nat, NEW net, NetOK(net, n), NEW p \in PeerType,
         InUse(p, net, x), p.LocalAgent # NoConn, NEW acc, NEW box, World(x, p, acc, box, net),
         NEW lost \in Nat, NEW p1 \in PeerType, p1.LocalAgent = p.LocalAgent,
         NEW d, d = Notified(Both(p1, net), x, lost)
  PROVE  /\ World(x, d.p, acc, box, d.net)
         /\ d.p.events = <<>> /\ d.p.obuf = <<>> /\ d.p.t_read = NoConn /\ d.p.LocalAgent = NoConn
         /\ d.p.status = "Idle" /\ d.p.timers = TimersOf["Idle"]
<1> DEFINE c == p.LocalAgent
           net1 == IF CanSend(net, x, c) THEN Sent(net, x, c, "Notification") ELSE net
           p0 == [p1 EXCEPT !.t_write = FALSE]
           q == Other(x)
<1>1. c \in Conn /\ "Notification" \in Message /\ q \in Router /\ q # x
  BY PeerParts, Others DEF MaybeConn, Message
<1>2. p0 \in PeerType /\ p0.LocalAgent = c
  BY DEF PeerType
<1>3. d = Failed(Both(p0, net1), x, lost)
  <2>1. Both(p1, net).p = p1 /\ Both(p1, net).net = net
    BY BothIs
  <2> QED
    BY <2>1 DEF Notified, Both
<1> HIDE DEF p0
<1>4. World(x, p, acc, box, net1) /\ NetOK(net1, n) /\ InUse(p, net1, x)
  <2> DEFINE f == End(peer[q], accepted[q][c], c)
             e == End(p, acc[c], c)
             qbox == inbox[q]
  <2>1. Joint(e, f, net[c], x, q, c, box, qbox)
    BY <1>1 DEF World, At
  <2>2. Alerting(net, x, q, c, net1)
    BY DEF Alerting
  <2> HIDE DEF net1, f, e, qbox, c, q
  <2>3. /\ Joint(e, f, net1[c], x, q, c, box, qbox)
        /\ NetStep(net, net1, n) /\ Elsewhere(net, net1, c)
    <3>1. c \in Conn
      BY <1>1
    <3> QED
      BY <2>1, <2>2, <3>1, Alerted
  <2>4. NetOK(net1, n) /\ InUse(p, net1, x)
    BY <2>3, StaysInUse DEF NetStep
  <2>5. \A k \in Conn : k = p.LocalAgent => At(x, p, acc[k], k, box, net1[k])
    BY <2>3 DEF At, f, e, qbox, q, c
  <2>6. \A k \in Conn : k # p.LocalAgent => net1[k] = net[k]
    BY <2>3 DEF c, Elsewhere
  <2>7. World(x, p, acc, box, net1)
    BY <2>5, <2>6, OwnChanges
  <2> QED
    BY <2>4, <2>7
<1> HIDE DEF net1
<1>5. /\ d.p.LocalAgent = NoConn /\ d.p.t_read = NoConn /\ d.p.status = "Idle"
      /\ d.p.obuf = <<>> /\ d.p.timers = {"start"} /\ d.p.events = <<>>
      /\ d.net = Hangup(net1, x, p0.LocalAgent, lost)
  BY <1>2, <1>3, FailedIs
<1>6. World(x, d.p, acc, box, d.net)
  BY <1>2, <1>4, <1>5, Released
<1>7. TimersOf["Idle"] = {"start"}
  BY DEF TimersOf
<1> QED
  BY <1>5, <1>6, <1>7

\* What router x, with peer p, has to keep.
Kept(x, p, net) == Shape(p) /\ World(x, p, accepted[x], inbox[x], net)

\* The peer y gets its status and its timers.
Sets(y, next, p) ==
  /\ p.LocalAgent = y.LocalAgent /\ p.t_read = y.t_read /\ p.t_write = y.t_write
  /\ p.obuf = y.obuf /\ p.events = y.events /\ p.status = next /\ p.timers = TimersOf[next]

\* What is left when an event is taken.
OnlyStops(p) == \A i \in 1..Len(p.events) : p.events[i] = "Stop"

LEMMA StopsFit ==
  ASSUME NEW p, OnlyStops(p)
  PROVE  EventsFit(p) /\ Marks(p) = {}
<1>1. EventsFit(p)
  BY DEF EventsFit, OnlyStops, FromTimer, FromRead
<1>2. \A e : Occurs(p.events, e) => e = "Stop"
  BY DEF Occurs, OnlyStops
<1>3. Marks(p) = {}
  BY <1>2 DEF Marks
<1> QED
  BY <1>1, <1>3

\* The events that end in Idle or Active.
LEMMA StopKept ==
  ASSUME IInv, PairInv, NEW r \in Router, NEW p1 \in PeerType,
         p1.LocalAgent = peer[r].LocalAgent, NEW lost \in Lost,
         NEW d, d = Stopped(Both(p1, tcp), r, lost),
         NEW next \in Down, NEW p2, Sets(d.p, next, p2)
  PROVE  Kept(r, p2, d.net)
<1>1. /\ peer[r] \in PeerType /\ NetOK(tcp, used) /\ InUse(peer[r], tcp, r) /\ used \in Nat
      /\ World(r, peer[r], accepted[r], inbox[r], tcp) /\ lost \in Nat
  BY OfRouter, OfPair, LostType
<1>2. /\ d.p.LocalAgent = NoConn /\ d.p.t_read = NoConn /\ d.p.obuf = <<>>
      /\ d.p.events = <<>> /\ d.net = Hangup(tcp, r, p1.LocalAgent, lost)
  BY StoppedIs
<1>3. /\ p2.LocalAgent = NoConn /\ p2.t_read = NoConn /\ p2.obuf = <<>>
      /\ p2.events = <<>> /\ p2.status = next /\ p2.timers = TimersOf[next]
  BY <1>2 DEF Sets
<1> DEFINE net2 == d.net
<1>4. net2 = Hangup(tcp, r, peer[r].LocalAgent, lost)
  BY <1>2
<1> HIDE DEF net2
<1>5. World(r, p2, accepted[r], inbox[r], net2)
  BY <1>1, <1>3, <1>4, Released
<1>6. Shape(p2)
  BY <1>3, QuietShape
<1> QED
  BY <1>5, <1>6 DEF Kept, net2

\* The hold timer expires.
LEMMA HoldKept ==
  ASSUME IInv, PairInv, NEW r \in Router, NEW p1 \in PeerType, peer[r].LocalAgent # NoConn,
         p1.LocalAgent = peer[r].LocalAgent, NEW lost \in Lost,
         NEW d, d = Notified(Both(p1, tcp), r, lost),
         NEW p2, Sets(d.p, "Idle", p2)
  PROVE  Kept(r, p2, d.net)
<1>1. /\ peer[r] \in PeerType /\ NetOK(tcp, used) /\ InUse(peer[r], tcp, r) /\ used \in Nat
      /\ World(r, peer[r], accepted[r], inbox[r], tcp) /\ lost \in Nat
  BY OfRouter, OfPair, LostType
<1>2. /\ World(r, d.p, accepted[r], inbox[r], d.net)
      /\ d.p.events = <<>> /\ d.p.obuf = <<>> /\ d.p.t_read = NoConn /\ d.p.LocalAgent = NoConn
  BY <1>1, NotifiedWorld
<1>3. /\ p2.LocalAgent = NoConn /\ p2.t_read = NoConn /\ p2.obuf = <<>>
      /\ p2.events = <<>> /\ p2.status = "Idle" /\ p2.timers = TimersOf["Idle"]
  BY <1>2 DEF Sets
<1>4. Shape(p2)
  BY <1>3, QuietShape
<1>5. World(r, p2, accepted[r], inbox[r], d.net)
  <2> DEFINE net2 == d.net
             acc == accepted[r]
             box == inbox[r]
             y == d.p
  <2>1. World(r, y, acc, box, net2) /\ y.LocalAgent = NoConn /\ y.t_read = NoConn
    BY <1>2
  <2> HIDE DEF net2, acc, box, y
  <2>2. \A c \in Conn : c # NoConn
    BY DEF Conn, NoConn
  <2>3. World(r, p2, acc, box, net2)
    BY <2>1, <2>2, <1>3, OwnChanges
  <2> QED
    BY <2>3 DEF net2, acc, box
<1> QED
  BY <1>4, <1>5 DEF Kept

\* bgp_start and bgp_connect.
LEMMA DialKept ==
  ASSUME IInv, NEW r \in Router, NEW net, NetOK(net, used), Later(tcp, net), used < MaxUse,
         NEW p \in PeerType, InUse(p, net, r), World(r, p, accepted[r], inbox[r], net),
         p.LocalAgent # NoConn => p.status = "Idle",
         NEW p1 \in PeerType, p1.t_read = p.t_read, p1.obuf = <<>>, OnlyStops(p1),
         NEW d, d = Started(Both(p1, net), r),
         NEW p2, Sets(d.p, "Connect", p2)
  PROVE  Kept(r, p2, d.net)
<1> DEFINE c == NextConn(net)
           q == Other(r)
<1>1. used \in Nat /\ q \in Router /\ InboxOK(inbox, tcp) /\ AcceptedOK(accepted, tcp)
      /\ InUse(peer[q], tcp, q) /\ peer[q] \in PeerType
  BY OfRouter, Others
<1>2. c \in Conn /\ \A k \in Router : net[c].state[k] = "none"
  BY <1>1, LeastUnused
<1>3. InboxOK(inbox, net) /\ AcceptedOK(accepted, net) /\ InUse(peer[q], net, q)
  BY <1>1, InboxLater, AcceptedLater, StaysInUse
<1> HIDE DEF c
<1>4. /\ d.p.LocalAgent = c /\ d.p.t_read = (IF p1.t_read = NoConn THEN c ELSE p1.t_read)
      /\ d.p.obuf = p1.obuf /\ d.p.events = p1.events /\ d.net = Put(net, c, Opening(r))
  BY <1>2, StartedIs DEF c
<1>5. /\ p2.LocalAgent = c /\ p2.t_read \in {p.t_read, c} /\ p2.status = "Connect"
      /\ p2.obuf = <<>> /\ p2.events = p1.events /\ p2.timers = TimersOf["Connect"]
  BY <1>4 DEF Sets
<1>6. OnlyStops(p2)
  BY <1>5 DEF OnlyStops
<1>7. EventsFit(p2) /\ Marks(p2) = {}
  BY <1>6, StopsFit
<1>8. Shape(p2)
  BY <1>5, <1>7 DEF Shape, BufferFits
<1> DEFINE net2 == d.net
<1>9. net2 = Put(net, c, Opening(r)) /\ q = Other(r)
  BY <1>4
<1> HIDE DEF net2, q
<1>10. World(r, p2, accepted[r], inbox[r], net2)
  BY <1>1, <1>2, <1>3, <1>5, <1>7, <1>9, Dialed
<1> QED
  BY <1>8, <1>10 DEF Kept, net2

\* The connect timer expires in Connect.
LEMMA RedialKept ==
  ASSUME IInv, PairInv, NEW r \in Router, used < MaxUse, NEW p1 \in PeerType,
         p1.LocalAgent = peer[r].LocalAgent, NEW lost \in Lost,
         NEW d, d = Started(Stopped(Both(p1, tcp), r, lost), r),
         NEW p2, Sets(d.p, "Connect", p2)
  PROVE  Kept(r, p2, d.net)
<1> DEFINE y == Stopped(Both(p1, tcp), r, lost)
<1>1. /\ peer[r] \in PeerType /\ NetOK(tcp, used) /\ InUse(peer[r], tcp, r) /\ used \in Nat
      /\ World(r, peer[r], accepted[r], inbox[r], tcp) /\ lost \in Nat
  BY OfRouter, OfPair, LostType
<1>2. InUse(p1, tcp, r)
  BY <1>1 DEF InUse
<1>3. /\ y.p \in PeerType /\ y.p.LocalAgent = NoConn /\ y.p.obuf = <<>>
      /\ y.p.t_read = NoConn /\ y.p.events = <<>>
      /\ NetStep(tcp, y.net, used) /\ y = Both(y.p, y.net)
  BY <1>1, <1>2, StoppedDone
<1>4. y.net = Hangup(tcp, r, p1.LocalAgent, lost)
  BY StoppedIs
<1>5. d = Started(Both(y.p, y.net), r)
  BY <1>3
<1> DEFINE p == y.p
           net == y.net
<1>6. /\ p \in PeerType /\ p.LocalAgent = NoConn /\ p.obuf = <<>> /\ p.t_read = NoConn
      /\ p.events = <<>> /\ NetStep(tcp, net, used) /\ d = Started(Both(p, net), r)
      /\ net = Hangup(tcp, r, peer[r].LocalAgent, lost)
  BY <1>3, <1>4, <1>5
<1> HIDE DEF p, net, y
<1>7. World(r, p, accepted[r], inbox[r], net)
  BY <1>1, <1>6, Released
<1>8. OnlyStops(p) /\ InUse(p, net, r) /\ NetOK(net, used) /\ Later(tcp, net)
  BY <1>6 DEF OnlyStops, InUse, NetStep
<1> QED
  BY <1>6, <1>7, <1>8, DialKept

\* The connection c of the peer of router r: e is its end there, f the one of router q.
Ends(r, q, c, e, f) ==
  /\ c \in Conn /\ c = peer[r].LocalAgent /\ q = Other(r)
  /\ e = End(peer[r], accepted[r][c], c) /\ f = End(peer[q], accepted[q][c], c)

LEMMA EndsAre ==
  ASSUME IInv, PairInv, NEW r \in Router, NEW q, NEW c, NEW e, NEW f, Ends(r, q, c, e, f)
  PROVE  /\ Joint(e, f, tcp[c], r, q, c, inbox[r], inbox[q])
         /\ EndFits(e) /\ EndFits(f)
         /\ e.status = peer[r].status /\ e.buf = peer[r].obuf /\ e.marks = Marks(peer[r])
         /\ "read" \in e.threads <=> peer[r].t_read = c
         /\ "write" \in e.threads <=> peer[r].t_write
         /\ accepted[r][c] = "none" /\ "accepted" \notin e.threads
         /\ tcp[c].state[r] \in Sides \ {"none"} /\ c # NoConn
<1>1. /\ c \in Conn /\ c = peer[r].LocalAgent /\ q = Other(r)
      /\ e = End(peer[r], accepted[r][c], c) /\ f = End(peer[q], accepted[q][c], c)
  BY DEF Ends
<1>2. /\ peer[r] \in PeerType /\ NetOK(tcp, used) /\ InUse(peer[r], tcp, r) /\ q \in Router
      /\ Shape(peer[r]) /\ World(r, peer[r], accepted[r], inbox[r], tcp) /\ Shape(peer[q])
  BY <1>1, OfRouter, OfPair, Others
<1>3. peer[q] \in PeerType
  BY <1>2, OfRouter
<1>4. Joint(e, f, tcp[c], r, q, c, inbox[r], inbox[q])
  BY <1>1, <1>2 DEF World, At
<1>5. EndFits(e) /\ EndFits(f)
  BY <1>1, <1>2, <1>3, EndOK
<1>6. c # NoConn /\ tcp[c].state[r] \in Sides \ {"none"}
  BY <1>1, <1>2, ConnParts DEF InUse, NetOK, Net, Conn, NoConn
<1>7. AgentEnd(peer[r], accepted[r][c], c, e)
  BY <1>1, <1>2 DEF AgentEnd
<1>8. accepted[r][c] = "none"
  BY <1>4, <1>7, AgentOwns
<1>9. /\ e.status = peer[r].status /\ e.buf = peer[r].obuf /\ e.marks = Marks(peer[r])
      /\ "read" \in e.threads <=> peer[r].t_read = c
      /\ "write" \in e.threads <=> peer[r].t_write
      /\ "accepted" \in e.threads <=> accepted[r][c] # "none"
  BY <1>1, EndIs
<1> QED
  BY <1>4, <1>5, <1>6, <1>8, <1>9

\* The end that another peer p would have there.
LEMMA EndThen ==
  ASSUME NEW r, NEW p, p.LocalAgent = peer[r].LocalAgent, NEW q, NEW c, NEW e, NEW f,
         Ends(r, q, c, e, f), accepted[r][c] = "none", NEW e2, e2 = End(p, accepted[r][c], c)
  PROVE  /\ e2.status = p.status /\ e2.buf = p.obuf /\ e2.marks = Marks(p)
         /\ "read" \in e2.threads <=> p.t_read = c
         /\ "write" \in e2.threads <=> p.t_write
         /\ "accepted" \notin e2.threads
<1>1. p.LocalAgent = c
  BY DEF Ends
<1> QED
  BY <1>1, EndIs

\* It is enough to look at that connection.
LEMMA OwnKept ==
  ASSUME PairInv, NEW r \in Router, NEW p, Shape(p), p.LocalAgent = peer[r].LocalAgent,
         p.t_read \in {peer[r].t_read, peer[r].LocalAgent},
         NEW net, \A d \in Conn : d # peer[r].LocalAgent => net[d] = tcp[d],
         \A q, c, e, f : Ends(r, q, c, e, f) =>
           Joint(End(p, accepted[r][c], c), f, net[c], r, q, c, inbox[r], inbox[q])
  PROVE  Kept(r, p, net)
<1>1. World(r, peer[r], accepted[r], inbox[r], tcp)
  BY OfPair
<1>2. ASSUME NEW c \in Conn, c = peer[r].LocalAgent
      PROVE  At(r, p, accepted[r][c], c, inbox[r], net[c])
  <2> DEFINE q == Other(r)
             e == End(peer[r], accepted[r][c], c)
             f == End(peer[q], accepted[q][c], c)
  <2>1. Ends(r, q, c, e, f)
    BY <1>2 DEF Ends
  <2> HIDE DEF e, f, q
  <2>2. Joint(End(p, accepted[r][c], c), f, net[c], r, q, c, inbox[r], inbox[q])
    BY <2>1
  <2> QED
    BY <2>2 DEF At, f, q
<1>3. World(r, p, accepted[r], inbox[r], net)
  BY <1>1, <1>2, OwnChanges
<1> QED
  BY <1>3 DEF Kept

\* What is in the output buffer after Queued.
LEMMA QueuedBuf ==
  ASSUME NEW p \in PeerType, NEW net, NEW msgs,
         NEW d, d = Queued(Both(p, net), msgs)
  PROVE  d.p.obuf = p.obuf \o msgs
<1>1. d.p = [p EXCEPT !.obuf = @ \o msgs, !.t_write = TRUE]
  BY BothIs DEF Queued
<1> QED
  BY <1>1 DEF PeerType

\* The buffer with one more message.
LEMMA LongerFits ==
  ASSUME NEW p \in PeerType, BufferFits(p), NEW p2, NEW m,
         Longer(Message, p.obuf, p2.obuf, m), p2.t_write, p2.status \in Talks,
         p.status \in Late => p2.status \in Late,
         p.status = "Established" => p2.status = "Established",
         m # "Open" /\ p2.status \in Late, m = "Update" => p2.status = "Established"
  PROVE  BufferFits(p2) /\ p2.obuf # <<>>
<1>1. p.obuf \in Seq(Message) /\ p2.obuf = Append(p.obuf, m)
  BY DEF Longer
<1>2. ASSUME NEW i \in 1..Len(p2.obuf)
      PROVE  /\ p2.obuf[i] = "Open" => i = 1
             /\ p2.obuf[i] # "Open" => p2.status \in Late
             /\ p2.obuf[i] = "Update" => p2.status = "Established"
  <2>1. \/ i \in 1..Len(p.obuf) /\ p2.obuf[i] = p.obuf[i]
        \/ p2.obuf[i] = m
    BY <1>1, AppendAt
  <2> QED
    BY <2>1 DEF BufferFits
<1>3. p2.obuf # <<>>
  BY <1>1
<1> QED
  BY <1>2, <1>3 DEF BufferFits

\* p1 is the peer p without the event e.
Same(p, p1) ==
  /\ p1 \in PeerType /\ p1.status = p.status /\ p1.LocalAgent = p.LocalAgent
  /\ p1.t_read = p.t_read /\ p1.t_write = p.t_write /\ p1.obuf = p.obuf

\* The connection is open.
LEMMA GreetKept ==
  ASSUME IInv, PairInv, NEW r \in Router, NEW p1, Same(peer[r], p1), OnlyStops(p1),
         peer[r].status = "Connect", "Open" \in Marks(peer[r]), peer[r].t_read = NoConn,
         NEW d, d = Queued(Listening(Both(p1, tcp)), <<"Open">>),
         NEW p2, Sets(d.p, "OpenSent", p2)
  PROVE  Kept(r, p2, d.net)
<1> DEFINE l == Listening(Both(p1, tcp))
           msgs == <<"Open">>
<1>1. peer[r] \in PeerType /\ Shape(peer[r]) /\ Connected(peer[r]) /\ p1 \in PeerType
  BY OfRouter, OfPair DEF Same
<1>2. /\ l.p \in PeerType /\ l.p.t_read = IF p1.t_read = NoConn THEN p1.LocalAgent ELSE p1.t_read
      /\ l.p.LocalAgent = p1.LocalAgent /\ l.p.obuf = p1.obuf
      /\ l.p.events = p1.events
      /\ l.net = tcp /\ l = Both(l.p, tcp)
  BY <1>1, ListeningIs
<1>3. msgs \in Seq(Message)
  BY DEF Message
<1> DEFINE y == l.p
<1>4. d = Queued(Both(y, tcp), msgs) /\ y \in PeerType
  BY <1>2
<1> HIDE DEF y, msgs, l
<1>5. /\ d.p.t_write /\ d.p.LocalAgent = y.LocalAgent /\ d.p.t_read = y.t_read
      /\ d.p.events = y.events /\ d.net = tcp /\ d.p.obuf = y.obuf \o msgs
  BY <1>3, <1>4, QueuedIs, QueuedBuf
<1>6. peer[r].obuf = <<>> /\ peer[r].LocalAgent # NoConn
  BY <1>1 DEF Shape, BufferFits, Talks, Connected, Down
<1>7. y.obuf \o msgs = <<"Open">>
  BY <1>2, <1>6 DEF y, msgs, Same
<1>8. /\ p2.LocalAgent = peer[r].LocalAgent /\ p2.t_read = peer[r].LocalAgent
      /\ p2.events = p1.events /\ p2.obuf = <<"Open">> /\ p2.status = "OpenSent"
      /\ p2.timers = TimersOf["OpenSent"]
  BY <1>2, <1>5, <1>7 DEF Sets, y, Same
<1>9. p2.t_write
  BY <1>5 DEF Sets
<1>10. OnlyStops(p2)
  BY <1>8 DEF OnlyStops
<1>11. EventsFit(p2) /\ Marks(p2) = {}
  BY <1>10, StopsFit
<1>12. BufferFits(p2)
  <2>1. \A i \in 1..Len(p2.obuf) : i = 1 /\ p2.obuf[i] = "Open"
    BY <1>8
  <2> QED
    BY <2>1, <1>8, <1>9 DEF BufferFits, Talks
<1>13. Shape(p2)
  BY <1>8, <1>11, <1>12 DEF Shape
<1>14. ASSUME NEW q, NEW c, NEW e, NEW f, Ends(r, q, c, e, f)
       PROVE  Joint(End(p2, accepted[r][c], c), f, tcp[c], r, q, c, inbox[r], inbox[q])
  <2> DEFINE e2 == End(p2, accepted[r][c], c)
             t == tcp[c]
             box == inbox[r]
             qbox == inbox[q]
  <2>1. /\ Joint(e, f, t, r, q, c, box, qbox)
        /\ e.status = peer[r].status /\ e.marks = Marks(peer[r])
        /\ t.state[r] \in Sides \ {"none"} /\ accepted[r][c] = "none"
    BY <1>14, EndsAre
  <2>2. e2 = End(p2, accepted[r][c], c)
    OBVIOUS
  <2> HIDE DEF e2, t, box, qbox
  <2>3. /\ e2.status = p2.status /\ e2.buf = p2.obuf /\ e2.marks = Marks(p2)
        /\ "read" \in e2.threads <=> p2.t_read = c
        /\ "write" \in e2.threads <=> p2.t_write
        /\ "accepted" \notin e2.threads
    BY <1>8, <1>14, <2>1, <2>2, EndThen
  <2>4. "read" \in e2.threads
    BY <1>8, <1>14, <2>3 DEF Ends
  <2>5. "write" \in e2.threads
    BY <1>9, <2>3, Zenon
  <2>6. /\ e.status = "Connect" /\ "Open" \in e.marks /\ e2.status = "OpenSent"
        /\ e2.buf = <<"Open">> /\ e2.marks = {} /\ "accepted" \notin e2.threads
    BY <1>8, <1>11, <2>1, <2>3
  <2>7. Joint(e2, f, t, r, q, c, box, qbox)
    BY <2>1, <2>4, <2>5, <2>6, Greets
  <2> QED
    BY <2>7 DEF e2, t, box, qbox
<1>15. p2.LocalAgent = peer[r].LocalAgent /\ p2.t_read \in {peer[r].t_read, peer[r].LocalAgent}
       /\ d.net = tcp
  BY <1>5, <1>8
<1> QED
  BY <1>13, <1>14, <1>15, OwnKept

\* The session gets on, or goes on.
LEMMA AdvanceKept ==
  ASSUME IInv, PairInv, NEW r \in Router, NEW p2, Shape(p2),
         p2.LocalAgent = peer[r].LocalAgent, p2.t_read = peer[r].t_read,
         peer[r].status \in Talks, p2.status \in Late, Marks(p2) = {},
         peer[r].status \in Late \/ "ReceiveOpen" \in Marks(peer[r]),
         p2.status = "Established" =>
           peer[r].status = "Established" \/ "ReceiveKeepalive" \in Marks(peer[r]),
         p2.status = "OpenConfirm" =>
           \/ peer[r].status = "OpenSent"
           \/ peer[r].status = "OpenConfirm" /\ Marks(peer[r]) = {},
         \/ p2.obuf # <<>> /\ p2.t_write
         \/ /\ "Closed" \notin Marks(peer[r]) /\ p2.obuf = peer[r].obuf
            /\ p2.t_write = peer[r].t_write,
         Occurs(p2.obuf, "Open") => Occurs(peer[r].obuf, "Open"),
         Follows(peer[r].obuf, "Keepalive", "Update") => Follows(p2.obuf, "Keepalive", "Update")
  PROVE  Kept(r, p2, tcp)
<1>1. ASSUME NEW q, NEW c, NEW e, NEW f, Ends(r, q, c, e, f)
      PROVE  Joint(End(p2, accepted[r][c], c), f, tcp[c], r, q, c, inbox[r], inbox[q])
  <2> DEFINE e2 == End(p2, accepted[r][c], c)
             t == tcp[c]
             box == inbox[r]
             qbox == inbox[q]
  <2>1. /\ Joint(e, f, t, r, q, c, box, qbox) /\ EndFits(f)
        /\ e.status = peer[r].status /\ e.buf = peer[r].obuf /\ e.marks = Marks(peer[r])
        /\ "read" \in e.threads <=> peer[r].t_read = c
        /\ accepted[r][c] = "none"
    BY <1>1, EndsAre
  <2>2. e2 = End(p2, accepted[r][c], c) /\ e = End(peer[r], accepted[r][c], c)
    BY <1>1 DEF Ends
  <2>3. p2.t_write = peer[r].t_write => e2.threads = e.threads
    BY <2>2 DEF End
  <2> HIDE DEF e2, t, box, qbox
  <2>4. /\ e2.status = p2.status /\ e2.buf = p2.obuf /\ e2.marks = Marks(p2)
        /\ "read" \in e2.threads <=> p2.t_read = c
        /\ "write" \in e2.threads <=> p2.t_write
        /\ "accepted" \notin e2.threads
    BY <1>1, <2>1, <2>2, EndThen
  <2>5. p2.t_write => "write" \in e2.threads
    BY <2>4, Zenon
  <2>6. \/ e2.buf # <<>> /\ "write" \in e2.threads
        \/ "Closed" \notin e.marks /\ e2.buf = e.buf /\ e2.threads = e.threads
    BY <2>1, <2>3, <2>4, <2>5
  <2>7. /\ HasOpen(e)
        /\ HasKeepalive(e2) => HasKeepalive(e)
    BY <2>1, <2>4 DEF HasOpen, HasKeepalive
  <2>8. /\ e2.status = "OpenConfirm" =>
             e.status = "OpenSent" \/ (e.status = "OpenConfirm" /\ e2.marks = e.marks)
        /\ "Open" \notin e2.marks
        /\ "read" \in e2.threads <=> "read" \in e.threads
        /\ Occurs(e2.buf, "Open") => Occurs(e.buf, "Open")
        /\ Follows(e.buf, "Keepalive", "Update") => Follows(e2.buf, "Keepalive", "Update")
        /\ e.status \in Talks /\ e2.status \in Late
    BY <2>1, <2>4
  <2>9. Joint(e2, f, t, r, q, c, box, qbox)
    BY <2>1, <2>4, <2>6, <2>7, <2>8, Advances
  <2> QED
    BY <2>9 DEF e2, t, box, qbox
<1> QED
  BY <1>1, OwnKept

\* What a peer that goes on keeps of its shape.
LEMMA OnShape ==
  ASSUME NEW p, Shape(p), p.status # "Connect", NEW p2, p2.LocalAgent = p.LocalAgent,
         p2.t_read = p.t_read, OnlyStops(p2), p2.status # "Active",
         p2.timers = TimersOf[p2.status], BufferFits(p2)
  PROVE  Shape(p2) /\ Marks(p2) = {}
<1>1. EventsFit(p2) /\ Marks(p2) = {}
  BY StopsFit
<1> QED
  BY <1>1 DEF Shape

\* fsm_open, and a KEEPALIVE when its timer expires.
LEMMA ConfirmKept ==
  ASSUME IInv, PairInv, NEW r \in Router, NEW p1, Same(peer[r], p1), OnlyStops(p1),
         NEW next,
         \/ /\ peer[r].status = "OpenSent" /\ "ReceiveOpen" \in Marks(peer[r])
            /\ next = "OpenConfirm"
         \/ peer[r].status = "Established" /\ next = "Established",
         NEW d, d = Queued(Both(p1, tcp), <<"Keepalive">>),
         NEW p2, Sets(d.p, next, p2)
  PROVE  Kept(r, p2, d.net)
<1> DEFINE msgs == <<"Keepalive">>
           m == "Keepalive"
<1>1. peer[r] \in PeerType /\ Shape(peer[r]) /\ p1 \in PeerType
  BY OfRouter, OfPair DEF Same
<1>2. /\ msgs \in Seq(Message) /\ m \in Message /\ peer[r].obuf \in Seq(Message)
      /\ peer[r].obuf \o msgs = Append(peer[r].obuf, m)
  BY <1>1, PeerParts DEF Message
<1>3. d = Queued(Both(p1, tcp), msgs)
  OBVIOUS
<1>4. m # "Open" /\ m # "Update"
  OBVIOUS
<1> HIDE DEF msgs, m
<1>5. /\ d.p.t_write /\ d.p.LocalAgent = p1.LocalAgent /\ d.p.t_read = p1.t_read
      /\ d.p.events = p1.events /\ d.net = tcp /\ d.p.obuf = p1.obuf \o msgs
  BY <1>1, <1>2, <1>3, QueuedIs, QueuedBuf
<1>6. /\ p2.LocalAgent = peer[r].LocalAgent /\ p2.t_read = peer[r].t_read
      /\ p2.events = p1.events /\ p2.obuf = Append(peer[r].obuf, m) /\ p2.status = next
      /\ p2.timers = TimersOf[p2.status]
  BY <1>2, <1>5 DEF Sets, Same
<1>7. p2.t_write /\ OnlyStops(p2)
  BY <1>5, <1>6 DEF Sets, OnlyStops
<1>8. Longer(Message, peer[r].obuf, p2.obuf, m)
  BY <1>2, <1>6 DEF Longer
<1>9. BufferFits(p2) /\ p2.obuf # <<>>
  <2>1. BufferFits(peer[r])
    BY <1>1 DEF Shape
  <2> QED
    BY <1>1, <1>4, <1>6, <1>7, <1>8, <2>1, LongerFits DEF Talks, Late
<1>10. Shape(p2) /\ Marks(p2) = {}
  BY <1>1, <1>6, <1>7, <1>9, OnShape
<1>11. \A e, k : /\ Occurs(p2.obuf, e) <=> Occurs(peer[r].obuf, e) \/ m = e
                 /\ Follows(peer[r].obuf, k, e) /\ (m = e => Occurs(peer[r].obuf, k))
                      => Follows(p2.obuf, k, e)
  BY <1>8, AppendHas
<1>12. Kept(r, p2, tcp)
  BY <1>4, <1>6, <1>7, <1>9, <1>10, <1>11, AdvanceKept DEF Talks, Late
<1> QED
  BY <1>5, <1>12

\* Two messages more.
LEMMA TwoMore ==
  ASSUME NEW S, NEW s \in Seq(S), NEW a \in S, NEW b \in S
  PROVE  s \o <<a, b>> = Append(Append(s, a), b)
<1>1. Append(s, a) = s \o <<a>> /\ s \o <<a>> \in Seq(S)
  OBVIOUS
<1>2. Append(s \o <<a>>, b) = (s \o <<a>>) \o <<b>>
  BY <1>1
<1>3. <<a, b>> = <<a>> \o <<b>>
  <2>1. <<a, b>> = Append(<<a>>, b)
    OBVIOUS
  <2>2. <<a>> \in Seq(S) /\ Append(<<a>>, b) = <<a>> \o <<b>>
    OBVIOUS
  <2> QED
    BY <2>1, <2>2
<1>4. (s \o <<a>>) \o <<b>> = s \o (<<a>> \o <<b>>)
  OBVIOUS
<1> QED
  BY <1>1, <1>2, <1>3, <1>4

\* The session is established, and the table is announced.
LEMMA EstablishKept ==
  ASSUME IInv, PairInv, NEW r \in Router, NEW p1, Same(peer[r], p1), OnlyStops(p1),
         peer[r].status = "OpenConfirm", "ReceiveKeepalive" \in Marks(peer[r]),
         NEW d, d = Queued(Both(p1, tcp), <<"Keepalive", "Update">>),
         NEW p2, Sets(d.p, "Established", p2)
  PROVE  Kept(r, p2, d.net)
<1> DEFINE msgs == <<"Keepalive", "Update">>
           m == "Keepalive"
           u == "Update"
           b == peer[r].obuf
           b1 == Append(b, m)
<1>1. peer[r] \in PeerType /\ Shape(peer[r]) /\ p1 \in PeerType
  BY OfRouter, OfPair DEF Same
<1>2. /\ msgs \in Seq(Message) /\ m \in Message /\ u \in Message /\ b \in Seq(Message)
      /\ b \o msgs = Append(b1, u) /\ b1 \in Seq(Message)
  <2>1. m \in Message /\ u \in Message /\ b \in Seq(Message)
    BY <1>1, PeerParts DEF Message
  <2>2. msgs = <<m, u>>
    OBVIOUS
  <2> HIDE DEF m, u, b, msgs
  <2>3. b \o msgs = Append(b1, u)
    BY <2>1, <2>2, TwoMore
  <2>4. msgs \in Seq(Message) /\ b1 \in Seq(Message)
    BY <2>1, <2>2
  <2> QED
    BY <2>1, <2>3, <2>4
<1>3. d = Queued(Both(p1, tcp), msgs) /\ b = peer[r].obuf
  OBVIOUS
<1>4. m # "Open" /\ m # "Update" /\ u # "Open" /\ u = "Update"
  OBVIOUS
<1>5. b1 = Append(b, m)
  OBVIOUS
<1> HIDE DEF msgs, m, u, b, b1
<1>6. /\ d.p.t_write /\ d.p.LocalAgent = p1.LocalAgent /\ d.p.t_read = p1.t_read
      /\ d.p.events = p1.events /\ d.net = tcp /\ d.p.obuf = p1.obuf \o msgs
  <2>1. msgs \in Seq(Message)
    BY <1>2
  <2>2. /\ d.p.t_write /\ d.p.LocalAgent = p1.LocalAgent /\ d.p.t_read = p1.t_read
        /\ d.p.events = p1.events /\ d.net = tcp
    BY <1>1, <1>3, <2>1, QueuedIs
  <2>3. d.p.obuf = p1.obuf \o msgs
    BY <1>1, <1>3, QueuedBuf
  <2> QED
    BY <2>2, <2>3
<1>7. /\ p2.LocalAgent = peer[r].LocalAgent /\ p2.t_read = peer[r].t_read
      /\ p2.events = p1.events /\ p2.obuf = Append(b1, u) /\ p2.status = "Established"
      /\ p2.timers = TimersOf[p2.status]
  BY <1>2, <1>3, <1>6 DEF Sets, Same
<1>8. p2.t_write /\ OnlyStops(p2)
  BY <1>6, <1>7 DEF Sets, OnlyStops
<1>9. Longer(Message, b, b1, m) /\ Longer(Message, b1, p2.obuf, u)
  BY <1>2, <1>5, <1>7 DEF Longer
<1>10. \A e, k : /\ Occurs(b1, e) <=> Occurs(b, e) \/ m = e
                 /\ Follows(b, k, e) /\ (m = e => Occurs(b, k)) => Follows(b1, k, e)
  BY <1>9, AppendHas
<1>11. \A e, k : /\ Occurs(p2.obuf, e) <=> Occurs(b1, e) \/ u = e
                 /\ Follows(b1, k, e) /\ (u = e => Occurs(b1, k)) => Follows(p2.obuf, k, e)
  BY <1>9, AppendHas
<1>12. BufferFits(p2) /\ p2.obuf # <<>>
  <2> DEFINE pm == [peer[r] EXCEPT !.obuf = b1, !.t_write = TRUE]
  <2>1. pm \in PeerType /\ pm.obuf = b1 /\ pm.t_write /\ pm.status = peer[r].status
    BY <1>1, <1>2 DEF PeerType
  <2> HIDE DEF pm
  <2>2. BufferFits(peer[r])
    BY <1>1 DEF Shape
  <2>3. Longer(Message, peer[r].obuf, pm.obuf, m)
    BY <1>3, <1>9, <2>1
  <2>4. BufferFits(pm)
    BY <1>1, <1>4, <2>1, <2>2, <2>3, LongerFits DEF Talks, Late
  <2>5. Longer(Message, pm.obuf, p2.obuf, u)
    BY <1>9, <2>1
  <2> QED
    BY <1>4, <1>7, <1>8, <2>1, <2>4, <2>5, LongerFits DEF Talks, Late
<1>13. Shape(p2) /\ Marks(p2) = {}
  BY <1>1, <1>7, <1>8, <1>12, OnShape
<1>14. /\ Occurs(p2.obuf, "Open") => Occurs(peer[r].obuf, "Open")
       /\ Follows(peer[r].obuf, "Keepalive", "Update") => Follows(p2.obuf, "Keepalive", "Update")
  <2>1. Occurs(b1, "Keepalive")
    BY <1>10 DEF m
  <2> QED
    BY <1>3, <1>4, <1>10, <1>11, <2>1
<1>15. Kept(r, p2, tcp)
  BY <1>7, <1>8, <1>12, <1>13, <1>14, AdvanceKept DEF Talks, Late
<1> QED
  BY <1>6, <1>15

\* A KEEPALIVE or an UPDATE in Established, and the KEEPALIVE timer in OpenConfirm.
LEMMA ReceivedKept ==
  ASSUME IInv, PairInv, NEW r \in Router, NEW p1, Same(peer[r], p1), OnlyStops(p1),
         "Closed" \notin Marks(peer[r]),
         \/ peer[r].status = "Established"
         \/ peer[r].status = "OpenConfirm" /\ Marks(peer[r]) = {},
         NEW p2, Sets(p1, peer[r].status, p2)
  PROVE  Kept(r, p2, tcp)
<1>1. Shape(peer[r])
  BY OfPair
<1>2. /\ p2.LocalAgent = peer[r].LocalAgent /\ p2.t_read = peer[r].t_read
      /\ p2.events = p1.events /\ p2.obuf = peer[r].obuf /\ p2.status = peer[r].status
      /\ p2.timers = TimersOf[p2.status] /\ p2.t_write = peer[r].t_write
  BY DEF Sets, Same
<1>3. OnlyStops(p2)
  BY <1>2 DEF OnlyStops
<1>4. BufferFits(p2)
  BY <1>1, <1>2 DEF Shape, BufferFits
<1>5. Shape(p2) /\ Marks(p2) = {}
  BY <1>1, <1>2, <1>3, <1>4, OnShape
<1> QED
  BY <1>2, <1>5, AdvanceKept DEF Talks, Late

\* A message that the status has no row for.
LEMMA IgnoreKept ==
  ASSUME IInv, PairInv, NEW r \in Router, NEW p1, Same(peer[r], p1), OnlyStops(p1),
         peer[r].status \in {"Idle", "OpenSent"}, peer[r].obuf = <<>>,
         NEW p2, Sets(p1, "Idle", p2)
  PROVE  Kept(r, p2, tcp)
<1>1. Shape(peer[r])
  BY OfPair
<1>2. /\ p2.LocalAgent = peer[r].LocalAgent /\ p2.t_read = peer[r].t_read
      /\ p2.events = p1.events /\ p2.obuf = <<>> /\ p2.status = "Idle"
      /\ p2.timers = TimersOf[p2.status] /\ p2.t_write = peer[r].t_write
  BY DEF Sets, Same
<1>3. OnlyStops(p2)
  BY <1>2 DEF OnlyStops
<1>4. BufferFits(p2)
  BY <1>2 DEF BufferFits
<1>5. Shape(p2) /\ Marks(p2) = {}
  BY <1>1, <1>2, <1>3, <1>4, OnShape
<1>6. ASSUME NEW q, NEW c, NEW e, NEW f, Ends(r, q, c, e, f)
      PROVE  Joint(End(p2, accepted[r][c], c), f, tcp[c], r, q, c, inbox[r], inbox[q])
  <2> DEFINE e2 == End(p2, accepted[r][c], c)
             t == tcp[c]
             box == inbox[r]
             qbox == inbox[q]
  <2>1. /\ Joint(e, f, t, r, q, c, box, qbox)
        /\ e.status = peer[r].status /\ e.buf = peer[r].obuf
        /\ accepted[r][c] = "none"
    BY <1>6, EndsAre
  <2>2. e2 = End(p2, accepted[r][c], c) /\ e = End(peer[r], accepted[r][c], c)
    BY <1>6 DEF Ends
  <2>3. e2.threads = e.threads
    BY <1>2, <2>2 DEF End
  <2> HIDE DEF e2, t, box, qbox
  <2>4. e2.status = p2.status /\ e2.buf = p2.obuf /\ e2.marks = Marks(p2)
    BY <1>2, <1>6, <2>1, <2>2, EndThen
  <2>5. Joint(e2, f, t, r, q, c, box, qbox)
    BY <1>2, <1>5, <2>1, <2>3, <2>4, Idles
  <2> QED
    BY <2>5 DEF e2, t, box, qbox
<1> QED
  BY <1>2, <1>5, <1>6, OwnKept

\* The peer p becomes p1 when the event e is taken, and e is one that p can have.
Takes(p, p1, e) ==
  /\ Same(p, p1) /\ OnlyStops(p1)
  /\ Fits(p.status, e)
  /\ e \in {"Open", "ReceiveOpen", "ReceiveKeepalive"} => e \in Marks(p)
  /\ "Closed" \in Marks(p) => e = "Closed"
  /\ e \in FromRead \ {"ReceiveOpen"} => p.obuf = <<>>
  /\ e \in FromTimer => Marks(p) = {}
  /\ e = "Open" => p.t_read = NoConn

\* bgp_event.
LEMMA HandledKept ==
  ASSUME IInv, PairInv, NEW r \in Router, NEW p1, NEW e \in Event, Takes(peer[r], p1, e),
         NEW lost \in Lost, Connects(p1.status, e) => used < MaxUse,
         NEW d, d = Handled(Both(p1, tcp), r, e, lost)
  PROVE  Kept(r, d.p, d.net)
<1> DEFINE s == peer[r].status
           func == FSM[p1.status][e].func
           next == FSM[p1.status][e].next
           y == Do(func, Both(p1, tcp), r, lost)
<1>1. /\ peer[r] \in PeerType /\ Connected(peer[r]) /\ InUse(peer[r], tcp, r)
      /\ NetOK(tcp, used) /\ used \in Nat /\ Shape(peer[r])
      /\ World(r, peer[r], accepted[r], inbox[r], tcp)
  BY OfRouter, OfPair
<1>2. Same(peer[r], p1) /\ OnlyStops(p1) /\ Fits(s, e)
  BY DEF Takes
<1>3. /\ p1 \in PeerType /\ p1.status = s /\ p1.LocalAgent = peer[r].LocalAgent
      /\ p1.t_read = peer[r].t_read /\ p1.obuf = peer[r].obuf
  BY <1>2 DEF Same
<1>4. PeerOK(p1, tcp, r) /\ NoOpen(p1)
  BY <1>1, <1>2, <1>3 DEF PeerOK, Connected, InUse, NoOpen, OnlyStops
<1>5. s \notin Down => peer[r].LocalAgent # NoConn
  BY <1>1 DEF Connected
<1>6. e = "Open" => p1.LocalAgent # NoConn
  BY <1>2, <1>3, <1>5 DEF Fits, Down
<1>7. y.p \in PeerType
  <2> HIDE DEF next
  <2>1. func \in {"start", "reconnect"} => used < MaxUse
    BY DEF Connects
  <2> HIDE DEF func
  <2>2. Done(y.p, y.net, tcp, r, IF func \in {"start", "reconnect"} THEN used + 1 ELSE used, next)
    BY <1>1, <1>4, <1>6, <2>1, DoDone DEF func, next
  <2> QED
    BY <2>2 DEF Done
<1>8. s \in Status /\ next \in Status
  <2>1. s \in Status
    BY <1>1, PeerParts
  <2> QED
    BY <1>3, <2>1, FsmSound DEF Sound
<1>9. Moves(s, e, func, next)
  BY <1>2, <1>3, <1>8, FsmMoves
<1>10. d.net = y.net /\ Sets(y.p, next, d.p)
  <2>1. d.net = y.net /\ d.p = [y.p EXCEPT !.status = next, !.timers = TimersOf[next]]
    BY BothIs DEF Handled
  <2> HIDE DEF y, next
  <2> QED
    BY <1>7, <2>1 DEF Sets, PeerType
<1>11. Connects(p1.status, e) <=> func \in {"start", "reconnect"}
  BY DEF Connects
<1> HIDE DEF y, next, func, s
<1>12. y = Do(func, Both(p1, tcp), r, lost)
  BY DEF y
<1>13. CASE func = "stop" /\ next \in Down
  <2>1. y = Stopped(Both(p1, tcp), r, lost)
    BY <1>12, <1>13 DEF Do
  <2> QED
    BY <2>1, <1>3, <1>10, <1>13, StopKept
<1>14. CASE func = "holdtime_expire" /\ s \in Talks /\ next = "Idle"
  <2>1. y = Notified(Both(p1, tcp), r, lost)
    BY <1>12, <1>14 DEF Do
  <2>2. peer[r].LocalAgent # NoConn
    BY <1>5, <1>14 DEF Talks, Down
  <2>3. Sets(y.p, "Idle", d.p)
    BY <1>10, <1>14
  <2>4. Kept(r, d.p, y.net)
    BY <2>1, <2>2, <2>3, <1>3, HoldKept
  <2> QED
    BY <2>4, <1>10
<1>15. CASE func = "start" /\ s \in Down /\ next = "Connect"
  <2>1. y = Started(Both(p1, tcp), r)
    BY <1>12, <1>15 DEF Do
  <2>2. used < MaxUse
    BY <1>11, <1>15
  <2>3. Sets(y.p, "Connect", d.p)
    BY <1>10, <1>15
  <2>4. peer[r].obuf = <<>>
    BY <1>1, <1>15 DEF Shape, BufferFits, Talks, Down, s
  <2>5. peer[r].LocalAgent # NoConn => peer[r].status = "Idle"
    BY <1>1, <1>15 DEF Shape, Down, s
  <2>6. Later(tcp, tcp)
    BY <1>1, NoStep DEF NetStep
  <2>7. Kept(r, d.p, y.net)
    BY <1>1, <1>2, <1>3, <2>1, <2>2, <2>3, <2>4, <2>5, <2>6, DialKept
  <2> QED
    BY <2>7, <1>10
<1>16. CASE func = "reconnect" /\ next = "Connect"
  <2>1. y = Started(Stopped(Both(p1, tcp), r, lost), r)
    BY <1>12, <1>16 DEF Do
  <2>2. used < MaxUse
    BY <1>11, <1>16
  <2>3. Sets(y.p, "Connect", d.p)
    BY <1>10, <1>16
  <2>4. Kept(r, d.p, y.net)
    BY <1>3, <2>1, <2>2, <2>3, RedialKept
  <2> QED
    BY <2>4, <1>10
<1>17. CASE func = "connect_success" /\ s = "Connect" /\ e = "Open" /\ next = "OpenSent"
  <2>1. y = Queued(Listening(Both(p1, tcp)), <<"Open">>)
    BY <1>12, <1>17 DEF Do
  <2>2. Sets(y.p, "OpenSent", d.p)
    BY <1>10, <1>17
  <2>3. "Open" \in Marks(peer[r]) /\ peer[r].t_read = NoConn /\ peer[r].status = "Connect"
    BY <1>17 DEF Takes, s
  <2>4. Kept(r, d.p, y.net)
    BY <1>2, <2>1, <2>2, <2>3, GreetKept
  <2> QED
    BY <2>4, <1>10
<1>18. CASE \/ func = "open" /\ s = "OpenSent" /\ e = "ReceiveOpen" /\ next = "OpenConfirm"
            \/ func = "keepalive_expire" /\ s = "Established" /\ next = s
  <2>1. y = Queued(Both(p1, tcp), <<"Keepalive">>)
    BY <1>12, <1>18 DEF Do, Opened
  <2>2. \/ /\ peer[r].status = "OpenSent" /\ "ReceiveOpen" \in Marks(peer[r])
           /\ next = "OpenConfirm"
        \/ peer[r].status = "Established" /\ next = "Established"
    BY <1>18 DEF Takes, s
  <2>3. Kept(r, d.p, y.net)
    BY <1>2, <1>10, <2>1, <2>2, ConfirmKept
  <2> QED
    BY <2>3, <1>10
<1>19. CASE func = "establish" /\ s = "OpenConfirm" /\ e = "ReceiveKeepalive"
            /\ next = "Established"
  <2>1. y = Queued(Both(p1, tcp), <<"Keepalive", "Update">>)
    BY <1>12, <1>19 DEF Do
  <2>2. Sets(y.p, "Established", d.p)
    BY <1>10, <1>19
  <2>3. "ReceiveKeepalive" \in Marks(peer[r]) /\ peer[r].status = "OpenConfirm"
    BY <1>19 DEF Takes, s
  <2>4. Kept(r, d.p, y.net)
    BY <1>2, <2>1, <2>2, <2>3, EstablishKept
  <2> QED
    BY <2>4, <1>10
<1>20. CASE \/ /\ func = "received" /\ s = "Established" /\ next = s
               /\ e \in {"ReceiveKeepalive", "ReceiveUpdate"}
            \/ func = "ignore" /\ s = "OpenConfirm" /\ e = "KeepAliveExpired" /\ next = s
  <2>1. y = Both(p1, tcp)
    BY <1>12, <1>20 DEF Do
  <2>2. y.p = p1 /\ y.net = tcp
    BY <2>1, BothIs
  <2>3. Sets(p1, peer[r].status, d.p)
    BY <1>10, <1>20, <2>2 DEF s
  <2>4. /\ "Closed" \notin Marks(peer[r])
        /\ \/ peer[r].status = "Established"
           \/ peer[r].status = "OpenConfirm" /\ Marks(peer[r]) = {}
    BY <1>20 DEF Takes, FromTimer, s
  <2>5. Kept(r, d.p, tcp)
    BY <1>2, <2>3, <2>4, ReceivedKept
  <2> QED
    BY <2>2, <2>5, <1>10
<1>21. CASE /\ func = "ignore" /\ next = "Idle" /\ e \in FromRead \ {"Closed"}
            /\ s \in {"Idle", "OpenSent"} /\ (e = "ReceiveOpen" => s = "Idle")
  <2>1. y = Both(p1, tcp)
    BY <1>12, <1>21 DEF Do
  <2>2. y.p = p1 /\ y.net = tcp
    BY <2>1, BothIs
  <2>3. Sets(p1, "Idle", d.p)
    BY <1>10, <1>21, <2>2
  <2>4. peer[r].obuf = <<>>
    BY <1>1, <1>21 DEF Takes, Shape, BufferFits, Talks, s
  <2>5. Kept(r, d.p, tcp)
    BY <1>2, <1>21, <2>3, <2>4, IgnoreKept DEF s
  <2> QED
    BY <2>2, <2>5, <1>10
<1> QED
  BY <1>9, <1>13, <1>14, <1>15, <1>16, <1>17, <1>18, <1>19, <1>20, <1>21 DEF Moves

-----------------------------------------------------------------------------
(***************************************************************************)
(* The actions of one router that interrupts have no part in.              *)
(***************************************************************************)
\* Router r has done something, and its other end has not.
LEMMA PairKept ==
  ASSUME PairInv, NEW r \in Router, NEW q, q = Other(r),
         peer'[q] = peer[q], accepted'[q] = accepted[q], inbox'[q] = inbox[q],
         Shape(peer'[r]), World(r, peer'[r], accepted'[r], inbox'[r], tcp')
  PROVE  PairInv'
<1>1. q \in Router /\ Other(q) = r /\ \A x \in Router : x = r \/ x = q
  BY Others
<1>2. Shape(peer'[q])
  BY OfPair
<1>3. \A c \in Conn : Joint(End(peer'[r], accepted'[r][c], c), End(peer'[q], accepted'[q][c], c),
                            tcp'[c], r, q, c, inbox'[r], inbox'[q])
  BY DEF World, At
<1>4. \A c \in Conn : Joint(End(peer'[q], accepted'[q][c], c), End(peer'[r], accepted'[r][c], c),
                            tcp'[c], q, r, c, inbox'[q], inbox'[r])
  BY <1>3, JointSwap
<1>5. World(r, peer[r], accepted[r], inbox[r], tcp)'
  BY <1>3 DEF World, At
<1>6. World(q, peer[q], accepted[q], inbox[q], tcp)'
  BY <1>1, <1>4 DEF World, At
<1> QED
  BY <1>1, <1>2, <1>5, <1>6 DEF PairInv

\* The peer of r is replaced.
LEMMA PeerReplaced ==
  ASSUME IInv, PairInv, NEW r \in Router, NEW p, peer' = [peer EXCEPT ![r] = p],
         accepted' = accepted, inbox' = inbox, Kept(r, p, tcp')
  PROVE  PairInv'
<1> DEFINE q == Other(r)
<1>1. q \in Router /\ q # r
  BY Others
<1>2. peer'[r] = p /\ peer'[q] = peer[q]
  BY <1>1 DEF IInv
<1> HIDE DEF q
<1>3. q = Other(r)
  BY DEF q
<1> QED
  BY <1>2, <1>3, PairKept DEF Kept

\* bgp_event.
LEMMA HandledPair ==
  ASSUME IInv, PairInv, NEW r \in Router, NEW p1, NEW e \in Event, Takes(peer[r], p1, e),
         NEW lost \in Lost, Connects(p1.status, e) => used < MaxUse,
         Becomes(r, Handled(Both(p1, tcp), r, e, lost)), accepted' = accepted, inbox' = inbox
  PROVE  PairInv'
<1> DEFINE d == Handled(Both(p1, tcp), r, e, lost)
<1>1. peer' = [peer EXCEPT ![r] = d.p] /\ tcp' = d.net
  BY DEF Becomes
<1>2. Kept(r, d.p, d.net)
  BY HandledKept
<1> HIDE DEF d
<1> QED
  BY <1>1, <1>2, PeerReplaced

\* What the first event and the others are.
LEMMA FirstEvent ==
  ASSUME NEW p \in PeerType, Shape(p), p.events # <<>>, NEW p1,
         p1 = [p EXCEPT !.events = Tail(@)], NEW e, e = Head(p.events)
  PROVE  e \in Event /\ Takes(p, p1, e)
<1>1. p.events \in Seq(Event)
  BY PeerParts
<1>2. e \in Event /\ e = p.events[1] /\ 1 \in 1..Len(p.events) /\ Tail(p.events) \in Seq(Event)
  BY <1>1
<1>3. /\ p1 \in PeerType /\ p1.status = p.status /\ p1.LocalAgent = p.LocalAgent
      /\ p1.obuf = p.obuf /\ p1.t_read = p.t_read /\ p1.t_write = p.t_write
      /\ p1.events = Tail(p.events)
  BY <1>2 DEF PeerType
<1>4. EventsFit(p) /\ (p.status = "Active" => p.LocalAgent = NoConn)
  BY DEF Shape
<1>5. OnlyStops(p1)
  <2> SUFFICES ASSUME NEW i \in 1..Len(Tail(p.events))
               PROVE  Tail(p.events)[i] = "Stop"
    BY <1>3 DEF OnlyStops
  <2>1. i + 1 \in 1..Len(p.events) /\ Tail(p.events)[i] = p.events[i + 1] /\ i + 1 # 1
    BY <1>1, TailAt
  <2> QED
    BY <2>1, <1>4 DEF EventsFit
<1>6. /\ e \notin FromTimer
      /\ e = "Open" => p.status = "Connect" /\ p.t_read = NoConn
      /\ e = "OpenFailed" => p.status = "Connect"
      /\ e \in FromRead => p.status # "Connect" /\ p.LocalAgent # NoConn
      /\ e \in FromRead \ {"ReceiveOpen"} => p.obuf = <<>>
      /\ e = "ReceiveOpen" => p.status # "OpenConfirm"
      /\ e = "ReceiveUpdate" => p.status = "Established"
  BY <1>2, <1>4 DEF EventsFit
<1>7. Fits(p.status, e)
  BY <1>4, <1>6 DEF Fits, FromTimer
<1>8. e \in {"Open", "ReceiveOpen", "ReceiveKeepalive"} => e \in Marks(p)
  BY <1>2 DEF Marks, Occurs
<1>9. "Closed" \in Marks(p) => e = "Closed"
  <2> HAVE "Closed" \in Marks(p)
  <2>1. PICK i \in 1..Len(p.events) : p.events[i] = "Closed"
    BY DEF Marks, Occurs
  <2>2. i = 1
    BY <2>1, <1>4 DEF EventsFit
  <2> QED
    BY <2>1, <2>2, <1>2
<1>10. Same(p, p1)
  BY <1>3 DEF Same
<1> QED
  BY <1>2, <1>5, <1>6, <1>7, <1>8, <1>9, <1>10 DEF Takes

\* An event of the peer.
LEMMA PeerEventPair ==
  ASSUME IInv, PairInv, NEW r \in Router, PeerEvent(r)
  PROVE  PairInv'
<1> DEFINE p == [peer[r] EXCEPT !.events = Tail(@)]
           e == Head(peer[r].events)
<1>1. peer[r] \in PeerType /\ Shape(peer[r]) /\ peer[r].events # <<>>
  BY OfRouter, OfPair DEF PeerEvent
<1>2. [Here(r) EXCEPT !.p.events = Tail(@)] = Both(p, tcp)
  <2>1. [Here(r) EXCEPT !.p.events = Tail(@)] =
          [Here(r) EXCEPT !.p = [Here(r).p EXCEPT !.events = Tail(@)]]
    OBVIOUS
  <2>2. [Here(r).p EXCEPT !.events = Tail(@)] = p
    BY HereWith
  <2> HIDE DEF p
  <2> QED
    BY <2>1, <2>2, HereWith
<1>3. PICK lost \in Lost : Becomes(r, Handled(Both(p, tcp), r, e, lost))
  BY <1>2 DEF PeerEvent
<1>4. Connects(peer[r].status, e) => used < MaxUse
  BY DEF PeerEvent, Use
<1>5. inbox' = inbox /\ accepted' = accepted
  BY DEF PeerEvent
<1>6. e \in Event /\ Takes(peer[r], p, e)
  BY <1>1, FirstEvent
<1>7. p.status = peer[r].status
  BY <1>6 DEF Takes, Same
<1> HIDE DEF p, e
<1> QED
  BY <1>3, <1>4, <1>5, <1>6, <1>7, HandledPair

\* A timer that is on in a status fits it.
LEMMA TimerFits ==
  ASSUME NEW s \in Status, NEW t \in TimersOf[s]
  PROVE  TimerEvent[t] \in FromTimer /\ Fits(s, TimerEvent[t])
BY DEF Status, TimersOf, TimerEvent, FromTimer, Fits, FromRead, Talks, Late

\* A timer of the peer.
LEMMA TimerExpiresPair ==
  ASSUME IInv, PairInv, NEW r \in Router, NEW t \in Timer, TimerExpires(r, t)
  PROVE  PairInv'
<1> DEFINE p == [peer[r] EXCEPT !.timers = @ \ {t}]
           e == TimerEvent[t]
<1>1. peer[r] \in PeerType /\ Shape(peer[r]) /\ peer[r].events = <<>> /\ t \in peer[r].timers
  BY OfRouter, OfPair DEF TimerExpires, NoEvent
<1>2. peer[r].status \in Status /\ t \in TimersOf[peer[r].status]
  BY <1>1, PeerParts DEF Shape
<1>3. /\ p \in PeerType /\ p.status = peer[r].status /\ p.LocalAgent = peer[r].LocalAgent
      /\ p.obuf = peer[r].obuf /\ p.t_read = peer[r].t_read /\ p.t_write = peer[r].t_write
      /\ p.events = <<>>
  BY <1>1 DEF PeerType
<1>4. [Here(r) EXCEPT !.p.timers = @ \ {t}] = Both(p, tcp)
  <2>1. [Here(r) EXCEPT !.p.timers = @ \ {t}] =
          [Here(r) EXCEPT !.p = [Here(r).p EXCEPT !.timers = @ \ {t}]]
    OBVIOUS
  <2>2. [Here(r).p EXCEPT !.timers = @ \ {t}] = p
    BY HereWith
  <2> HIDE DEF p
  <2> QED
    BY <2>1, <2>2, HereWith
<1>5. PICK lost \in Lost : Becomes(r, Handled(Both(p, tcp), r, e, lost))
  BY <1>4 DEF TimerExpires
<1>6. Connects(peer[r].status, e) => used < MaxUse
  BY DEF TimerExpires, Use
<1>7. inbox' = inbox /\ accepted' = accepted
  BY DEF TimerExpires
<1>8. e \in Event
  BY DEF TimerEvent, Event, Timer
<1>9. e \in FromTimer /\ Fits(peer[r].status, e)
  BY <1>2, TimerFits
<1> HIDE DEF p, e
<1>10. Marks(peer[r]) = {} /\ OnlyStops(p)
  BY <1>1, <1>3, EmptyHas DEF Marks, OnlyStops
<1>11. e \notin {"Open", "ReceiveOpen", "ReceiveKeepalive"} /\ e \notin FromRead
  BY <1>9 DEF FromTimer, FromRead
<1>12. Same(peer[r], p)
  BY <1>3 DEF Same
<1>13. Takes(peer[r], p, e)
  BY <1>9, <1>10, <1>11, <1>12 DEF Takes
<1> QED
  BY <1>3, <1>5, <1>6, <1>7, <1>8, <1>13, HandledPair

\* TCP_connection_open of a temporary peer.
LEMMA AcceptedEventPair ==
  ASSUME IInv, PairInv, NEW r \in Router, NEW c \in Conn, AcceptedEvent(r, c)
  PROVE  PairInv'
<1> DEFINE q == Other(r)
<1>1. q \in Router /\ q # r /\ q = Other(r)
  BY Others
<1>2. accepted' = [accepted EXCEPT ![r][c] = "OpenSent"] /\ accepted[r][c] = "Active"
  BY AcceptedOpens DEF AcceptedEvent
<1>3. peer' = peer /\ inbox' = inbox /\ tcp' = tcp
  BY DEF AcceptedEvent
<1>4. accepted \in [Router -> [Conn -> {"none", "Active", "OpenSent"}]]
  BY DEF IInv, AcceptedOK, AcceptedType
<1>5. /\ accepted'[q] = accepted[q]
      /\ \A d \in Conn : accepted'[r][d] = "none" <=> accepted[r][d] = "none"
  BY <1>1, <1>2, <1>4
<1>6. Shape(peer'[r]) /\ World(r, peer[r], accepted[r], inbox[r], tcp)
  BY <1>3, OfPair
<1>7. \A d \in Conn : End(peer[r], accepted'[r][d], d) = End(peer[r], accepted[r][d], d)
  BY <1>5, EndSame
<1>8. World(r, peer[r], accepted'[r], inbox[r], tcp)
  BY <1>6, <1>7 DEF World, At
<1> HIDE DEF q
<1>9. World(r, peer'[r], accepted'[r], inbox'[r], tcp')
  BY <1>3, <1>8
<1> QED
  BY <1>1, <1>3, <1>5, <1>6, <1>9, PairKept

\* `clear ip bgp' comes after the events that wait.
LEMMA ClearBgpPair ==
  ASSUME IInv, PairInv, NEW r \in Router, ClearBgp(r)
  PROVE  PairInv'
<1> DEFINE ev == Append(peer[r].events, "Stop")
           p == [peer[r] EXCEPT !.events = ev]
<1>1. peer[r] \in PeerType /\ Shape(peer[r])
  BY OfRouter, OfPair
<1>2. peer' = [peer EXCEPT ![r] = p] /\ inbox' = inbox /\ accepted' = accepted /\ tcp' = tcp
  BY DEF ClearBgp
<1>3. peer[r].events \in Seq(Event) /\ "Stop" \in Event
  BY <1>1, PeerParts DEF Event
<1>4. ev \in Seq(Event) /\ Longer(Event, peer[r].events, ev, "Stop")
  BY <1>3 DEF Longer
<1>5. \A i \in 1..Len(ev) : \/ i \in 1..Len(peer[r].events) /\ ev[i] = peer[r].events[i]
                            \/ ev[i] = "Stop"
  BY <1>3, AppendAt
<1> HIDE DEF ev
<1>6. /\ p \in PeerType /\ p.status = peer[r].status /\ p.LocalAgent = peer[r].LocalAgent
      /\ p.obuf = peer[r].obuf /\ p.t_read = peer[r].t_read /\ p.t_write = peer[r].t_write
      /\ p.events = ev /\ p.timers = peer[r].timers
  BY <1>1, <1>4 DEF PeerType
<1> HIDE DEF p
<1>7. EventsFit(p)
  <2>1. EventsFit(peer[r])
    BY <1>1 DEF Shape
  <2>2. "Stop" \notin FromTimer /\ "Stop" \notin FromRead
    BY DEF FromTimer, FromRead
  <2> SUFFICES ASSUME NEW i \in 1..Len(ev)
               PROVE  /\ ev[i] \notin FromTimer
                      /\ ev[i] # "Stop" => i = 1
                      /\ ev[i] = "Open" => p.status = "Connect" /\ p.t_read = NoConn
                      /\ ev[i] = "OpenFailed" => p.status = "Connect"
                      /\ ev[i] \in FromRead => p.status # "Connect" /\ p.LocalAgent # NoConn
                      /\ ev[i] \in FromRead \ {"ReceiveOpen"} => p.obuf = <<>>
                      /\ ev[i] = "ReceiveOpen" => p.status # "OpenConfirm"
                      /\ ev[i] = "ReceiveUpdate" => p.status = "Established"
    BY <1>6 DEF EventsFit
  <2>3. CASE ev[i] = "Stop"
    BY <2>2, <2>3
  <2>4. CASE i \in 1..Len(peer[r].events) /\ ev[i] = peer[r].events[i]
    BY <2>1, <2>4, <1>6 DEF EventsFit
  <2> QED
    BY <2>3, <2>4, <1>5
<1>8. BufferFits(p)
  BY <1>1, <1>6 DEF Shape, BufferFits
<1>9. Shape(p)
  BY <1>1, <1>6, <1>7, <1>8 DEF Shape
<1>10. Marks(p) = Marks(peer[r])
  <2>1. \A e, k : Occurs(ev, e) <=> Occurs(peer[r].events, e) \/ "Stop" = e
    BY <1>4, AppendHas
  <2>2. \A e \in {"Open", "ReceiveOpen", "ReceiveKeepalive", "Closed"} :
          Occurs(ev, e) <=> Occurs(peer[r].events, e)
    BY <2>1
  <2> QED
    BY <1>6, <2>2 DEF Marks
<1>11. \A c \in Conn : End(p, accepted[r][c], c) = End(peer[r], accepted[r][c], c)
  BY <1>6, <1>10, EndSame
<1>12. World(r, p, accepted[r], inbox[r], tcp)
  BY <1>11, OfPair DEF World, At
<1> QED
  BY <1>2, <1>9, <1>12, PeerReplaced DEF Kept

\* Only connection c changes, for router r.
LEMMA OneChanges ==
  ASSUME PairInv, NEW r \in Router, NEW q, q = Other(r), NEW c \in Conn, NEW net,
         Elsewhere(tcp, net, c),
         NEW acc, \A d \in Conn : d # c => acc[d] = accepted[r][d],
         Joint(End(peer[r], acc[c], c), End(peer[q], accepted[q][c], c), net[c],
               r, q, c, inbox[r], inbox[q])
  PROVE  World(r, peer[r], acc, inbox[r], net)
<1> SUFFICES ASSUME NEW d \in Conn
             PROVE  At(r, peer[r], acc[d], d, inbox[r], net[d])
  BY DEF World
<1>1. CASE d = c
  BY <1>1 DEF At
<1>2. CASE d # c
  <2>1. At(r, peer[r], accepted[r][d], d, inbox[r], tcp[d])
    BY OfPair DEF World
  <2> QED
    BY <1>2, <2>1 DEF Elsewhere
<1> QED
  BY <1>1, <1>2

\* The connection of a temporary peer has no other owner.
LEMMA Temporary ==
  ASSUME PairInv, NEW r \in Router, NEW c \in Conn, accepted[r][c] # "none",
         NEW q, q = Other(r)
  PROVE  /\ peer[r].LocalAgent # c \/ peer[r].status = "none"
         /\ peer[r].t_read # c /\ r \notin tcp[c].accept
         /\ Owned(End(peer[r], accepted[r][c], c), tcp[c], r)
         /\ End(peer[r], accepted[r][c], c).status = "none"
<1> DEFINE e == End(peer[r], accepted[r][c], c)
           f == End(peer[q], accepted[q][c], c)
<1>1. Joint(e, f, tcp[c], r, q, c, inbox[r], inbox[q])
  BY OfPair DEF World, At
<1>2. /\ peer[r].LocalAgent = c => e.status = peer[r].status
      /\ peer[r].t_read = c => "read" \in e.threads
      /\ "accepted" \in e.threads
  BY EndIs
<1> HIDE DEF e, f
<1>3. e.status = "none" /\ "read" \notin e.threads /\ r \notin tcp[c].accept
  BY <1>1, <1>2 DEF Joint, Side, Owner
<1>4. Owned(e, tcp[c], r)
  BY <1>2 DEF Owned
<1> QED
  BY <1>2, <1>3, <1>4 DEF e

\* The hold timer of a temporary peer.
LEMMA AcceptedHoldExpiresPair ==
  ASSUME IInv, PairInv, NEW r \in Router, NEW c \in Conn, AcceptedHoldExpires(r, c)
  PROVE  PairInv'
<1> DEFINE q == Other(r)
           net == IF CanSend(tcp, r, c) THEN Sent(tcp, r, c, "Notification") ELSE tcp
           e == End(peer[r], accepted[r][c], c)
           f == End(peer[q], accepted[q][c], c)
           e2 == End(peer[r], accepted'[r][c], c)
           box == inbox[r]
           qbox == inbox[q]
<1>1. /\ NetOK(tcp, used) /\ AcceptedOK(accepted, tcp) /\ used \in Nat
      /\ peer[r] \in PeerType
  BY OfRouter
<1>2. /\ accepted[r][c] = "OpenSent" /\ accepted' = [accepted EXCEPT ![r][c] = "none"]
      /\ peer' = peer /\ inbox' = inbox
  BY DEF AcceptedHoldExpires
<1>3. PICK lost \in Lost : tcp' = Hangup(net, r, c, lost)
  BY DEF AcceptedHoldExpires
<1>4. q = Other(r) /\ q \in Router /\ q # r /\ lost \in Nat /\ c \in MaybeConn /\ c # NoConn
  BY Others, LostType DEF MaybeConn, Conn, NoConn
<1>5. tcp[c].state[r] \in {"up", "closed"}
  BY <1>1, <1>2 DEF AcceptedOK, Reached
<1>6. Joint(e, f, tcp[c], r, q, c, box, qbox)
  BY OfPair DEF World, At
<1>7. Alerting(tcp, r, q, c, net)
  BY DEF Alerting
<1>8. /\ peer[r].LocalAgent # c \/ peer[r].status = "none"
      /\ peer[r].t_read # c /\ r \notin tcp[c].accept
      /\ Owned(e, tcp[c], r) /\ e.status = "none"
  BY <1>2, <1>4, Temporary
<1>9. accepted'[q] = accepted[q] /\ accepted'[r][c] = "none"
      /\ \A d \in Conn : d # c => accepted'[r][d] = accepted[r][d]
  BY <1>1, <1>2, <1>4 DEF AcceptedOK, AcceptedType
<1>10. peer[r].status # "none"
  BY <1>1, PeerParts DEF Status
<1>11. Nothing(e2)
  BY <1>8, <1>9, <1>10, EndIs DEF Nothing
<1> HIDE DEF q, net, e, f, e2, box, qbox
<1>12. /\ Joint(e, f, net[c], r, q, c, box, qbox)
       /\ NetStep(tcp, net, used) /\ net[c].state = tcp[c].state
       /\ Elsewhere(tcp, net, c)
  BY <1>1, <1>6, <1>7, Alerted
<1>13. NetOK(net, used)
  BY <1>12 DEF NetStep
<1>14. r \notin net[c].accept /\ Owned(e, net[c], r)
  <2>1. "accepted" \in e.threads
    BY <1>2, EndIs DEF e
  <2> QED
    BY <2>1, <1>12 DEF Joint, Side, Owner, Owned
<1>15. /\ ShutBy(net[c], tcp'[c], r, Other(r))
       /\ Elsewhere(net, tcp', c)
  <2> DEFINE net2 == Hangup(net, r, c, lost)
  <2>1. /\ c # NoConn /\ r \notin net[c].accept => ShutBy(net[c], net2[c], r, Other(r))
        /\ Elsewhere(net, net2, c)
    BY <1>1, <1>4, <1>13, HangupAt
  <2> QED
    BY <1>3, <1>4, <1>14, <2>1
<1>16. ShutBy(net[c], tcp'[c], r, q)
  BY <1>4, <1>15
<1>17. net[c].state[r] \in Sides \ {"none"} /\ net[c].state[r] # "opening"
  BY <1>5, <1>12 DEF Sides
<1>18. LessCame(c, box, box)
  BY DEF LessCame
<1>19. Joint(e2, f, tcp'[c], r, q, c, box, qbox)
  BY <1>11, <1>12, <1>14, <1>16, <1>17, <1>18, Hangs
<1>20. World(r, peer[r], accepted'[r], inbox[r], tcp')
  <2>1. Elsewhere(tcp, tcp', c)
    BY <1>12, <1>15 DEF Elsewhere
  <2>2. Joint(End(peer[r], accepted'[r][c], c), End(peer[q], accepted[q][c], c), tcp'[c],
              r, q, c, inbox[r], inbox[q])
    BY <1>19 DEF e2, f, box, qbox
  <2> QED
    BY <1>4, <1>9, <2>1, <2>2, OneChanges
<1>21. Shape(peer'[r]) /\ World(r, peer'[r], accepted'[r], inbox'[r], tcp')
  BY <1>2, <1>20, OfPair
<1> QED
  BY <1>2, <1>4, <1>9, <1>21, PairKept

\* bgp_write has taken the first message from the buffer.
LEMMA TailFits ==
  ASSUME NEW p \in PeerType, BufferFits(p), p.obuf # <<>>, NEW p2,
         p2.obuf = Tail(p.obuf), Len(p.obuf) > 1 => p2.t_write, p2.status = p.status
  PROVE  BufferFits(p2)
<1>1. p.obuf \in Seq(Message) /\ Len(p.obuf) \in Nat /\ Len(p.obuf) >= 1
  BY PeerParts
<1>2. Len(p2.obuf) = Len(p.obuf) - 1 /\ (p2.obuf # <<>> => Len(p.obuf) > 1)
  BY <1>1
<1>3. \A i \in 1..Len(p2.obuf) : /\ i + 1 \in 1..Len(p.obuf) /\ i + 1 # 1
                                 /\ p2.obuf[i] = p.obuf[i + 1]
  BY <1>1, TailAt
<1>4. p2.obuf # <<>> => p2.t_write
  BY <1>2
<1>5. p2.status \in Talks
  BY DEF BufferFits
<1>6. \A i \in 1..Len(p2.obuf) :
        /\ p2.obuf[i] = "Open" => i = 1
        /\ p2.obuf[i] # "Open" => p2.status \in Late
        /\ p2.obuf[i] = "Update" => p2.status = "Established"
  BY <1>3 DEF BufferFits
<1> QED
  BY <1>4, <1>5, <1>6 DEF BufferFits

\* bgp_write has nothing to send.
LEMMA RestingPair ==
  ASSUME IInv, PairInv, NEW r \in Router, peer[r].status = "Connect" \/ peer[r].obuf = <<>>,
         Becomes(r, Both(Resting(r), tcp)), accepted' = accepted, inbox' = inbox
  PROVE  PairInv'
<1> DEFINE p == Resting(r)
<1>1. peer[r] \in PeerType /\ Shape(peer[r])
  BY OfRouter, OfPair
<1>2. /\ p.status = peer[r].status /\ p.LocalAgent = peer[r].LocalAgent
      /\ p.obuf = peer[r].obuf /\ p.t_read = peer[r].t_read /\ p.events = peer[r].events
      /\ p.timers = peer[r].timers
  BY <1>1 DEF PeerType, Resting
<1>3. peer' = [peer EXCEPT ![r] = p] /\ tcp' = tcp
  BY BothIs DEF Becomes
<1> HIDE DEF p
<1>4. peer[r].obuf = <<>>
  BY <1>1 DEF Shape, BufferFits, Talks
<1>5. Marks(p) = Marks(peer[r])
  BY <1>2 DEF Marks
<1>6. Shape(p)
  <2>1. EventsFit(p)
    BY <1>1, <1>2 DEF Shape, EventsFit
  <2>2. BufferFits(p)
    BY <1>2, <1>4 DEF BufferFits
  <2> QED
    BY <1>1, <1>2, <2>1, <2>2 DEF Shape
<1>7. ASSUME NEW q, NEW c, NEW e, NEW f, Ends(r, q, c, e, f)
      PROVE  Joint(End(p, accepted[r][c], c), f, tcp[c], r, q, c, inbox[r], inbox[q])
  <2> DEFINE e2 == End(p, accepted[r][c], c)
             t == tcp[c]
             box == inbox[r]
             qbox == inbox[q]
  <2>1. /\ Joint(e, f, t, r, q, c, box, qbox)
        /\ e.status = peer[r].status /\ e.buf = peer[r].obuf /\ e.marks = Marks(peer[r])
        /\ "read" \in e.threads <=> peer[r].t_read = c
        /\ accepted[r][c] = "none" /\ "accepted" \notin e.threads
    BY <1>7, EndsAre
  <2>2. /\ e2.status = p.status /\ e2.buf = p.obuf /\ e2.marks = Marks(p)
        /\ "read" \in e2.threads <=> p.t_read = c
        /\ "accepted" \notin e2.threads
    BY <1>2, <1>7, <2>1, EndThen
  <2> HIDE DEF e2, t, box, qbox
  <2>3. /\ e2.status = e.status /\ e2.buf = e.buf /\ e2.marks = e.marks /\ e.buf = <<>>
        /\ "accepted" \in e2.threads <=> "accepted" \in e.threads
        /\ "read" \in e2.threads <=> "read" \in e.threads
    BY <1>2, <1>4, <1>5, <2>1, <2>2
  <2>4. Joint(e2, f, t, r, q, c, box, qbox)
    BY <2>1, <2>3, Rests
  <2> QED
    BY <2>4 DEF e2, t, box, qbox
<1>8. Kept(r, p, tcp)
  BY <1>2, <1>6, <1>7, OwnKept
<1> QED
  BY <1>3, <1>8, PeerReplaced

\* bgp_write sends.
LEMMA SendingPair ==
  ASSUME IInv, PairInv, NEW r \in Router, peer[r].obuf # <<>>, peer[r].events = <<>>,
         CanSend(tcp, r, peer[r].LocalAgent), Becomes(r, Sending(r)),
         accepted' = accepted, inbox' = inbox
  PROVE  PairInv'
<1> DEFINE p0 == Resting(r)
           b == Len(peer[r].obuf) > 1
           p == [p0 EXCEPT !.obuf = Tail(@), !.t_write = b]
           l == peer[r].LocalAgent
           m == Head(peer[r].obuf)
           net == Sent(tcp, r, l, m)
<1>1. /\ peer[r] \in PeerType /\ Shape(peer[r]) /\ Connected(peer[r]) /\ NetOK(tcp, used)
      /\ used \in Nat /\ b \in BOOLEAN
  BY OfRouter, OfPair
<1>2. /\ p0 \in PeerType /\ p0.status = peer[r].status /\ p0.LocalAgent = l
      /\ p0.obuf = peer[r].obuf /\ p0.t_read = peer[r].t_read /\ p0.events = peer[r].events
      /\ p0.timers = peer[r].timers
  BY <1>1 DEF PeerType, Resting
<1>3. peer' = [peer EXCEPT ![r] = p] /\ tcp' = net
  BY DEF Becomes, Sending
<1>4. m \in Message /\ Tail(p0.obuf) \in Seq(Message) /\ l \in Conn
  <2>1. peer[r].obuf \in Seq(Message) /\ l \in MaybeConn /\ l # NoConn
    BY <1>1, PeerParts DEF Connected
  <2> QED
    BY <1>2, <2>1, SeqTailHead DEF MaybeConn
<1> HIDE DEF p0, b
<1>5. /\ p.status = peer[r].status /\ p.LocalAgent = l
      /\ p.obuf = Tail(peer[r].obuf) /\ p.t_read = peer[r].t_read /\ p.events = <<>>
      /\ p.timers = peer[r].timers /\ p.t_write = b
  BY <1>1, <1>2, <1>4 DEF PeerType
<1>6. tcp[l].state[r] = "up"
  BY DEF CanSend
<1> HIDE DEF p, m, net
<1>7. Marks(p) = Marks(peer[r])
  BY <1>5 DEF Marks
<1>8. Shape(p)
  <2>1. EventsFit(p)
    BY <1>5 DEF EventsFit
  <2>2. BufferFits(peer[r])
    BY <1>1 DEF Shape
  <2>3. Len(peer[r].obuf) > 1 => p.t_write
    BY <1>5 DEF b
  <2>4. BufferFits(p)
    BY <1>1, <1>5, <2>2, <2>3, TailFits
  <2> QED
    BY <1>1, <1>5, <2>1, <2>4 DEF Shape
<1>9. ASSUME NEW q, NEW c, NEW e, NEW f, Ends(r, q, c, e, f)
      PROVE  Joint(End(p, accepted[r][c], c), f, net[c], r, q, c, inbox[r], inbox[q])
  <2> DEFINE e2 == End(p, accepted[r][c], c)
             t == tcp[c]
             t2 == net[c]
             box == inbox[r]
             qbox == inbox[q]
  <2>1. /\ Joint(e, f, t, r, q, c, box, qbox) /\ EndFits(e)
        /\ e.status = peer[r].status /\ e.buf = peer[r].obuf /\ e.marks = Marks(peer[r])
        /\ "read" \in e.threads <=> peer[r].t_read = c
        /\ accepted[r][c] = "none" /\ "accepted" \notin e.threads
    BY <1>9, EndsAre
  <2>2. /\ e2.status = p.status /\ e2.buf = p.obuf /\ e2.marks = Marks(p)
        /\ "read" \in e2.threads <=> p.t_read = c
        /\ "accepted" \notin e2.threads
    BY <1>5, <1>9, <2>1, EndThen
  <2>3. c \in Conn /\ c = l /\ Sends(tcp, r, q, c, m, net)
    BY <1>9 DEF Ends, Sends, net
  <2>9. Carries(t, t2, r, q, m)
    BY <1>1, <1>4, <2>3, SentAt
  <2>4. /\ t2.state = t.state /\ t2.accept = t.accept /\ t2.wire[r] = t.wire[r]
        /\ t2.wire[q] = Append(t.wire[q], m) /\ t.wire[q] \in Seq(Wires)
    BY <2>9 DEF Carries
  <2>5. t.state[r] = "up"
    BY <1>6, <2>3
  <2> HIDE DEF e2, t, t2, box, qbox, l
  <2>6. /\ e2.status = e.status /\ e2.buf = Tail(e.buf) /\ e2.marks = e.marks /\ e.buf # <<>>
        /\ "accepted" \in e2.threads <=> "accepted" \in e.threads
        /\ "read" \in e2.threads <=> "read" \in e.threads
    BY <1>5, <1>7, <2>1, <2>2
  <2>7. t2.wire[q] = Append(t.wire[q], Head(e.buf))
    BY <2>1, <2>4 DEF m
  <2>8. Joint(e2, f, t2, r, q, c, box, qbox)
    BY <2>1, <2>4, <2>5, <2>6, <2>7, Writes
  <2> QED
    BY <2>8 DEF e2, t2, box, qbox
<1>10. \A d \in Conn : d # l => net[d] = tcp[d]
  <2> DEFINE q == Other(r)
  <2>1. Sends(tcp, r, q, l, m, net)
    BY DEF Sends, net
  <2> HIDE DEF q, l
  <2>2. Elsewhere(tcp, net, l)
    BY <1>1, <1>4, <2>1, SentAt
  <2> QED
    BY <2>2 DEF Elsewhere
<1>11. Kept(r, p, net)
  BY <1>5, <1>8, <1>9, <1>10, OwnKept DEF l
<1> QED
  BY <1>3, <1>11, PeerReplaced

\* bgp_write fails.
LEMMA FailsPair ==
  ASSUME IInv, PairInv, NEW r \in Router, FailsToSend(r), accepted' = accepted, inbox' = inbox
  PROVE  PairInv'
<1>1. PICK lost \in Lost : Becomes(r, Failed(Both(Resting(r), tcp), r, lost))
  BY DEF FailsToSend
<1> DEFINE p0 == Resting(r)
           d == Failed(Both(p0, tcp), r, lost)
<1>2. /\ peer[r] \in PeerType /\ Shape(peer[r]) /\ InUse(peer[r], tcp, r) /\ NetOK(tcp, used)
      /\ used \in Nat /\ World(r, peer[r], accepted[r], inbox[r], tcp) /\ lost \in Nat
  BY OfRouter, OfPair, LostType
<1>3. p0 \in PeerType /\ p0.LocalAgent = peer[r].LocalAgent
  BY <1>2 DEF PeerType, Resting
<1>4. peer' = [peer EXCEPT ![r] = d.p] /\ tcp' = d.net
  BY <1>1 DEF Becomes
<1> HIDE DEF p0
<1>5. /\ d.p.status = "Idle" /\ d.p.LocalAgent = NoConn /\ d.p.t_read = NoConn
      /\ d.p.obuf = <<>> /\ d.p.timers = {"start"} /\ d.p.events = <<>>
      /\ d.net = Hangup(tcp, r, p0.LocalAgent, lost)
  BY <1>3, FailedIs
<1>6. World(r, d.p, accepted[r], inbox[r], d.net)
  BY <1>2, <1>3, <1>5, Released
<1>7. Shape(d.p)
  <2>1. d.p.timers \subseteq TimersOf[d.p.status] /\ d.p.status # "Active"
    BY <1>5 DEF TimersOf
  <2> QED
    BY <1>5, <2>1, QuietShape
<1> HIDE DEF d
<1> QED
  BY <1>4, <1>6, <1>7, PeerReplaced DEF Kept

\* bgp_write.
LEMMA WritePair ==
  ASSUME IInv, PairInv, NEW r \in Router, Write(r)
  PROVE  PairInv'
<1>1. \/ /\ peer[r].status = "Connect" \/ peer[r].obuf = <<>>
         /\ Becomes(r, Both(Resting(r), tcp))
      \/ /\ peer[r].obuf # <<>> /\ CanSend(tcp, r, peer[r].LocalAgent)
         /\ Becomes(r, Sending(r))
      \/ FailsToSend(r)
  BY WriteIs
<1>2. accepted' = accepted /\ inbox' = inbox /\ peer[r].events = <<>>
  BY DEF Write, NoEvent
<1> QED
  BY <1>1, <1>2, RestingPair, SendingPair, FailsPair

-----------------------------------------------------------------------------
(***************************************************************************)
(* Interrupts.                                                             *)
(***************************************************************************)
\* Router r handles its first interrupt, m on connection c.
Interrupted(r, c, m) ==
  /\ Waiting(r) /\ inbox[r] # <<>>
  /\ inbox' = [inbox EXCEPT ![r] = Tail(@)]
  /\ c = Head(inbox[r])[1] /\ m = Head(inbox[r])[2]

\* A peer that waits has nothing to do and nothing to write.
LEMMA WaitingIsQuiet ==
  ASSUME IInv, PairInv, NEW r \in Router, Waiting(r)
  PROVE  peer[r].events = <<>> /\ peer[r].obuf = <<>> /\ Marks(peer[r]) = {}
<1>1. peer[r].events = <<>> /\ ~peer[r].t_write
  BY DEF Waiting, NoEvent
<1>2. BufferFits(peer[r])
  BY OfPair DEF Shape
<1>3. peer[r].obuf # <<>> => peer[r].t_write
  BY <1>2 DEF BufferFits
<1>4. peer[r].obuf = <<>>
  BY <1>1, <1>3, Zenon
<1>5. peer[r].events = <<>>
  BY <1>1
<1> QED
  BY <1>4, <1>5, EmptyHas DEF Marks

LEMMA NextOne ==
  ASSUME IInv, PairInv, NEW r \in Router, NEW q, q = Other(r), NEW c, NEW m,
         Interrupted(r, c, m), NEW box2, box2 = Tail(inbox[r])
  PROVE  /\ c \in Conn /\ m \in Message \cup {"Zero"} /\ Reached(tcp, r, c)
         /\ Handling(inbox[r], box2, c, m)
         /\ inbox'[r] = box2 /\ inbox'[q] = inbox[q]
<1>1. InboxOK(inbox, tcp) /\ inbox[r] # <<>>
  BY OfRouter DEF Interrupted
<1>2. c = Head(inbox[r])[1] /\ m = Head(inbox[r])[2]
  BY DEF Interrupted
<1>3. c \in Conn /\ m \in Message \cup {"Zero"} /\ Reached(tcp, r, c)
  BY <1>1, <1>2, InboxHead
<1>4. inbox[r] \in Seq(Interrupts) /\ inbox \in [Router -> Seq(Interrupts)]
  BY <1>1 DEF InboxOK, InboxType, Interrupts
<1>5. Head(inbox[r]) \in Interrupts
  BY <1>1, <1>4
<1>6. Head(inbox[r]) = <<c, m>>
  BY <1>2, <1>5 DEF Interrupts
<1>7. q \in Router /\ q # r
  BY Others
<1>8. inbox'[r] = box2 /\ inbox'[q] = inbox[q]
  BY <1>4, <1>7 DEF Interrupted
<1> QED
  BY <1>1, <1>3, <1>4, <1>6, <1>8 DEF Handling

\* What is left of a connection when its first interrupt, or one of another, is handled.
LEMMA HandlingCame ==
  ASSUME NEW box, NEW box2, NEW c, NEW m, Handling(box, box2, c, m), NEW d \in Conn
  PROVE  /\ LessCame(d, box, box2)
         /\ d # c => SameCame(d, box, box2)
<1>1. /\ \A k : Came(box, d, k) <=> (c = d /\ m = k) \/ Came(box2, d, k)
      /\ CameOnce(box, d) => CameOnce(box2, d)
      /\ CameTwice(box, d) /\ ~(c = d /\ m = "Zero") => CameTwice(box2, d)
      /\ CameInOrder(box, d) /\ ~(c = d /\ m = "Keepalive") => CameInOrder(box2, d)
  BY BoxTail
<1> QED
  BY <1>1 DEF LessCame, SameCame

\* The ends of the other connections are what they were.
SameEnds(p, p2, c) == \A a : \A d \in Conn : d # c => End(p2, a, d) = End(p, a, d)

LEMMA EndsApart ==
  ASSUME NEW p, NEW p2, NEW c, p.LocalAgent \in {c, NoConn}, p2.LocalAgent = c,
         p.t_read \in {c, NoConn}, p2.t_read \in {c, NoConn}
  PROVE  SameEnds(p, p2, c)
<1> SUFFICES ASSUME NEW d \in Conn, NEW a, d # c
             PROVE  End(p2, a, d) = End(p, a, d)
  BY DEF SameEnds
<1>1. d # NoConn
  BY DEF Conn, NoConn
<1>2. p.LocalAgent # d /\ p2.LocalAgent # d /\ p.t_read # d /\ p2.t_read # d
  BY <1>1
<1> QED
  BY <1>2 DEF End

\* An interrupt of connection c changes the end of c only.
LEMMA HeardAt ==
  ASSUME NEW x, NEW p, NEW p2, NEW acc, NEW acc2, NEW box, NEW box2, NEW net, NEW net2,
         NEW c \in Conn, NEW m, World(x, p, acc, box, net), Handling(box, box2, c, m),
         SameEnds(p, p2, c), Elsewhere(net, net2, c), Elsewhere(acc, acc2, c),
         At(x, p2, acc2[c], c, box2, net2[c])
  PROVE  World(x, p2, acc2, box2, net2)
<1> SUFFICES ASSUME NEW d \in Conn, d # c
             PROVE  At(x, p2, acc2[d], d, box2, net2[d])
  BY DEF World
<1> DEFINE q == Other(x)
           e == End(p, acc[d], d)
           f == End(peer[q], accepted[q][d], d)
           t == net[d]
           qbox == inbox[q]
<1>1. Joint(e, f, t, x, q, d, box, qbox)
  BY DEF World, At
<1>2. SameCame(d, box, box2)
  BY HandlingCame
<1>3. e = End(p2, acc2[d], d) /\ t = net2[d]
  BY DEF SameEnds, Elsewhere
<1> HIDE DEF q, e, f, t, qbox
<1>4. Joint(e, f, t, x, q, d, box2, qbox)
  BY <1>1, <1>2, Skips
<1> QED
  BY <1>3, <1>4 DEF At, q, f, qbox

\* The interrupt that thread_fetch_part2 loses.
LEMMA IgnorePair ==
  ASSUME IInv, PairInv, NEW r \in Router, NEW c, NEW m, Interrupted(r, c, m), Ignore(r, c)
  PROVE  PairInv'
<1> DEFINE q == Other(r)
           box == inbox[r]
           qbox == inbox[q]
           box2 == Tail(inbox[r])
           e == End(peer[r], accepted[r][c], c)
           f == End(peer[q], accepted[q][c], c)
           t == tcp[c]
<1>1. q = Other(r) /\ q \in Router
  BY Others
<1>2. /\ c \in Conn /\ Reached(tcp, r, c) /\ Handling(box, box2, c, m)
      /\ inbox'[r] = box2 /\ inbox'[q] = inbox[q]
  BY <1>1, NextOne
<1>3. /\ peer' = peer /\ accepted' = accepted /\ tcp' = tcp
      /\ r \notin t.accept /\ accepted[r][c] = "none" /\ peer[r].t_read # c
  BY DEF Ignore, NoReader
<1>4. Shape(peer[r]) /\ World(r, peer[r], accepted[r], inbox[r], tcp)
  BY OfPair
<1>5. peer[r].events = <<>> /\ peer[r].obuf = <<>> /\ Marks(peer[r]) = {}
  BY WaitingIsQuiet DEF Interrupted
<1>6. Joint(e, f, t, r, q, c, box, qbox)
  BY <1>2, <1>4 DEF World, At
<1>7. e.marks = {} /\ e.buf = <<>> /\ "read" \notin e.threads /\ "accepted" \notin e.threads
  BY <1>3, <1>5, EndIs
<1>8. LessCame(c, box, box2)
  BY <1>2, HandlingCame
<1> HIDE DEF q, box, qbox, box2, e, f, t
<1>9. e.status \notin Talks
  BY <1>6, <1>7 DEF Joint, Side, Hears
<1>10. Joint(e, f, t, r, q, c, box2, qbox)
  BY <1>3, <1>6, <1>7, <1>8, <1>9, Skips
<1>11. At(r, peer[r], accepted[r][c], c, box2, tcp[c])
  BY <1>10 DEF At, q, e, f, t, qbox
<1>12. SameEnds(peer[r], peer[r], c) /\ Elsewhere(tcp, tcp, c)
       /\ Elsewhere(accepted[r], accepted[r], c)
  BY DEF SameEnds, Elsewhere
<1>13. World(r, peer[r], accepted[r], box2, tcp)
  BY <1>2, <1>4, <1>11, <1>12, HeardAt DEF box
<1> QED
  BY <1>1, <1>2, <1>3, <1>4, <1>13, PairKept

\* The thread of bgp_accept has no rival.
LEMMA Accepting ==
  ASSUME NEW r \in Router, NEW q, q = Other(r), NEW t \in TcpType, r \in t.accept,
         NEW p \in PeerType, Marks(p) = {}, NEW a, NEW c, NEW e, e = End(p, a, c),
         NEW f, NEW box, NEW qbox, Joint(e, f, t, r, q, c, box, qbox)
  PROVE  t.accept = {r} /\ Nothing(e) /\ p.LocalAgent # c
<1>1. Owner(e, t, r, q)
  BY DEF Joint, Side
<1>2. /\ e.status = "none" /\ "read" \notin e.threads /\ "accepted" \notin e.threads
      /\ q \notin t.accept
  BY <1>1 DEF Owner
<1>3. p.LocalAgent # c
  <2>1. p.status # "none"
    BY PeerParts DEF Status
  <2> QED
    BY <2>1, <1>2, EndIs
<1>4. Nothing(e)
  BY <1>2, <1>3, EndIs DEF Nothing
<1>5. t.accept \subseteq Router
  BY ConnParts
<1>6. t.accept = {r}
  BY <1>2, <1>5, Others
<1> QED
  BY <1>3, <1>4, <1>6

\* bgp_accept closes the connection, or has a temporary peer for it.
Declined(t, t2, r) == \E lost \in Lost : t2 = Closed([t EXCEPT !.accept = {}], r, lost)

LEMMA AcceptedIs ==
  ASSUME IInv, NEW r \in Router, NEW c \in Conn, Accept(r, c)
  PROVE  /\ Elsewhere(tcp, tcp', c) /\ Elsewhere(accepted[r], accepted'[r], c)
         /\ peer' = peer /\ accepted'[Other(r)] = accepted[Other(r)] /\ r \in tcp[c].accept
         /\ \/ accepted' = accepted /\ Declined(tcp[c], tcp'[c], r)
            \/ /\ accepted'[r][c] = "Active"
               /\ tcp'[c].state = tcp[c].state /\ tcp'[c].wire = tcp[c].wire
               /\ tcp'[c].accept = {}
<1> DEFINE t1 == [tcp[c] EXCEPT !.accept = {}]
           net == [tcp EXCEPT ![c] = t1]
           ms == t1.m_msgs \cup {Other(r)}
           t2 == [t1 EXCEPT !.m_msgs = ms]
<1>1. /\ tcp \in [Conn -> TcpType] /\ tcp[c] \in TcpType
      /\ accepted \in [Router -> [Conn -> {"none", "Active", "OpenSent"}]]
  BY OfRouter DEF NetOK, Net, AcceptedOK, AcceptedType
<1>2. /\ peer' = peer /\ r \in tcp[c].accept
      /\ \/ accepted' = accepted /\ \E lost \in Lost : tcp' = Close(net, r, c, lost)
         \/ /\ accepted' = [accepted EXCEPT ![r][c] = "Active"]
            /\ tcp' = [net EXCEPT ![c].m_msgs = @ \cup {Other(r)}]
  BY DEF Accept
<1>3. t1.state = tcp[c].state /\ t1.wire = tcp[c].wire /\ t1.accept = {}
  BY <1>1 DEF TcpType
<1>4. t2.state = t1.state /\ t2.wire = t1.wire /\ t2.accept = t1.accept
  BY <1>1 DEF TcpType
<1>5. Other(r) \in Router /\ Other(r) # r
  BY Others
<1> HIDE DEF t1, ms
<1>6. net[c] = t1 /\ Elsewhere(tcp, net, c) /\ DOMAIN net = Conn
  BY <1>1 DEF Elsewhere
<1> HIDE DEF net
<1>7. CASE accepted' = accepted /\ \E lost \in Lost : tcp' = Close(net, r, c, lost)
  <2>1. PICK lost \in Lost : tcp' = [net EXCEPT ![c] = Closed(t1, r, lost)]
    BY <1>6, <1>7 DEF Close
  <2>2. tcp'[c] = Closed(t1, r, lost) /\ Elsewhere(net, tcp', c)
    BY <1>6, <2>1 DEF Elsewhere
  <2>5. Declined(tcp[c], tcp'[c], r)
    BY <2>2 DEF Declined, t1
  <2>3. Elsewhere(tcp, tcp', c) /\ Elsewhere(accepted[r], accepted'[r], c)
    BY <1>6, <1>7, <2>2 DEF Elsewhere
  <2>4. accepted'[Other(r)] = accepted[Other(r)]
    BY <1>7
  <2> QED
    BY <1>2, <1>7, <2>3, <2>4, <2>5
<1>8. CASE /\ accepted' = [accepted EXCEPT ![r][c] = "Active"]
           /\ tcp' = [net EXCEPT ![c].m_msgs = @ \cup {Other(r)}]
  <2>1. tcp' = [net EXCEPT ![c] = t2]
    BY <1>6, <1>8 DEF ms
  <2> HIDE DEF t2
  <2>2. tcp'[c] = t2 /\ Elsewhere(net, tcp', c)
    BY <1>6, <2>1 DEF Elsewhere
  <2>3. Elsewhere(tcp, tcp', c)
    BY <1>6, <2>2 DEF Elsewhere
  <2>4. /\ Elsewhere(accepted[r], accepted'[r], c) /\ accepted'[r][c] = "Active"
        /\ accepted'[Other(r)] = accepted[Other(r)]
    BY <1>1, <1>5, <1>8 DEF Elsewhere
  <2> QED
    BY <1>2, <1>3, <1>4, <2>2, <2>3, <2>4
<1> QED
  BY <1>2, <1>7, <1>8

\* bgp_accept.
LEMMA AcceptPair ==
  ASSUME IInv, PairInv, NEW r \in Router, NEW c, NEW m, Interrupted(r, c, m), Accept(r, c)
  PROVE  PairInv'
<1> DEFINE q == Other(r)
           box == inbox[r]
           qbox == inbox[q]
           box2 == Tail(inbox[r])
           p == peer[r]
           e == End(p, accepted[r][c], c)
           f == End(peer[q], accepted[q][c], c)
           t == tcp[c]
           t2 == tcp'[c]
           e2 == End(p, accepted'[r][c], c)
<1>1. q = Other(r) /\ q \in Router /\ q # r
  BY Others
<1>2. /\ c \in Conn /\ Reached(tcp, r, c) /\ Handling(box, box2, c, m)
      /\ inbox'[r] = box2 /\ inbox'[q] = inbox[q]
  BY <1>1, NextOne
<1>3. /\ Elsewhere(tcp, tcp', c) /\ Elsewhere(accepted[r], accepted'[r], c)
      /\ peer' = peer /\ accepted'[q] = accepted[q] /\ r \in t.accept
      /\ \/ accepted' = accepted /\ Declined(t, t2, r)
         \/ /\ accepted'[r][c] = "Active"
            /\ t2.state = t.state /\ t2.wire = t.wire /\ t2.accept = {}
  BY <1>1, <1>2, AcceptedIs
<1>4. Shape(p) /\ World(r, p, accepted[r], box, tcp) /\ p \in PeerType /\ Marks(p) = {}
  BY OfPair, OfRouter, WaitingIsQuiet DEF Interrupted
<1>5. Joint(e, f, t, r, q, c, box, qbox)
  BY <1>2, <1>4 DEF World, At
<1>6. t \in TcpType /\ t.state[r] \in {"up", "closed"}
  BY <1>2, OfRouter DEF NetOK, Net, Reached
<1> HIDE DEF q, box, qbox, box2, f, t, t2, p
<1>7. t.accept = {r} /\ Nothing(e) /\ p.LocalAgent # c
  BY <1>1, <1>3, <1>4, <1>5, <1>6, Accepting
<1>8. LessCame(c, box, box2)
  BY <1>2, HandlingCame
<1>9. /\ e2.status = e.status /\ e2.buf = e.buf /\ e2.marks = e.marks
      /\ "read" \in e2.threads <=> "read" \in e.threads
      /\ accepted'[r][c] # "none" => "accepted" \in e2.threads
      /\ accepted' = accepted => e2 = e
  <2>1. /\ e.status = "none" /\ e.buf = <<>> /\ e.marks = {}
        /\ "read" \in e.threads <=> p.t_read = c
    BY <1>7, EndIs
  <2>2. /\ e2.status = "none" /\ e2.buf = <<>> /\ e2.marks = {}
        /\ "read" \in e2.threads <=> p.t_read = c
        /\ "accepted" \in e2.threads <=> accepted'[r][c] # "none"
    BY <1>7, EndIs
  <2>3. accepted' = accepted => e2 = e
    OBVIOUS
  <2> HIDE DEF e, e2
  <2> QED
    BY <2>1, <2>2, <2>3
<1> HIDE DEF e, e2
<1>10. Joint(e2, f, t2, r, q, c, box2, qbox)
  <2>1. CASE accepted' = accepted /\ Declined(t, t2, r)
    <3> DEFINE t1 == [t EXCEPT !.accept = {}]
    <3>4. PICK lost \in Lost : t2 = Closed(t1, r, lost)
      BY <2>1 DEF Declined
    <3>5. t1.state = t.state /\ t1.wire = t.wire /\ t1.accept = {}
      BY <1>6 DEF TcpType
    <3> HIDE DEF t1
    <3>1. lost \in Nat /\ r \notin t1.accept /\ (q \in t1.accept <=> q \in t.accept)
      BY <1>1, <1>7, <3>5, LostType
    <3>2. ShutBy(t, t2, r, q)
      BY <1>1, <1>6, <3>1, <3>4, <3>5, ClosedShuts
    <3>3. Owned(e, t, r) /\ t.state[r] \in Sides \ {"none"} /\ t.state[r] # "opening"
      BY <1>3, <1>6 DEF Owned, Sides
    <3> QED
      BY <1>5, <1>7, <1>8, <1>9, <2>1, <3>2, <3>3, Hangs
  <2>2. CASE /\ accepted'[r][c] = "Active"
             /\ t2.state = t.state /\ t2.wire = t.wire /\ t2.accept = {}
    <3>1. t2.accept = t.accept \ {r} /\ "accepted" \in e2.threads
      BY <1>7, <1>9, <2>2
    <3> QED
      BY <1>2, <1>3, <1>5, <1>6, <1>9, <2>2, <3>1, Welcomes
  <2> QED
    BY <1>3, <2>1, <2>2
<1> DEFINE acc2 == accepted'[r]
           net2 == tcp'
<1>11. /\ Elsewhere(tcp, net2, c) /\ Elsewhere(accepted[r], acc2, c) /\ SameEnds(p, p, c)
  BY <1>3 DEF SameEnds
<1>12. At(r, p, acc2[c], c, box2, net2[c])
  BY <1>10 DEF At, e2, f, q, qbox, t2
<1> HIDE DEF acc2, net2
<1>13. World(r, p, acc2, box2, net2)
  BY <1>2, <1>4, <1>11, <1>12, HeardAt
<1>14. peer'[r] = p /\ peer'[q] = peer[q] /\ acc2 = accepted'[r] /\ net2 = tcp'
  BY <1>3 DEF p, acc2, net2
<1>15. Shape(peer'[r]) /\ World(r, peer'[r], accepted'[r], inbox'[r], tcp')
  BY <1>2, <1>4, <1>13, <1>14
<1> QED
  BY <1>1, <1>2, <1>3, <1>14, <1>15, PairKept

\* A peer that has one event, which suits it.
Suits(p, e) ==
  /\ e \notin FromTimer
  /\ e = "Open" => p.status = "Connect" /\ p.t_read = NoConn
  /\ e = "OpenFailed" => p.status = "Connect"
  /\ e \in FromRead => p.status # "Connect" /\ p.LocalAgent # NoConn
  /\ e \in FromRead \ {"ReceiveOpen"} => p.obuf = <<>>
  /\ e = "ReceiveOpen" => p.status # "OpenConfirm"
  /\ e = "ReceiveUpdate" => p.status = "Established"

LEMMA OneSuits ==
  ASSUME NEW p, NEW e, p.events = <<e>>, Suits(p, e)
  PROVE  EventsFit(p) /\ Marks(p) = {e} \cap {"Open", "ReceiveOpen", "ReceiveKeepalive", "Closed"}
<1>1. Len(p.events) = 1 /\ p.events[1] = e
  OBVIOUS
<1>2. 1..Len(p.events) = {1}
  BY <1>1
<1>3. EventsFit(p)
  BY <1>1, <1>2 DEF EventsFit, Suits
<1>4. \A k : Occurs(p.events, k) <=> k = e
  BY <1>1, <1>2 DEF Occurs
<1>5. Marks(p) = {e} \cap {"Open", "ReceiveOpen", "ReceiveKeepalive", "Closed"}
  BY <1>4 DEF Marks
<1> QED
  BY <1>3, <1>5

\* The peer that the connection is handed over to has its OPEN to send, and the one
\* that has come in to work on if TCP is up.
LEMMA HandedOverShape ==
  ASSUME NEW d, NEW p, NEW net, NEW r, NEW c \in Conn, NEW lost, HandedOver(d, p, net, r, c, lost)
  PROVE  /\ Shape(d.p) /\ Marks(d.p) \subseteq {"ReceiveOpen"}
         /\ d.p.LocalAgent = c /\ d.p.status = "OpenSent" /\ d.p.obuf = <<"Open">>
         /\ d.p.t_read \in {c, NoConn}
         /\ d.p.t_read = c <=> net[c].state[r] = "up"
<1>1. c # NoConn
  BY DEF Conn, NoConn
<1>2. /\ d.p.LocalAgent = c /\ d.p.status = "OpenSent" /\ d.p.obuf = <<"Open">>
      /\ d.p.timers = {}
      /\ net[c].state[r] = "up" => d.p.events = <<"ReceiveOpen">> /\ d.p.t_read = c
      /\ net[c].state[r] # "up" => d.p.events = <<>> /\ d.p.t_read = NoConn
  BY DEF HandedOver
<1>3. d.p.t_write
  BY DEF HandedOver
<1>4. BufferFits(d.p)
  <2>1. 1..Len(d.p.obuf) = {1} /\ d.p.obuf[1] = "Open"
    BY <1>2
  <2>2. \A i \in 1..Len(d.p.obuf) : i = 1 /\ d.p.obuf[i] = "Open"
    BY <2>1
  <2>3. d.p.status \in Talks
    BY <1>2 DEF Talks
  <2>4. \A i \in 1..Len(d.p.obuf) :
          /\ d.p.obuf[i] = "Open" => i = 1
          /\ d.p.obuf[i] # "Open" => d.p.status \in Late
          /\ d.p.obuf[i] = "Update" => d.p.status = "Established"
    BY <2>2
  <2> QED
    BY <1>3, <2>3, <2>4, Zenon DEF BufferFits
<1>5. EventsFit(d.p) /\ Marks(d.p) \subseteq {"ReceiveOpen"}
  <2>1. CASE net[c].state[r] = "up"
    <3>1. d.p.events = <<"ReceiveOpen">>
      BY <1>2, <2>1
    <3>2. Suits(d.p, "ReceiveOpen")
      BY <1>1, <1>2 DEF Suits, FromTimer, FromRead
    <3> QED
      BY <3>1, <3>2, OneSuits
  <2>2. CASE net[c].state[r] # "up"
    <3>1. d.p.events = <<>>
      BY <1>2, <2>2
    <3>2. EventsFit(d.p)
      BY <3>1 DEF EventsFit
    <3> QED
      BY <3>1, <3>2, EmptyHas DEF Marks
  <2> QED
    BY <2>1, <2>2
<1>6. d.p.t_read \in {c, NoConn} /\ (d.p.t_read = c <=> net[c].state[r] = "up")
  BY <1>1, <1>2
<1>7. Shape(d.p)
  BY <1>2, <1>4, <1>5, <1>6 DEF Shape
<1> QED
  BY <1>2, <1>5, <1>6, <1>7

\* bgp_open_receive gives the connection of the temporary peer to the configured one.
LEMMA HandedOverWorld ==
  ASSUME IInv, PairInv, NEW r \in Router, NEW c, Interrupted(r, c, "Open"),
         accepted[r][c] # "none",
         NEW acc, acc[c] = "none", Elsewhere(accepted[r], acc, c),
         NEW lost \in Lost, NEW d, HandedOver(d, peer[r], tcp, r, c, lost)
  PROVE  World(r, d.p, acc, Tail(inbox[r]), d.net)
<1> DEFINE q == Other(r)
           box == inbox[r]
           qbox == inbox[q]
           box2 == Tail(inbox[r])
           p == peer[r]
           p1 == [p EXCEPT !.LocalAgent = NoConn, !.t_read = NoConn]
           f == End(peer[q], accepted[q][c], c)
           t == tcp[c]
           e == End(p1, accepted[r][c], c)
           e2 == End(d.p, acc[c], c)
           l == p.LocalAgent
           net2 == Hangup(tcp, r, l, lost)
<1>1. q = Other(r) /\ q \in Router /\ q # r
  BY Others
<1>2. c \in Conn /\ Reached(tcp, r, c) /\ Handling(box, box2, c, "Open") /\ c # NoConn
  <2>1. c \in Conn /\ Reached(tcp, r, c) /\ Handling(box, box2, c, "Open")
    BY <1>1, NextOne
  <2> QED
    BY <2>1 DEF Conn, NoConn
<1>3. /\ World(r, p, accepted[r], box, tcp) /\ p \in PeerType /\ InUse(p, tcp, r)
      /\ NetOK(tcp, used) /\ used \in Nat /\ lost \in Nat
  BY OfPair, OfRouter, LostType
<1>4. p1.LocalAgent = NoConn /\ p1.t_read = NoConn
  BY <1>3 DEF PeerType
<1>5. l # c
  <2>1. p.LocalAgent # c \/ p.status = "none"
    BY <1>1, <1>2, Temporary
  <2> QED
    BY <1>3, <2>1, PeerParts DEF Status
<1>6. d.net = net2
  BY DEF HandedOver
<1>7. /\ Marks(d.p) \subseteq {"ReceiveOpen"}
      /\ d.p.LocalAgent = c /\ d.p.status = "OpenSent" /\ d.p.obuf = <<"Open">>
      /\ d.p.t_read \in {c, NoConn}
      /\ d.p.t_read = c <=> t.state[r] = "up"
  <2>1. HandedOver(d, p, tcp, r, c, lost)
    OBVIOUS
  <2> HIDE DEF p, q, f, e, e2, l, net2, box, box2, qbox, t
  <2>2. /\ Marks(d.p) \subseteq {"ReceiveOpen"}
        /\ d.p.LocalAgent = c /\ d.p.status = "OpenSent" /\ d.p.obuf = <<"Open">>
        /\ d.p.t_read \in {c, NoConn}
        /\ d.p.t_read = c <=> tcp[c].state[r] = "up"
    BY <1>2, <2>1, HandedOverShape
  <2> QED
    BY <2>2 DEF t
<1>8. d.p.t_write
  BY DEF HandedOver
<1> HIDE DEF p1
<1>9. World(r, p1, accepted[r], box, net2)
  BY <1>3, <1>4, Released
<1>10. net2[c] = t
  <2>1. l \in MaybeConn
    BY <1>3, PeerParts
  <2>2. Elsewhere(tcp, net2, l)
    BY <1>3, <2>1, HangupAt
  <2> QED
    BY <1>2, <1>5, <2>2 DEF Elsewhere
<1>11. Joint(e, f, t, r, q, c, box, qbox)
  BY <1>2, <1>9, <1>10 DEF World, At
<1>12. "accepted" \in e.threads
  BY EndIs
<1>13. /\ e2.status = "OpenSent" /\ e2.buf = <<"Open">> /\ "accepted" \notin e2.threads
       /\ e2.marks \subseteq {"ReceiveOpen"}
       /\ "read" \in e2.threads <=> t.state[r] = "up"
  <2>1. e2 = End(d.p, acc[c], c)
    OBVIOUS
  <2> HIDE DEF e2
  <2>2. /\ e2.status = d.p.status /\ e2.buf = d.p.obuf /\ e2.marks = Marks(d.p)
        /\ "read" \in e2.threads <=> d.p.t_read = c
        /\ "accepted" \in e2.threads <=> acc[c] # "none"
    BY <1>7, <2>1, EndIs
  <2> QED
    BY <1>7, <2>2
<1>14. "write" \in e2.threads
  BY <1>7, <1>8, EndIs
<1>15. t.state[r] \in Sides \ {"none"}
  BY <1>2 DEF Reached, Sides
<1>16. SameEnds(p1, d.p, c)
  BY <1>4, <1>7, EndsApart
<1> HIDE DEF q, box, qbox, box2, f, t, e, e2, p, net2
<1>17. Joint(e2, f, t, r, q, c, box2, qbox)
  BY <1>2, <1>11, <1>12, <1>13, <1>14, <1>15, TakesOver
<1>18. At(r, d.p, acc[c], c, box2, net2[c])
  BY <1>10, <1>17 DEF At, e2, f, q, qbox
<1>19. Elsewhere(net2, net2, c)
  BY DEF Elsewhere
<1>20. World(r, d.p, acc, box2, net2)
  BY <1>2, <1>9, <1>16, <1>18, <1>19, HeardAt
<1> QED
  BY <1>6, <1>20 DEF box2

\* bgp_read of a temporary peer that loses the collision, or has no OPEN.
LEMMA DroppedWorld ==
  ASSUME IInv, PairInv, NEW r \in Router, NEW c, NEW m, Interrupted(r, c, m),
         accepted[r][c] # "none",
         NEW acc, acc[c] = "none", Elsewhere(accepted[r], acc, c),
         NEW lost \in Lost, NEW net2, net2 = Hangup(tcp, r, c, lost)
  PROVE  World(r, peer[r], acc, Tail(inbox[r]), net2)
<1> DEFINE q == Other(r)
           box == inbox[r]
           qbox == inbox[q]
           box2 == Tail(inbox[r])
           p == peer[r]
           f == End(peer[q], accepted[q][c], c)
           t == tcp[c]
           e == End(p, accepted[r][c], c)
           e2 == End(p, acc[c], c)
<1>1. q = Other(r) /\ q \in Router /\ q # r
  BY Others
<1>2. c \in Conn /\ Reached(tcp, r, c) /\ Handling(box, box2, c, m) /\ c # NoConn
  <2>1. c \in Conn /\ Reached(tcp, r, c) /\ Handling(box, box2, c, m)
    BY <1>1, NextOne
  <2> QED
    BY <2>1 DEF Conn, NoConn
<1>3. /\ World(r, p, accepted[r], box, tcp) /\ p \in PeerType
      /\ NetOK(tcp, used) /\ used \in Nat /\ lost \in Nat /\ c \in MaybeConn
  BY <1>2, OfPair, OfRouter, LostType DEF MaybeConn
<1>4. /\ p.LocalAgent # c /\ p.t_read # c /\ r \notin t.accept /\ Owned(e, t, r)
  <2>1. /\ p.LocalAgent # c \/ p.status = "none"
        /\ p.t_read # c /\ r \notin t.accept /\ Owned(e, t, r)
    BY <1>1, <1>2, Temporary
  <2> QED
    BY <1>3, <2>1, PeerParts DEF Status
<1>5. Joint(e, f, t, r, q, c, box, qbox)
  BY <1>2, <1>3 DEF World, At
<1>6. Nothing(e2)
  BY <1>4, EndIs DEF Nothing
<1>7. t.state[r] \in Sides \ {"none"} /\ t.state[r] # "opening"
  BY <1>2 DEF Reached, Sides
<1>8. LessCame(c, box, box2)
  BY <1>2, HandlingCame
<1>9. SameEnds(p, p, c)
  BY DEF SameEnds
<1> HIDE DEF q, box, qbox, box2, f, t, e, e2, p
<1>10. ShutBy(t, net2[c], r, q) /\ Elsewhere(tcp, net2, c)
  <2>1. /\ c # NoConn /\ r \notin tcp[c].accept => ShutBy(tcp[c], net2[c], r, Other(r))
        /\ Elsewhere(tcp, net2, c)
    BY <1>3, HangupAt
  <2> QED
    BY <1>1, <1>2, <1>4, <2>1 DEF t
<1>11. Joint(e2, f, net2[c], r, q, c, box2, qbox)
  BY <1>4, <1>5, <1>6, <1>7, <1>8, <1>10, Hangs
<1>12. At(r, p, acc[c], c, box2, net2[c])
  BY <1>11 DEF At, e2, f, q, qbox
<1>13. World(r, p, acc, box2, net2)
  BY <1>2, <1>3, <1>9, <1>10, <1>12, HeardAt
<1> QED
  BY <1>13 DEF p, box2

\* bgp_read of a temporary peer.
LEMMA ReadAcceptedPair ==
  ASSUME IInv, PairInv, NEW r \in Router, NEW c, NEW m, Interrupted(r, c, m),
         ReadAccepted(r, c, m)
  PROVE  PairInv'
<1> DEFINE q == Other(r)
           acc == accepted'[r]
           box2 == Tail(inbox[r])
<1>1. q = Other(r) /\ q \in Router /\ q # r
  BY Others
<1>2. c \in Conn /\ inbox'[r] = box2 /\ inbox'[q] = inbox[q]
  BY <1>1, NextOne
<1>3. accepted[r][c] # "none" /\ accepted' = [accepted EXCEPT ![r][c] = "none"]
  BY DEF ReadAccepted
<1>4. accepted \in [Router -> [Conn -> {"none", "Active", "OpenSent"}]]
      /\ peer[r] \in PeerType /\ Shape(peer[r]) /\ peer \in [Router -> PeerType]
  BY OfRouter, OfPair DEF AcceptedOK, AcceptedType, IInv
<1>5. acc[c] = "none" /\ Elsewhere(accepted[r], acc, c) /\ accepted'[q] = accepted[q]
  BY <1>1, <1>2, <1>3, <1>4 DEF Elsewhere
<1>6. PICK lost \in Lost :
        \/ m = "Open" /\ Becomes(r, Transferred(Here(r), r, c, lost))
        \/ tcp' = Hangup(tcp, r, c, lost) /\ peer' = peer
  BY DEF ReadAccepted, Transfers
<1>7. CASE m = "Open" /\ Becomes(r, Transferred(Here(r), r, c, lost))
  <2> DEFINE d == Transferred(Both(peer[r], tcp), r, c, lost)
  <2>1. peer' = [peer EXCEPT ![r] = d.p] /\ tcp' = d.net
    BY <1>7, HereWith DEF Becomes
  <2>2. HandedOver(d, peer[r], tcp, r, c, lost)
    BY <1>2, <1>4, TransferredIs
  <2> HIDE DEF d, acc
  <2>3. peer'[r] = d.p /\ peer'[q] = peer[q]
    BY <1>1, <1>4, <2>1
  <2>4. Interrupted(r, c, "Open")
    BY <1>7
  <2>5. World(r, d.p, acc, box2, d.net) /\ Shape(d.p)
    BY <1>2, <1>3, <1>5, <2>2, <2>4, HandedOverWorld, HandedOverShape
  <2>6. Shape(peer'[r]) /\ World(r, peer'[r], accepted'[r], inbox'[r], tcp')
    BY <1>2, <2>1, <2>3, <2>5 DEF acc
  <2> HIDE DEF q, box2
  <2> QED
    BY <1>1, <1>2, <1>5, <2>3, <2>6, PairKept
<1>8. CASE tcp' = Hangup(tcp, r, c, lost) /\ peer' = peer
  <2> DEFINE net2 == Hangup(tcp, r, c, lost)
  <2> HIDE DEF acc
  <2>1. World(r, peer[r], acc, box2, net2)
    BY <1>2, <1>3, <1>5, DroppedWorld
  <2>2. Shape(peer'[r]) /\ World(r, peer'[r], accepted'[r], inbox'[r], tcp')
    BY <1>2, <1>4, <1>8, <2>1 DEF acc
  <2> HIDE DEF q, box2
  <2> QED
    BY <1>1, <1>2, <1>5, <1>8, <2>2, PairKept
<1> QED
  BY <1>6, <1>7, <1>8

\* bgp_connect_check looks at the connection of the peer, whichever t_read waited for.
LEMMA LookedWorld ==
  ASSUME IInv, PairInv, NEW r \in Router, NEW c, NEW m, Interrupted(r, c, m),
         peer[r].t_read = c, peer[r].status = "Connect",
         NEW p2, p2.t_read = NoConn, p2.status = "Connect",
         p2.LocalAgent = peer[r].LocalAgent, p2.obuf = peer[r].obuf,
         Marks(p2) \subseteq {"Open"},
         "Open" \in Marks(p2) => tcp[peer[r].LocalAgent].state[r] = "up"
  PROVE  World(r, p2, accepted[r], Tail(inbox[r]), tcp)
<1> DEFINE q == Other(r)
           box == inbox[r]
           box2 == Tail(inbox[r])
           p == peer[r]
           l == p.LocalAgent
<1>1. q = Other(r) /\ q \in Router
  BY Others
<1>2. c \in Conn /\ Handling(box, box2, c, m)
  BY <1>1, NextOne
<1>3. World(r, p, accepted[r], box, tcp) /\ p \in PeerType
  BY OfPair, OfRouter
<1> SUFFICES ASSUME NEW d \in Conn
             PROVE  At(r, p2, accepted[r][d], d, box2, tcp[d])
  BY DEF World
<1> DEFINE t == tcp[d]
           a == accepted[r][d]
           qbox == inbox[q]
           e == End(p, a, d)
           f == End(peer[q], accepted[q][d], d)
           e2 == End(p2, a, d)
<1>4. Joint(e, f, t, r, q, d, box, qbox)
  BY <1>3 DEF World, At
<1>5. LessCame(d, box, box2) /\ (d # c => SameCame(d, box, box2)) /\ d # NoConn
  <2>1. LessCame(d, box, box2) /\ (d # c => SameCame(d, box, box2))
    BY <1>2, HandlingCame
  <2> QED
    BY <2>1 DEF Conn, NoConn
<1>6. /\ p.t_read = d => "read" \in e.threads
      /\ l # d => e.status = "none"
  BY EndIs
<1>7. CASE l = d
  <2>1. AgentEnd(p, a, d, e)
    BY <1>3, <1>7 DEF AgentEnd
  <2>2. e.status = "Connect" /\ e.buf = p.obuf
    BY <1>7, EndIs
  <2>3. /\ e2.status = "Connect" /\ e2.buf = p.obuf /\ e2.marks = Marks(p2)
        /\ "read" \notin e2.threads
        /\ "accepted" \in e2.threads <=> a # "none"
    BY <1>5, <1>7, EndIs
  <2>4. "Open" \in Marks(p2) => t.state[r] = "up"
    BY <1>7
  <2> HIDE DEF q, box, box2, p, l, t, a, qbox, e, f, e2
  <2>5. a = "none"
    BY <1>4, <2>1, AgentOwns
  <2>6. Joint(e2, f, t, r, q, d, box2, qbox)
    BY <1>4, <1>5, <2>2, <2>3, <2>4, <2>5, Looks
  <2> QED
    BY <2>6 DEF At, q, t, a, qbox, e2, f
<1>8. CASE l # d
  <2>1. p2.LocalAgent # d /\ p2.t_read # d /\ p.LocalAgent # d
    BY <1>5, <1>8
  <2> HIDE DEF q, box, box2, t, a, qbox, f
  <2>2. Joint(e, f, t, r, q, d, box2, qbox)
    <3> HIDE DEF e
    <3>1. CASE d # c
      BY <1>4, <1>5, <3>1, Skips
    <3>2. CASE d = c
      <4>1. "read" \in e.threads /\ e.status = "none"
        BY <1>6, <1>8, <3>2
      <4>2. r \notin t.accept /\ "accepted" \notin e.threads /\ e.status \notin Talks
        BY <1>4, <4>1 DEF Joint, Side, Owner, Talks
      <4> QED
        BY <1>4, <1>5, <4>2, Skips
    <3> QED
      BY <3>1, <3>2
  <2> HIDE DEF p, l
  <2>3. Joint(e2, f, t, r, q, d, box2, qbox)
    BY <2>1, <2>2, Away
  <2> QED
    BY <2>3 DEF At, q, t, a, qbox, f
<1> QED
  BY <1>7, <1>8

\* bgp_connect_check.
LEMMA ConnectCheckPair ==
  ASSUME IInv, PairInv, NEW r \in Router, NEW c, NEW m, Interrupted(r, c, m),
         ConnectCheck(r, c)
  PROVE  PairInv'
<1> DEFINE q == Other(r)
           p == peer[r]
           box2 == Tail(inbox[r])
           k == IF tcp[p.LocalAgent].state[r] = "up" THEN "Open" ELSE "OpenFailed"
           ev == <<k>>
           p2 == [p EXCEPT !.t_read = NoConn, !.events = ev]
<1>1. q = Other(r) /\ q \in Router /\ q # r
  BY Others
<1>2. c \in Conn /\ inbox'[r] = box2 /\ inbox'[q] = inbox[q]
  BY <1>1, NextOne
<1>3. p \in PeerType /\ peer \in [Router -> PeerType] /\ Shape(p)
  BY OfRouter, OfPair DEF IInv
<1>4. /\ peer' = [peer EXCEPT ![r].t_read = NoConn, ![r].events = ev]
      /\ p.status = "Connect" /\ p.t_read = c
      /\ accepted' = accepted /\ tcp' = tcp
  BY DEF ConnectCheck
<1>5. k \in {"Open", "OpenFailed"} /\ (k = "Open" => tcp[p.LocalAgent].state[r] = "up")
  OBVIOUS
<1>6. p.obuf = <<>>
  BY WaitingIsQuiet DEF Interrupted
<1> HIDE DEF k
<1>7. peer' = [peer EXCEPT ![r] = p2]
  BY <1>3, <1>4
<1>8. /\ p2.t_read = NoConn /\ p2.status = "Connect" /\ p2.LocalAgent = p.LocalAgent
      /\ p2.obuf = p.obuf /\ p2.events = <<k>> /\ p2.timers = p.timers
  BY <1>3, <1>4 DEF PeerType
<1> HIDE DEF p2, ev
<1>9. peer'[r] = p2 /\ peer'[q] = peer[q]
  BY <1>1, <1>3, <1>7
<1>10. Suits(p2, k)
  BY <1>5, <1>6, <1>8 DEF Suits, FromTimer, FromRead
<1>11. EventsFit(p2) /\ Marks(p2) = {k} \cap {"Open", "ReceiveOpen", "ReceiveKeepalive", "Closed"}
  BY <1>8, <1>10, OneSuits
<1>12. BufferFits(p2)
  <2>1. p2.obuf = <<>>
    BY <1>6, <1>8
  <2> QED
    BY <2>1 DEF BufferFits
<1>13. Shape(p2)
  BY <1>3, <1>4, <1>8, <1>11, <1>12 DEF Shape
<1>14. Marks(p2) \subseteq {"Open"} /\ ("Open" \in Marks(p2) => tcp[p.LocalAgent].state[r] = "up")
  BY <1>5, <1>11
<1>15. World(r, p2, accepted[r], box2, tcp)
  BY <1>4, <1>8, <1>14, LookedWorld
<1>16. Shape(peer'[r]) /\ World(r, peer'[r], accepted'[r], inbox'[r], tcp')
  BY <1>2, <1>4, <1>9, <1>13, <1>15
<1> HIDE DEF q, box2, p
<1> QED
  BY <1>1, <1>2, <1>4, <1>9, <1>16, PairKept

\* Outside of Connect, t_read waits for the connection of the peer.
LEMMA ReadsItsOwn ==
  ASSUME IInv, PairInv, NEW r \in Router, NEW c \in Conn, NEW m, Read(r, c, m)
  PROVE  /\ peer[r].LocalAgent = c /\ peer[r].t_read = c /\ peer[r].status # "Connect"
         /\ peer[r].status # "Active" /\ c # NoConn /\ Reading(r) = peer[r]
<1>1. peer[r] \in PeerType /\ Shape(peer[r])
  BY OfRouter, OfPair
<1>2. peer[r].t_read = c /\ peer[r].status # "Connect" /\ c # NoConn
  BY DEF Read, Conn, NoConn
<1>3. peer[r].LocalAgent = c /\ peer[r].status # "Active"
  BY <1>1, <1>2 DEF Shape
<1>4. Reading(r) = peer[r]
  BY <1>1, <1>2, <1>3 DEF Reading, PeerType
<1> QED
  BY <1>2, <1>3, <1>4

\* What the marks of the peer are after message m has been read.
MarksFit(m, marks) ==
  /\ m = "Zero" => "Closed" \in marks
  /\ "ReceiveOpen" \in marks => m = "Open"
  /\ m = "Keepalive" <=> "ReceiveKeepalive" \in marks
  /\ "Open" \notin marks

\* The peer has read m, and may have an event of it.
Gets(p, p2, ev) == p2 = [p EXCEPT !.events = ev]

LEMMA ReadWorld ==
  ASSUME IInv, PairInv, NEW r \in Router, NEW c \in Conn, NEW m, Interrupted(r, c, m),
         Read(r, c, m), NEW ev \in Seq(Event), NEW p2, Gets(peer[r], p2, ev),
         MarksFit(m, Marks(p2))
  PROVE  World(r, p2, accepted[r], Tail(inbox[r]), tcp)
<1> DEFINE q == Other(r)
           p == peer[r]
           box == inbox[r]
           box2 == Tail(inbox[r])
           qbox == inbox[q]
           a == accepted[r][c]
           t == tcp[c]
           e == End(p, a, c)
           f == End(peer[q], accepted[q][c], c)
           e2 == End(p2, a, c)
<1>1. q = Other(r) /\ q \in Router /\ q # r
  BY Others
<1>2. c \in Conn /\ Handling(box, box2, c, m)
  BY <1>1, NextOne
<1>3. World(r, p, accepted[r], box, tcp) /\ p \in PeerType
  BY OfPair, OfRouter
<1>4. p.LocalAgent = c /\ p.t_read = c /\ p.status # "Connect"
  BY ReadsItsOwn
<1>5. p.obuf = <<>> /\ Marks(p) = {}
  BY WaitingIsQuiet DEF Interrupted
<1>6. /\ p2.status = p.status /\ p2.LocalAgent = p.LocalAgent /\ p2.t_read = p.t_read
      /\ p2.obuf = p.obuf
  BY <1>3 DEF PeerType, Gets
<1>7. p2.t_write = p.t_write
  BY <1>3 DEF PeerType, Gets
<1>8. Joint(e, f, t, r, q, c, box, qbox)
  BY <1>3 DEF World, At
<1>9. e2.threads = e.threads
  BY <1>6, <1>7 DEF End
<1>10. /\ e.status = p.status /\ e.buf = <<>> /\ e.marks = {} /\ "read" \in e.threads
  BY <1>4, <1>5, EndIs
<1>11. e2.status = p.status /\ e2.buf = <<>> /\ e2.marks = Marks(p2)
  BY <1>4, <1>5, <1>6, EndIs
<1>12. p.status # "none"
  BY <1>3, PeerParts DEF Status
<1>13. SameEnds(p, p2, c) /\ Elsewhere(tcp, tcp, c) /\ Elsewhere(accepted[r], accepted[r], c)
  <2>1. SameEnds(p, p2, c)
    BY <1>4, <1>6, EndsApart
  <2> QED
    BY <2>1 DEF Elsewhere
<1> HIDE DEF q, p, box, box2, qbox, a, t, e, f, e2
<1>14. e.status \notin {"none", "Connect"} /\ e2.status = e.status /\ e2.buf = e.buf
  BY <1>4, <1>10, <1>11, <1>12
<1>15. /\ m = "Zero" => "Closed" \in e2.marks
       /\ "ReceiveOpen" \in e2.marks => m = "Open"
       /\ m = "Keepalive" <=> "ReceiveKeepalive" \in e2.marks
       /\ "Open" \notin e2.marks
  BY <1>11 DEF MarksFit
<1>16. Joint(e2, f, t, r, q, c, box2, qbox)
  BY <1>2, <1>8, <1>9, <1>10, <1>14, <1>15, Reads
<1>17. At(r, p2, accepted[r][c], c, box2, tcp[c])
  BY <1>16 DEF At, q, a, t, qbox, e2, f
<1>18. World(r, p2, accepted[r], box2, tcp)
  BY <1>2, <1>3, <1>13, <1>17, HeardAt DEF box
<1> QED
  BY <1>18 DEF box2

\* An OPEN that is read finds no session that had one.
LEMMA OpenIsFirst ==
  ASSUME IInv, PairInv, NEW r \in Router, NEW c \in Conn, Interrupted(r, c, "Open"),
         Read(r, c, "Open")
  PROVE  peer[r].status # "OpenConfirm"
<1> DEFINE q == Other(r)
           p == peer[r]
           box == inbox[r]
           box2 == Tail(inbox[r])
           e == End(p, accepted[r][c], c)
           f == End(peer[q], accepted[q][c], c)
<1>1. q = Other(r)
  OBVIOUS
<1>2. Handling(box, box2, c, "Open")
  BY <1>1, NextOne
<1>3. Came(box, c, "Open")
  BY <1>2, BoxTail
<1>4. Joint(e, f, tcp[c], r, q, c, box, inbox[q])
  BY OfPair DEF World, At
<1>5. p.LocalAgent = c
  BY ReadsItsOwn
<1>6. e.status = p.status
  BY <1>5, EndIs
<1> HIDE DEF e, f, q, box, box2
<1>7. ~HasOpen(e)
  BY <1>3, <1>4 DEF Joint, Side, Opens, Comes
<1> QED
  BY <1>6, <1>7 DEF HasOpen, Late

\* The event of a message that is read.
LEMMA ReadSuits ==
  ASSUME IInv, PairInv, NEW r \in Router, NEW c \in Conn, NEW m \in Message \cup {"Zero"},
         Interrupted(r, c, m), Read(r, c, m),
         m = "Update" => peer[r].status = "Established"
  PROVE  /\ ReadEvent[m] \in Event
         /\ Suits([peer[r] EXCEPT !.events = <<ReadEvent[m]>>], ReadEvent[m])
         /\ MarksFit(m, {ReadEvent[m]} \cap {"Open", "ReceiveOpen", "ReceiveKeepalive", "Closed"})
<1> DEFINE p == peer[r]
           k == ReadEvent[m]
           ev == <<k>>
           p2 == [p EXCEPT !.events = ev]
<1>1. k \in FromRead /\ k \in Event
  BY DEF ReadEvent, FromRead, Message, Event
<1>2. /\ m = "Open" <=> k = "ReceiveOpen"
      /\ m = "Zero" <=> k = "Closed"
      /\ m = "Keepalive" <=> k = "ReceiveKeepalive"
      /\ m = "Update" <=> k = "ReceiveUpdate"
  BY DEF ReadEvent, Message
<1> HIDE DEF k
<1>3. p \in PeerType /\ p.obuf = <<>>
  BY OfRouter, WaitingIsQuiet DEF Interrupted
<1>4. p.LocalAgent = c /\ p.status # "Connect" /\ c # NoConn
  BY ReadsItsOwn
<1>5. p2.status = p.status /\ p2.LocalAgent = p.LocalAgent /\ p2.obuf = p.obuf
  BY <1>3 DEF PeerType
<1> HIDE DEF p2, ev
<1>6. m = "Open" => p.status # "OpenConfirm"
  BY OpenIsFirst
<1>7. k \notin FromTimer /\ k # "Open" /\ k # "OpenFailed"
  BY <1>1 DEF FromRead, FromTimer
<1>8. Suits(p2, k)
  BY <1>1, <1>2, <1>3, <1>4, <1>5, <1>6, <1>7 DEF Suits
<1>9. MarksFit(m, {k} \cap {"Open", "ReceiveOpen", "ReceiveKeepalive", "Closed"})
  BY <1>2, <1>7 DEF MarksFit
<1> QED
  BY <1>1, <1>8, <1>9 DEF p2, ev, k

\* An UPDATE outside of Established.
LEMMA AnsweredPair ==
  ASSUME IInv, PairInv, NEW r \in Router, NEW c \in Conn, Interrupted(r, c, "Update"),
         Read(r, c, "Update"), Answers(r)
  PROVE  PairInv'
<1> DEFINE q == Other(r)
           p == peer[r]
           box2 == Tail(inbox[r])
           acc == accepted[r]
<1>1. q = Other(r) /\ q \in Router /\ q # r
  BY Others
<1>2. inbox'[r] = box2 /\ inbox'[q] = inbox[q]
  BY <1>1, NextOne
<1>3. /\ p \in PeerType /\ peer \in [Router -> PeerType] /\ Shape(p) /\ InUse(p, tcp, r)
      /\ NetOK(tcp, used) /\ used \in Nat
  BY OfRouter, OfPair DEF IInv
<1>4. Reading(r) = p /\ p.LocalAgent # NoConn
  BY ReadsItsOwn
<1>5. accepted' = accepted
  BY DEF Read
<1>6. World(r, p, acc, box2, tcp)
  <2> DEFINE ev == <<>>
             p2 == [p EXCEPT !.events = ev]
  <2>1. p.events = ev /\ Marks(p) = {}
    BY WaitingIsQuiet DEF Interrupted
  <2>2. p2 = p
    BY <1>3, <2>1 DEF PeerType
  <2>3. ev \in Seq(Event)
    OBVIOUS
  <2>4. MarksFit("Update", {})
    BY DEF MarksFit
  <2> HIDE DEF ev
  <2>5. Gets(peer[r], p2, ev)
    BY DEF Gets
  <2>6. MarksFit("Update", Marks(p2))
    BY <2>1, <2>2, <2>4
  <2> HIDE DEF p2
  <2>7. World(r, p2, accepted[r], Tail(inbox[r]), tcp)
    BY <2>3, <2>5, <2>6, ReadWorld
  <2> QED
    BY <2>2, <2>7
<1>7. PICK lost \in Lost : Becomes(r, Notified(Both(p, tcp), r, lost))
  BY <1>4 DEF Answers
<1> DEFINE d == Notified(Both(p, tcp), r, lost)
<1>8. peer' = [peer EXCEPT ![r] = d.p] /\ tcp' = d.net
  BY <1>7 DEF Becomes
<1>9. d = Notified(Both(p, tcp), r, lost) /\ lost \in Nat
  BY LostType
<1> HIDE DEF d, box2, acc
<1>10. /\ World(r, d.p, acc, box2, d.net)
       /\ d.p.events = <<>> /\ d.p.obuf = <<>> /\ d.p.t_read = NoConn
       /\ d.p.status = "Idle" /\ d.p.timers = TimersOf["Idle"]
  BY <1>3, <1>4, <1>6, <1>9, NotifiedWorld
<1>11. Shape(d.p)
  BY <1>10, QuietShape
<1>12. peer'[r] = d.p /\ peer'[q] = peer[q]
  BY <1>1, <1>3, <1>8
<1>13. Shape(peer'[r]) /\ World(r, peer'[r], accepted'[r], inbox'[r], tcp')
  BY <1>2, <1>5, <1>8, <1>10, <1>11, <1>12 DEF acc
<1> HIDE DEF q, p
<1> QED
  BY <1>1, <1>2, <1>5, <1>12, <1>13, PairKept

\* bgp_read of the configured peer.
LEMMA ReadPair ==
  ASSUME IInv, PairInv, NEW r \in Router, NEW c, NEW m, Interrupted(r, c, m), Read(r, c, m)
  PROVE  PairInv'
<1> DEFINE q == Other(r)
           p == peer[r]
           box2 == Tail(inbox[r])
<1>1. q = Other(r) /\ q \in Router /\ q # r
  BY Others
<1>2. /\ c \in Conn /\ m \in Message \cup {"Zero"} /\ inbox'[r] = box2 /\ inbox'[q] = inbox[q]
  BY <1>1, NextOne
<1>3. p \in PeerType /\ peer \in [Router -> PeerType] /\ Shape(p)
  BY OfRouter, OfPair DEF IInv
<1>4. Reading(r) = p /\ p.LocalAgent = c /\ p.t_read = c /\ accepted' = accepted
  <2>1. Reading(r) = p /\ p.LocalAgent = c /\ p.t_read = c
    BY <1>2, ReadsItsOwn
  <2> QED
    BY <2>1 DEF Read
<1>5. p.obuf = <<>> /\ p.events = <<>> /\ Marks(p) = {}
  BY WaitingIsQuiet DEF Interrupted
<1>6. ASSUME NEW ev \in Seq(Event), NEW p2, Gets(p, p2, ev),
             EventsFit(p2), MarksFit(m, Marks(p2)), Becomes(r, Both(p2, tcp))
      PROVE  PairInv'
  <2>1. peer' = [peer EXCEPT ![r] = p2] /\ tcp' = tcp
    BY <1>6, BothIs DEF Becomes
  <2>2. peer'[r] = p2 /\ peer'[q] = peer[q]
    BY <1>1, <1>3, <2>1
  <2>3. World(r, p2, accepted[r], box2, tcp)
    BY <1>2, <1>6, ReadWorld
  <2>4. /\ p2.status = p.status /\ p2.LocalAgent = p.LocalAgent /\ p2.t_read = p.t_read
        /\ p2.obuf = <<>> /\ p2.timers = p.timers
    BY <1>3, <1>5, <1>6 DEF PeerType, Gets
  <2>5. BufferFits(p2)
    BY <2>4 DEF BufferFits
  <2>6. Shape(p2)
    BY <1>3, <1>6, <2>4, <2>5 DEF Shape
  <2>7. Shape(peer'[r]) /\ World(r, peer'[r], accepted'[r], inbox'[r], tcp')
    BY <1>2, <1>4, <2>1, <2>2, <2>3, <2>6
  <2> HIDE DEF q, p, box2
  <2> QED
    BY <1>1, <1>2, <1>4, <2>2, <2>7, PairKept
<1>7. CASE m = "Open" /\ Becomes(r, Both(Reading(r), tcp))
  <2> DEFINE ev == <<>>
             p2 == [p EXCEPT !.events = ev]
  <2>1. p2 = p
    BY <1>3, <1>5 DEF PeerType
  <2>2. ev \in Seq(Event) /\ MarksFit(m, {})
    BY <1>7 DEF MarksFit
  <2>3. EventsFit(p) /\ Becomes(r, Both(p, tcp))
    BY <1>3, <1>4, <1>7 DEF Shape
  <2>4. Gets(p, p2, ev)
    BY DEF Gets
  <2> HIDE DEF ev, p2
  <2> QED
    BY <1>5, <1>6, <2>1, <2>2, <2>3, <2>4
<1>8. CASE m = "Update" /\ Answers(r)
  BY <1>2, <1>8, AnsweredPair
<1>9. CASE /\ m = "Update" => peer[r].status = "Established"
           /\ Becomes(r, Both(Hearing(r, m), tcp))
  <2> DEFINE k == ReadEvent[m]
             ev == <<k>>
             p2 == [p EXCEPT !.events = ev]
  <2>1. p2 = Hearing(r, m)
    BY <1>4 DEF Hearing
  <2>2. k \in Event /\ Suits(p2, k)
        /\ MarksFit(m, {k} \cap {"Open", "ReceiveOpen", "ReceiveKeepalive", "Closed"})
    BY <1>2, <1>9, ReadSuits
  <2>3. p2.events = <<k>> /\ ev \in Seq(Event)
    BY <1>3, <2>2 DEF PeerType
  <2>4. Gets(p, p2, ev)
    BY DEF Gets
  <2> HIDE DEF k, ev, p2
  <2>5. EventsFit(p2) /\ Marks(p2) = {k} \cap {"Open", "ReceiveOpen", "ReceiveKeepalive", "Closed"}
    BY <2>2, <2>3, OneSuits
  <2> QED
    BY <1>6, <1>9, <2>1, <2>2, <2>3, <2>4, <2>5
<1>10. \/ m = "Open" /\ Becomes(r, Both(Reading(r), tcp))
       \/ m = "Update" /\ Answers(r)
       \/ /\ m = "Update" => peer[r].status = "Established"
          /\ Becomes(r, Both(Hearing(r, m), tcp))
  BY ReadIs
<1> QED
  BY <1>7, <1>8, <1>9, <1>10

\* An interrupt.
LEMMA InterruptPair ==
  ASSUME IInv, PairInv, NEW r \in Router, Interrupt(r)
  PROVE  PairInv'
<1> DEFINE c == Head(inbox[r])[1]
           m == Head(inbox[r])[2]
<1>1. \/ Accept(r, c)
      \/ ReadAccepted(r, c, m)
      \/ ConnectCheck(r, c)
      \/ Read(r, c, m)
      \/ Ignore(r, c)
  BY DEF Interrupt
<1>2. Interrupted(r, c, m)
  BY DEF Interrupt, Interrupted
<1> HIDE DEF c, m
<1> QED
  BY <1>1, <1>2, AcceptPair, ReadAcceptedPair, ConnectCheckPair, ReadPair, IgnorePair

-----------------------------------------------------------------------------
(***************************************************************************)
(* What the network delivers.                                              *)
(***************************************************************************)
\* The head of the wire to r goes, and the other end q stays as it is.
Passed(t, t2, r, q) ==
  /\ t2.accept = t.accept /\ t2.state[q] = t.state[q] /\ t2.wire[r] = Tail(t.wire[r])

\* Router r is told x of connection c.
Tells(r, c, x) == inbox' = [inbox EXCEPT ![r] = Append(@, <<c, x>>)]

\* The end of the handshake.
LEMMA JoinedIs ==
  ASSUME NEW t \in TcpType, NEW r \in Router, NEW q, q = Other(r), NEW t2, t2 = Joined(t, r)
  PROVE  /\ Passed(t, t2, r, q) /\ t2.state[r] = "up"
         /\ t2.wire[q] \in {t.wire[q], Append(t.wire[q], "Up")}
<1>1. q \in Router /\ q # r
  BY Others
<1>2. t.state \in [Router -> Sides]
  BY ConnParts
<1>3. /\ t2.state = [t.state EXCEPT ![r] = "up"] /\ t2.accept = t.accept
      /\ t2.wire = [x \in Router |->
            IF x = r THEN Tail(t.wire[x])
            ELSE IF r \in t.accept THEN t.wire[x] ELSE Append(t.wire[x], "Up")]
  BY DEF Joined
<1>4. t2.state[q] = t.state[q] /\ t2.state[r] = "up"
  BY <1>1, <1>2, <1>3
<1>5. /\ t2.wire[r] = Tail(t.wire[r])
      /\ t2.wire[q] = IF r \in t.accept THEN t.wire[q] ELSE Append(t.wire[q], "Up")
  BY <1>1, <1>3
<1> QED
  BY <1>3, <1>4, <1>5 DEF Passed

\* Anything else.
LEMMA PassedIs ==
  ASSUME NEW t \in TcpType, NEW r \in Router, NEW q, q = Other(r),
         NEW t1, t1 = Taken(t, r), NEW t2, t2 = FinTaken(t, r)
  PROVE  /\ Passed(t, t1, r, q) /\ t1.state = t.state /\ t1.wire[q] = t.wire[q]
         /\ Passed(t, t2, r, q) /\ t2.state[r] = "closed" /\ t2.wire[q] = t.wire[q]
<1> DEFINE w == [t.wire EXCEPT ![r] = Tail(@)]
           s == [t.state EXCEPT ![r] = "closed"]
<1>1. q \in Router /\ q # r
  BY Others
<1>2. t.state \in [Router -> Sides] /\ t.wire \in [Router -> Seq(Message \cup {"Up", "Fin"})]
  BY ConnParts
<1>3. w[r] = Tail(t.wire[r]) /\ w[q] = t.wire[q] /\ s[r] = "closed" /\ s[q] = t.state[q]
  BY <1>1, <1>2
<1>4. t1.state = t.state /\ t1.wire = w /\ t1.accept = t.accept
  BY DEF Taken
<1>5. t2.state = s /\ t2.wire = w /\ t2.accept = t.accept
  BY DEF FinTaken
<1> QED
  BY <1>3, <1>4, <1>5 DEF Passed

\* They are what the step makes of the connection.
LEMMA TakenIs ==
  ASSUME NEW t \in TcpType, NEW r \in Router
  PROVE  /\ [t EXCEPT !.wire = [t.wire EXCEPT ![r] = Tail(@)]] = Taken(t, r)
         /\ [Taken(t, r) EXCEPT !.state = [Taken(t, r).state EXCEPT ![r] = "closed"]] =
              FinTaken(t, r)
<1> DEFINE w == [t.wire EXCEPT ![r] = Tail(@)]
<1>1. Taken(t, r) = [state |-> t.state, wire |-> w, m_msgs |-> t.m_msgs, accept |-> t.accept]
  BY DEF Taken
<1>2. FinTaken(t, r) = [state |-> [t.state EXCEPT ![r] = "closed"], wire |-> w,
                        m_msgs |-> t.m_msgs, accept |-> t.accept]
  BY DEF FinTaken
<1> HIDE DEF w
<1>3. [t EXCEPT !.wire = w] = Taken(t, r)
  BY <1>1, PutLists
<1>4. Taken(t, r).state = t.state
  BY <1>1
<1>5. [Taken(t, r) EXCEPT !.state = [t.state EXCEPT ![r] = "closed"]] = FinTaken(t, r)
  <2> DEFINE y == [t.state EXCEPT ![r] = "closed"]
  <2> HIDE DEF y
  <2>1. [Taken(t, r) EXCEPT !.state = y] =
          [state |-> y, wire |-> w, m_msgs |-> t.m_msgs, accept |-> t.accept]
    BY <1>1
  <2> QED
    BY <1>2, <2>1 DEF y
<1> QED
  BY <1>3, <1>4, <1>5 DEF w

LEMMA DeliveredIs ==
  ASSUME IInv, NEW r \in Router, NEW c \in Conn, Deliver(r, c), NEW q, q = Other(r),
         NEW t, t = tcp[c]
  PROVE  /\ Elsewhere(tcp, tcp', c) /\ peer' = peer /\ accepted' = accepted
         /\ t.wire[r] # <<>> /\ Passed(t, tcp'[c], r, q)
         /\ \/ /\ Head(t.wire[r]) = "Up" /\ t.state[r] = "opening" /\ Tells(r, c, "Zero")
               /\ tcp'[c].state[r] = "up"
               /\ tcp'[c].wire[q] \in {t.wire[q], Append(t.wire[q], "Up")}
            \/ /\ Head(t.wire[r]) = "Fin" /\ t.state[r] = "up" /\ Tells(r, c, "Zero")
               /\ tcp'[c].state[r] = "closed" /\ tcp'[c].wire[q] = t.wire[q]
            \/ /\ Head(t.wire[r]) \in Message /\ Tells(r, c, Head(t.wire[r]))
               /\ tcp'[c].state = t.state /\ tcp'[c].wire[q] = t.wire[q]
<1> DEFINE m == Head(t.wire[r])
           t1 == Taken(t, r)
           t2 == FinTaken(t, r)
           j == Joined(t, r)
           net == [tcp EXCEPT ![c].wire[r] = Tail(@)]
<1>1. tcp \in [Conn -> TcpType] /\ t \in TcpType
  BY OfRouter DEF NetOK, Net
<1>2. /\ t.wire[r] # <<>> /\ peer' = peer /\ accepted' = accepted
      /\ \/ m = "Up" /\ t.state[r] = "opening" /\ tcp' = [tcp EXCEPT ![c] = Joined(@, r)]
            /\ Tells(r, c, "Zero")
         \/ m = "Fin" /\ t.state[r] = "up" /\ tcp' = [net EXCEPT ![c].state[r] = "closed"]
            /\ Tells(r, c, "Zero")
         \/ m \in Message /\ tcp' = net /\ Tells(r, c, m)
  BY DEF Deliver, Tells
<1>3. /\ Passed(t, j, r, q) /\ j.state[r] = "up"
      /\ j.wire[q] \in {t.wire[q], Append(t.wire[q], "Up")}
  BY <1>1, JoinedIs
<1>4. /\ Passed(t, t1, r, q) /\ t1.state = t.state /\ t1.wire[q] = t.wire[q]
      /\ Passed(t, t2, r, q) /\ t2.state[r] = "closed" /\ t2.wire[q] = t.wire[q]
  BY <1>1, PassedIs
<1>5. net = [tcp EXCEPT ![c] = t1]
  <2>1. net = [tcp EXCEPT ![c] = [t EXCEPT !.wire = [t.wire EXCEPT ![r] = Tail(@)]]]
    OBVIOUS
  <2>2. [t EXCEPT !.wire = [t.wire EXCEPT ![r] = Tail(@)]] = t1
    BY <1>1, TakenIs
  <2> HIDE DEF t1, net
  <2> QED
    BY <2>1, <2>2
<1>6. net[c] = t1 /\ DOMAIN net = Conn /\ Elsewhere(tcp, net, c)
  BY <1>1, <1>5 DEF Elsewhere
<1> HIDE DEF net
<1>7. [net EXCEPT ![c].state[r] = "closed"] =
        [net EXCEPT ![c] = [net[c] EXCEPT !.state = [net[c].state EXCEPT ![r] = "closed"]]]
  OBVIOUS
<1>8. [net EXCEPT ![c].state[r] = "closed"] = [net EXCEPT ![c] = t2]
  <2>1. [t1 EXCEPT !.state = [t1.state EXCEPT ![r] = "closed"]] = t2
    BY <1>1, TakenIs
  <2> HIDE DEF t1, t2
  <2> QED
    BY <1>6, <1>7, <2>1
<1> HIDE DEF t1, t2, j, m
<1>9. CASE m = "Up" /\ t.state[r] = "opening" /\ tcp' = [tcp EXCEPT ![c] = Joined(@, r)]
           /\ Tells(r, c, "Zero")
  <2>1. tcp'[c] = j /\ Elsewhere(tcp, tcp', c)
    BY <1>1, <1>9 DEF Elsewhere, j
  <2> QED
    BY <1>2, <1>3, <1>9, <2>1 DEF m
<1>10. CASE m = "Fin" /\ t.state[r] = "up" /\ tcp' = [net EXCEPT ![c].state[r] = "closed"]
            /\ Tells(r, c, "Zero")
  <2>1. tcp'[c] = t2 /\ Elsewhere(tcp, tcp', c)
    BY <1>6, <1>8, <1>10 DEF Elsewhere
  <2> QED
    BY <1>2, <1>4, <1>10, <2>1 DEF m
<1>11. CASE m \in Message /\ tcp' = net /\ Tells(r, c, m)
  <2>1. tcp'[c] = t1 /\ Elsewhere(tcp, tcp', c)
    BY <1>6, <1>11
  <2> QED
    BY <1>2, <1>4, <1>11, <2>1 DEF m
<1> QED
  BY <1>2, <1>9, <1>10, <1>11

\* A router is told of connection c.
LEMMA ToldAt ==
  ASSUME NEW x, NEW p, NEW acc, NEW box, NEW box2, NEW net, NEW net2,
         NEW c \in Conn, NEW a, World(x, p, acc, box, net), Telling(box, box2, c, a),
         Elsewhere(net, net2, c), At(x, p, acc[c], c, box2, net2[c])
  PROVE  World(x, p, acc, box2, net2)
<1> SUFFICES ASSUME NEW d \in Conn, d # c
             PROVE  At(x, p, acc[d], d, box2, net2[d])
  BY DEF World
<1> DEFINE q == Other(x)
           e == End(p, acc[d], d)
           f == End(peer[q], accepted[q][d], d)
           t == net[d]
           qbox == inbox[q]
<1>1. Joint(e, f, t, x, q, d, box, qbox)
  BY DEF World, At
<1>2. SameCame(d, box, box2)
  <2>1. /\ \A k : Came(box2, d, k) <=> Came(box, d, k) \/ (c = d /\ a = k)
        /\ CameOnce(box, d) /\ (c = d /\ a = "Open" => ~Came(box, d, "Open"))
             => CameOnce(box2, d)
        /\ CameTwice(box, d) \/ (c = d /\ a = "Zero" /\ Came(box, d, "Zero"))
             => CameTwice(box2, d)
        /\ CameInOrder(box, d) /\ (c = d /\ a = "Update" => Came(box, d, "Keepalive"))
             => CameInOrder(box2, d)
    BY BoxAppend
  <2> QED
    BY <2>1 DEF SameCame
<1>3. t = net2[d]
  BY DEF Elsewhere
<1> HIDE DEF q, e, f, t, qbox
<1>4. Joint(e, f, t, x, q, d, box2, qbox)
  BY <1>1, <1>2, Skips
<1> QED
  BY <1>3, <1>4 DEF At, q, e, f, qbox

\* The interrupts of r get one more.
LEMMA TellsIs ==
  ASSUME IInv, NEW r \in Router, NEW q, q = Other(r), NEW c \in Conn,
         NEW x \in Message \cup {"Zero"}, Tells(r, c, x)
  PROVE  Telling(inbox[r], inbox'[r], c, x) /\ inbox'[q] = inbox[q]
<1>1. inbox \in [Router -> Seq(Interrupts)]
  BY OfRouter DEF InboxOK, InboxType, Interrupts
<1>2. q \in Router /\ q # r
  BY Others
<1>3. inbox'[r] = Append(inbox[r], <<c, x>>) /\ inbox'[q] = inbox[q]
  BY <1>1, <1>2 DEF Tells
<1> QED
  BY <1>1, <1>3 DEF Telling

\* Whatever arrives.
LEMMA DeliverPair ==
  ASSUME IInv, PairInv, NEW r \in Router, NEW c \in Conn, Deliver(r, c)
  PROVE  PairInv'
<1> DEFINE q == Other(r)
           p == peer[r]
           box == inbox[r]
           box2 == inbox'[r]
           qbox == inbox[q]
           t == tcp[c]
           t2 == tcp'[c]
           e == End(p, accepted[r][c], c)
           f == End(peer[q], accepted[q][c], c)
           net2 == tcp'
           m == Head(t.wire[r])
<1>1. q = Other(r) /\ q \in Router /\ q # r /\ r # q
  BY Others
<1>2. /\ Elsewhere(tcp, net2, c) /\ peer' = peer /\ accepted' = accepted
      /\ t.wire[r] # <<>> /\ Passed(t, t2, r, q)
      /\ \/ /\ m = "Up" /\ t.state[r] = "opening" /\ Tells(r, c, "Zero")
            /\ t2.state[r] = "up" /\ t2.wire[q] \in {t.wire[q], Append(t.wire[q], "Up")}
         \/ /\ m = "Fin" /\ t.state[r] = "up" /\ Tells(r, c, "Zero")
            /\ t2.state[r] = "closed" /\ t2.wire[q] = t.wire[q]
         \/ /\ m \in Message /\ Tells(r, c, m)
            /\ t2.state = t.state /\ t2.wire[q] = t.wire[q]
  BY <1>1, DeliveredIs
<1>3. /\ World(r, p, accepted[r], box, tcp) /\ Shape(p)
      /\ t \in TcpType /\ HandshakeFirst(t)
  BY OfPair, OfRouter DEF NetOK, Net
<1>4. Joint(e, f, t, r, q, c, box, qbox)
  BY <1>3 DEF World, At
<1>5. t.wire[r] \in Seq(Wires) /\ t.wire[q] \in Seq(Wires)
  BY <1>1, <1>3, ConnParts DEF Wires
<1>6. \A x \in Message \cup {"Zero"} :
        Tells(r, c, x) => Telling(box, box2, c, x) /\ inbox'[q] = qbox
  BY <1>1, TellsIs
<1>7. t.state[r] = "opening" /\ r \in t.accept => t.state[q] # "opening"
  BY <1>1, <1>2, <1>3 DEF HandshakeFirst
<1> HIDE DEF q, box, box2, qbox, t, t2, e, f, p, m, net2
<1>8. t2.accept = t.accept /\ t2.state[q] = t.state[q] /\ t2.wire[r] = Tail(t.wire[r])
  BY <1>2 DEF Passed
<1>9. \E x : Telling(box, box2, c, x) /\ inbox'[q] = qbox /\ Joint(e, f, t2, r, q, c, box2, qbox)
  <2>1. CASE /\ m = "Up" /\ t.state[r] = "opening" /\ Tells(r, c, "Zero")
             /\ t2.state[r] = "up" /\ t2.wire[q] \in {t.wire[q], Append(t.wire[q], "Up")}
    <3>1. Telling(box, box2, c, "Zero") /\ inbox'[q] = qbox
      BY <1>6, <2>1
    <3>2. Head(t.wire[r]) = "Up"
      BY <2>1 DEF m
    <3>3. Joint(e, f, t2, r, q, c, box2, qbox)
      BY <1>1, <1>2, <1>4, <1>5, <1>7, <1>8, <2>1, <3>1, <3>2, ArrivesUp
    <3> QED
      BY <3>1, <3>3
  <2>2. CASE /\ m = "Fin" /\ t.state[r] = "up" /\ Tells(r, c, "Zero")
             /\ t2.state[r] = "closed" /\ t2.wire[q] = t.wire[q]
    <3>1. Telling(box, box2, c, "Zero") /\ inbox'[q] = qbox
      BY <1>6, <2>2
    <3>2. Head(t.wire[r]) = "Fin"
      BY <2>2 DEF m
    <3>3. Joint(e, f, t2, r, q, c, box2, qbox)
      BY <1>1, <1>2, <1>4, <1>5, <1>8, <2>2, <3>1, <3>2, ArrivesFin
    <3> QED
      BY <3>1, <3>3
  <2>3. CASE /\ m \in Message /\ Tells(r, c, m)
             /\ t2.state = t.state /\ t2.wire[q] = t.wire[q]
    <3>1. Telling(box, box2, c, m) /\ inbox'[q] = qbox /\ m \in Message
      BY <1>6, <2>3
    <3>2. Head(t.wire[r]) = m
      BY DEF m
    <3>3. Joint(e, f, t2, r, q, c, box2, qbox)
      BY <1>1, <1>2, <1>4, <1>5, <1>8, <2>3, <3>1, <3>2, Arrives
    <3> QED
      BY <3>1, <3>3
  <2> QED
    BY <1>2, <2>1, <2>2, <2>3
<1>10. PICK x : Telling(box, box2, c, x) /\ inbox'[q] = qbox
                /\ Joint(e, f, t2, r, q, c, box2, qbox)
  BY <1>9
<1>11. At(r, p, accepted[r][c], c, box2, net2[c])
  BY <1>10 DEF At, q, qbox, t2, net2, e, f
<1>12. World(r, p, accepted[r], box2, net2)
  BY <1>2, <1>3, <1>10, <1>11, ToldAt
<1>13. Shape(peer'[r]) /\ World(r, peer'[r], accepted'[r], inbox'[r], tcp')
  BY <1>2, <1>3, <1>12 DEF p, box2, net2
<1>14. inbox'[q] = inbox[q] /\ peer'[q] = peer[q] /\ accepted'[q] = accepted[q]
  BY <1>2, <1>10 DEF qbox
<1> QED
  BY <1>1, <1>13, <1>14, PairKept

-----------------------------------------------------------------------------
(***************************************************************************)
(* The theorems.                                                           *)
(***************************************************************************)
\* A connection that nobody has used.
LEMMA UnusedSide ==
  ASSUME NEW e, NEW f, Nothing(e), Nothing(f), NEW t, NEW x, NEW q, NEW c,
         t.state[x] = "none", t.state[q] = "none", t.wire[x] = <<>>, t.accept = {}
  PROVE  Side(e, f, t, x, q, c, <<>>)
<1>1. Fins(t, x, q)
  BY EmptyHas DEF Fins
<1>2. Owner(e, t, x, q)
  BY DEF Owner, Nothing
<1>3. Hears(e, t, x, c, <<>>)
  BY DEF Hears, Nothing, Talks
<1>4. /\ \A m : ~Came(<<>>, c, m) /\ ~Comes(m, t, x, c, <<>>)
      /\ CameOnce(<<>>, c)
  BY EmptyHas DEF Came, Comes, CameOnce
<1>5. ~HasOpen(e) /\ ~HasKeepalive(e) /\ ~Occurs(f.buf, "Open") /\ e.status # "OpenConfirm"
  BY EmptyHas DEF HasOpen, HasKeepalive, Nothing, Late
<1>6. Opens(e, f, t, x, q, c, <<>>)
  BY <1>4, <1>5, EmptyHas DEF Opens
<1>7. Confirms(e, f, t, x, q, c, <<>>)
  BY <1>4, <1>5 DEF Confirms, Follow
<1> QED
  BY <1>1, <1>2, <1>3, <1>6, <1>7 DEF Side

LEMMA InitPair == Init => PairInv
<1> SUFFICES ASSUME Init, NEW x \in Router
             PROVE  Shape(peer[x]) /\ World(x, peer[x], accepted[x], inbox[x], tcp)
  BY DEF PairInv
<1> DEFINE q == Other(x)
<1>1. q \in Router
  BY Others
<1>2. peer[x] = IdlePeer /\ peer[q] = IdlePeer /\ inbox[x] = <<>> /\ inbox[q] = <<>>
  BY <1>1 DEF Init
<1>3. /\ IdlePeer.events = <<>> /\ IdlePeer.obuf = <<>> /\ IdlePeer.t_read = NoConn
      /\ IdlePeer.status = "Idle" /\ IdlePeer.timers = {"start"}
      /\ IdlePeer.LocalAgent = NoConn
  BY DEF IdlePeer
<1>4. Shape(IdlePeer) /\ Marks(IdlePeer) = {}
  BY <1>3, QuietShape DEF TimersOf
<1>5. ASSUME NEW c \in Conn
      PROVE  At(x, peer[x], accepted[x][c], c, inbox[x], tcp[c])
  <2> DEFINE e == End(IdlePeer, "none", c)
             t == tcp[c]
  <2>1. accepted[x][c] = "none" /\ accepted[q][c] = "none"
    BY <1>1 DEF Init
  <2>2. /\ t.state[x] = "none" /\ t.state[q] = "none" /\ t.wire[x] = <<>> /\ t.wire[q] = <<>>
        /\ t.accept = {}
    BY <1>1 DEF Init
  <2>3. c # NoConn
    BY DEF Conn, NoConn
  <2>4. Nothing(e)
    BY <1>3, <2>3, EndIs DEF Nothing
  <2> HIDE DEF e, t, q
  <2>5. Side(e, e, t, x, q, c, <<>>) /\ Side(e, e, t, q, x, c, <<>>)
    BY <2>2, <2>4, UnusedSide
  <2> QED
    BY <1>2, <2>1, <2>5 DEF At, Joint, e, t, q
<1> QED
  BY <1>2, <1>4, <1>5 DEF World

LEMMA NextPair == IInv /\ PairInv /\ [Next]_vars => PairInv'
<1> SUFFICES ASSUME IInv, PairInv, [Next]_vars
             PROVE  PairInv'
  OBVIOUS
<1>1. CASE UNCHANGED vars
  BY <1>1 DEF vars, PairInv, World, At
<1>2. CASE Next
  <2>1. PICK r \in Router :
          \/ PeerEvent(r)
          \/ \E t \in Timer : TimerExpires(r, t)
          \/ Write(r)
          \/ Interrupt(r)
          \/ ClearBgp(r)
          \/ \E c \in Conn : AcceptedEvent(r, c) \/ AcceptedHoldExpires(r, c) \/ Deliver(r, c)
    BY <1>2 DEF Next
  <2> QED
    BY <2>1, PeerEventPair, TimerExpiresPair, WritePair, InterruptPair, ClearBgpPair,
       AcceptedEventPair, AcceptedHoldExpiresPair, DeliverPair
<1> QED
  BY <1>1, <1>2

\* The inductive invariant of the two routers: what each end of a connection may rely
\* on about the other, whatever is lost in a close, however messages, FINs, timers and
\* `clear ip bgp' are interleaved, and through transfers from a temporary peer.
THEOREM PairInvariance == Spec => []PairInv
<1>1. Init => IInv /\ PairInv
  BY InitIInv, InitPair
<1>2. IInv /\ PairInv /\ [Next]_vars => (IInv /\ PairInv)'
  BY NextIInv, NextPair
<1> QED
  BY <1>1, <1>2, PTL DEF Spec

\* An Established session has another end that is as far as OpenConfirm on the same
\* connection, or has closed it: a transfer (bgp_open_receive) or a retry
\* (bgp_connect) leaves no end open behind it.
THEOREM SessionsHaveTwoEnds == Spec => []NotOneSided
<1>1. IInv /\ PairInv => NotOneSided
  <2> SUFFICES ASSUME IInv, PairInv, NEW r \in Router, Established(r),
                      NEW c, c = peer[r].LocalAgent, NEW q, q = Other(r)
               PROVE  \/ peer[q].LocalAgent = c
                         /\ peer[q].status \in {"OpenConfirm", "Established"}
                      \/ tcp[c].state[q] = "closed"
    BY DEF NotOneSided
  <2> DEFINE e == End(peer[r], accepted[r][c], c)
             f == End(peer[q], accepted[q][c], c)
             t == tcp[c]
             p == peer[q]
  <2>1. c \in Conn
    <3>1. Connected(peer[r]) /\ peer[r] \in PeerType
      BY OfRouter
    <3> QED
      BY <3>1, PeerParts DEF Established, Connected, Down, MaybeConn
  <2>2. Joint(e, f, t, r, q, c, inbox[r], inbox[q])
    BY <2>1, OfPair DEF World, At
  <2>3. e.status = "Established"
    BY EndIs DEF Established
  <2>4. /\ p.LocalAgent = c => f.status = p.status
        /\ p.LocalAgent # c => f.status = "none"
    BY EndIs
  <2> HIDE DEF e, f, t
  <2>5. Past(f, t, q)
    BY <2>2, <2>3 DEF Joint, Side, Confirms, HasKeepalive
  <2>6. f.status \in Late \/ t.state[q] = "closed"
    BY <2>5 DEF Past, Left
  <2>7. f.status \in Late => p.LocalAgent = c /\ p.status \in {"OpenConfirm", "Established"}
    BY <2>4 DEF Late
  <2> QED
    BY <2>6, <2>7 DEF t
<1> QED
  BY <1>1, Invariance, PairInvariance, PTL

\* An UPDATE that is read is read in Established: what the other end sends after its
\* KEEPALIVE never overtakes it, so bgp_update_receive answers none with a
\* NOTIFICATION.
THEOREM UpdatesAreInTime == Spec => []NoEarlyUpdate
<1>1. IInv /\ PairInv => NoEarlyUpdate
  <2> SUFFICES ASSUME IInv, PairInv, NEW r \in Router, NEW c \in Conn,
                      Waiting(r), inbox[r] # <<>>, Head(inbox[r]) = <<c, "Update">>,
                      peer[r].t_read = c
               PROVE  Established(r)
    BY DEF NoEarlyUpdate
  <2> DEFINE q == Other(r)
             p == peer[r]
             box == inbox[r]
             box2 == Tail(inbox[r])
             m == "Update"
             e == End(p, accepted[r][c], c)
             f == End(peer[q], accepted[q][c], c)
             t == tcp[c]
  <2>1. Handling(box, box2, c, m)
    <3>1. box \in Seq(Interrupts)
      BY OfRouter DEF InboxOK, InboxType, Interrupts
    <3> QED
      BY <3>1 DEF Handling
  <2>2. Joint(e, f, t, r, q, c, box, inbox[q])
    BY OfPair DEF World, At
  <2>3. Marks(p) = {}
    BY WaitingIsQuiet
  <2>4. /\ "read" \in e.threads
        /\ p.LocalAgent = c => e.status = p.status /\ e.marks = Marks(p)
        /\ p.LocalAgent # c => e.status = "none"
    BY EndIs
  <2> HIDE DEF e, f, t, q, box, box2
  <2>5. Came(box, c, m) /\ ~CameInOrder(box, c)
    BY <2>1, BoxTail
  <2>6. Past(e, t, r) /\ Follow(e, f, t, r, c, box)
    BY <2>2, <2>5 DEF Joint, Side, Confirms, Comes
  <2>7. e.status \in Late
    BY <2>4, <2>6 DEF Past, Left
  <2>8. p.LocalAgent = c /\ e.status = p.status /\ e.marks = {}
    BY <2>3, <2>4, <2>7 DEF Late
  <2>9. e.status # "OpenConfirm"
    BY <2>5, <2>6, <2>8 DEF Follow
  <2> QED
    BY <2>7, <2>8, <2>9 DEF Late, Established
<1> QED
  BY <1>1, Invariance, PairInvariance, PTL

\* A connection that the other end has closed does not stay unnoticed: the FIN or its
\* interrupt is on its way to a thread that reads it, the event is queued, or
\* bgp_write runs and fails.  No interrupt is consumed by a thread that does not act
\* on it (bgp_read, bgp_connect_check), and a transfer from a temporary peer loses
\* none.
THEOREM ClosesAreNoticed == Spec => []GoneIsKnown
<1>1. IInv /\ PairInv => GoneIsKnown
  <2> SUFFICES ASSUME IInv, PairInv, NEW r \in Router, NEW c \in Conn,
                      tcp[c].state[Other(r)] = "closed"
               PROVE  /\ accepted[r][c] = "OpenSent" => Told(r, c)
                      /\ Holds(r, c) =>
                           \/ peer[r].t_read = c /\ Told(r, c)
                           \/ Occurs(peer[r].events, "Closed")
                           \/ peer[r].t_write /\ peer[r].obuf # <<>>
    BY DEF GoneIsKnown, Occurs
  <2> DEFINE q == Other(r)
             p == peer[r]
             box == inbox[r]
             a == accepted[r][c]
             e == End(p, a, c)
             f == End(peer[q], accepted[q][c], c)
             t == tcp[c]
  <2>1. Told(r, c) <=> Occurs(t.wire[r], "Fin") \/ Came(box, c, "Zero")
    BY DEF Told, Occurs, Came
  <2>2. Joint(e, f, t, r, q, c, box, inbox[q])
    BY OfPair DEF World, At
  <2>3. t.state[q] = "closed"
    OBVIOUS
  <2>4. "accepted" \in e.threads <=> a # "none"
    BY EndIs
  <2>5. a # "none" => t.state[r] \in {"up", "closed"}
    BY OfRouter DEF AcceptedOK, Reached
  <2>6. /\ p.LocalAgent = c => /\ e.status = p.status /\ e.buf = p.obuf /\ e.marks = Marks(p)
                               /\ "write" \in e.threads <=> p.t_write
        /\ "read" \in e.threads <=> p.t_read = c
    BY EndIs
  <2> HIDE DEF q, box, a, e, f, t
  <2>7. /\ Fins(t, r, q) /\ Hears(e, t, r, c, box)
    BY <2>2 DEF Joint, Side
  <2>8. a = "OpenSent" => Told(r, c)
    BY <2>1, <2>3, <2>4, <2>5, <2>7 DEF Fins, Hears
  <2>9. ASSUME Holds(r, c)
        PROVE  \/ p.t_read = c /\ Told(r, c)
               \/ Occurs(p.events, "Closed")
               \/ p.t_write /\ p.obuf # <<>>
    <3>1. p.LocalAgent = c /\ p.status \in Talks
      BY <2>9 DEF Holds, Talks
    <3>2. /\ e.status = p.status /\ e.buf = p.obuf /\ e.marks = Marks(p)
          /\ "read" \in e.threads <=> p.t_read = c
      BY <2>6, <3>1
    <3>3. "write" \in e.threads => p.t_write
      BY <2>6, <3>1, Zenon
    <3>4. CASE t.state[r] # "closed"
      <4>1. t.state[r] = "up" /\ "read" \in e.threads
        BY <2>7, <3>1, <3>2, <3>4 DEF Hears
      <4>2. Occurs(t.wire[r], "Fin")
        BY <2>3, <2>7, <4>1 DEF Fins
      <4> QED
        BY <2>1, <3>2, <4>1, <4>2
    <3>5. CASE t.state[r] = "closed"
      <4>1. \/ "read" \in e.threads /\ Came(box, c, "Zero")
            \/ "Closed" \in e.marks
            \/ "write" \in e.threads /\ e.buf # <<>>
        BY <2>7, <3>1, <3>2, <3>5 DEF Hears
      <4>2. "Closed" \in e.marks => Occurs(p.events, "Closed")
        BY <3>2 DEF Marks
      <4>3. "read" \in e.threads /\ Came(box, c, "Zero") => p.t_read = c /\ Told(r, c)
        BY <2>1, <3>2
      <4>4. e.buf = p.obuf
        BY <3>2
      <4> QED
        BY <3>3, <4>1, <4>2, <4>3, <4>4, Zenon
    <3> QED
      BY <3>4, <3>5
  <2> QED
    BY <2>8, <2>9 DEF a
<1> QED
  BY <1>1, Invariance, PairInvariance, PTL
=============================================================================
