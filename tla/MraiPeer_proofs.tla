-------------------------- MODULE MraiPeer_proofs --------------------------
(***************************************************************************)
(* Proofs about MraiPeer, for any finite set of prefixes, any policies,    *)
(* any interval and any bound on the output buffer.  First the lists of    *)
(* suppressed updates, then the helpers on struct peer, then one lemma for *)
(* each action: it keeps the invariant, and it is a step of Outbound or    *)
(* nothing to the neighbour.  The theorems follow at the end.              *)
(***************************************************************************)
EXTENDS MraiPeer, FiniteSetTheorems, SequenceTheorems, TLAPS

Entry == [prefix : Prefix, attr : Attr]

\* the function f with the value a at p
Put(f, p, a) == [f EXCEPT ![p] = a]

\* at most one entry for each prefix
Distinct(q) == \A i, j \in 1..Len(q) : q[i].prefix = q[j].prefix => i = j

\* A session that is down is as bgp_stop leaves it, the write thread apart.
DownIsClean ==
  ~peer.up =>
    /\ peer.top_adv = <<>> /\ peer.t_routeadv = Off /\ peer.obuf = 0
    /\ told = [p \in Prefix |-> NoRoute] /\ wanted = [p \in Prefix |-> NoRoute]

\* The age of the interval and the timer tell the same time.
SinceFollowsTimer ==
  since = IF peer.t_routeadv = Off THEN Mrai ELSE Mrai - peer.t_routeadv

SessionOK ==
  /\ peer \in PeerType
  /\ told \in [Prefix -> Told]
  /\ wanted \in [Prefix -> Told]
  /\ since \in 0..Mrai
  /\ NoneStranded
  /\ OneForEachPrefix
  /\ AdjOutIsTold
  /\ DownIsClean
  /\ SinceFollowsTimer

\* The walk of bgp_refresh_table finds the session up and room in the buffer.
WalkHasRoom ==
  walk # {} => peer.up /\ peer.obuf + Cardinality(walk) <= MaxObuf

IInv ==
  /\ SessionOK
  /\ sel \in [Prefix -> Route \cup {NoRoute}]
  /\ policy \in Policy
  /\ walk \subseteq Prefix
  /\ WalkHasRoom

-----------------------------------------------------------------------------
\* What is left when the i-th element is taken out.
LEMMA RemoveAtProperties ==
  ASSUME NEW S, NEW q \in Seq(S), NEW i \in 1..Len(q)
  PROVE  /\ RemoveAt(q, i) \in Seq(S)
         /\ Len(RemoveAt(q, i)) = Len(q) - 1
         /\ \A j \in 1..(Len(q) - 1) :
              RemoveAt(q, i)[j] = IF j < i THEN q[j] ELSE q[j + 1]
<1> DEFINE s == SubSeq(q, 1, i - 1)
           t == SubSeq(q, i + 1, Len(q))
<1>1. /\ s \in Seq(S) /\ Len(s) = i - 1
      /\ \A j \in 1..(i - 1) : s[j] = q[j]
  <2>1. /\ s \in Seq(S)
        /\ Len(s) = IF 1 <= i - 1 THEN (i - 1) - 1 + 1 ELSE 0
        /\ \A j \in 1..((i - 1) - 1 + 1) : s[j] = q[1 + j - 1]
    <3>1. 1 \in 1..(Len(q) + 1) /\ i - 1 \in 0..Len(q)
      OBVIOUS
    <3> QED
      BY <3>1, SubSeqProperties
  <2> QED
    BY <2>1
<1>2. /\ t \in Seq(S) /\ Len(t) = Len(q) - i
      /\ \A j \in 1..(Len(q) - i) : t[j] = q[i + j]
  <2>1. /\ t \in Seq(S)
        /\ Len(t) = IF i + 1 <= Len(q) THEN Len(q) - (i + 1) + 1 ELSE 0
        /\ \A j \in 1..(Len(q) - (i + 1) + 1) : t[j] = q[(i + 1) + j - 1]
    <3>1. i + 1 \in 1..(Len(q) + 1) /\ Len(q) \in 0..Len(q)
      OBVIOUS
    <3> QED
      BY <3>1, SubSeqProperties
  <2> QED
    BY <2>1
<1>3. RemoveAt(q, i) = s \o t
  BY DEF RemoveAt
<1> HIDE DEF s, t
<1>4. /\ s \o t \in Seq(S)
      /\ Len(s \o t) = Len(s) + Len(t)
      /\ \A j \in 1..(Len(s) + Len(t)) :
           (s \o t)[j] = IF j <= Len(s) THEN s[j] ELSE t[j - Len(s)]
  BY <1>1, <1>2, ConcatProperties
<1> QED
  BY <1>1, <1>2, <1>3, <1>4

\* What the list holds for a prefix is the attribute of its only entry.
LEMMA HeldInProperties ==
  ASSUME NEW q \in Seq(Entry), Distinct(q)
  PROVE  /\ HeldIn(q) \in [Prefix -> Told]
         /\ \A i \in 1..Len(q) : HeldIn(q)[q[i].prefix] = q[i].attr
         /\ \A p \in Prefix : PlacesOf(q, p) = {} => HeldIn(q)[p] = NoRoute
<1>1. \A i \in 1..Len(q) : q[i] \in Entry
  BY ElementOfSeq
<1>2. \A p \in Prefix : PlacesOf(q, p) # {} =>
        /\ (CHOOSE i \in PlacesOf(q, p) : TRUE) \in PlacesOf(q, p)
  OBVIOUS
<1>3. \A i \in 1..Len(q) : PlacesOf(q, q[i].prefix) = {i}
  BY DEF PlacesOf, Distinct
<1>4. HeldIn(q) \in [Prefix -> Told]
  BY <1>1, <1>2 DEF HeldIn, Told, PlacesOf, Entry
<1>5. ASSUME NEW i \in 1..Len(q)
      PROVE  HeldIn(q)[q[i].prefix] = q[i].attr
  <2>1. q[i].prefix \in Prefix
    BY <1>1 DEF Entry
  <2> QED
    BY <1>3, <2>1 DEF HeldIn
<1> QED
  BY <1>4, <1>5 DEF HeldIn

\* The entry of p is gone, and nothing else.
LEMMA RemoveProperties ==
  ASSUME NEW q \in Seq(Entry), Distinct(q), NEW p \in Prefix
  PROVE  /\ AdvertiseRemove(q, p) \in Seq(Entry)
         /\ Distinct(AdvertiseRemove(q, p))
         /\ PlacesOf(AdvertiseRemove(q, p), p) = {}
         /\ AdvertiseRemove(q, p) # <<>> => q # <<>>
         /\ HeldIn(AdvertiseRemove(q, p)) = Put(HeldIn(q), p, NoRoute)
<1>1. CASE PlacesOf(q, p) = {}
  <2>1. AdvertiseRemove(q, p) = q
    BY <1>1 DEF AdvertiseRemove
  <2>2. HeldIn(q)[p] = NoRoute /\ HeldIn(q) \in [Prefix -> Told]
    BY <1>1, HeldInProperties
  <2> QED
    BY <1>1, <2>1, <2>2 DEF Put
<1>2. CASE PlacesOf(q, p) # {}
  <2> DEFINE k == CHOOSE i \in PlacesOf(q, p) : TRUE
             r == RemoveAt(q, k)
  <2>1. k \in 1..Len(q) /\ q[k].prefix = p
    <3>1. k \in PlacesOf(q, p)
      BY <1>2
    <3> QED
      BY <3>1 DEF PlacesOf
  <2>2. AdvertiseRemove(q, p) = r
    BY <1>2 DEF AdvertiseRemove
  <2> HIDE DEF k
  <2>3. /\ r \in Seq(Entry)
        /\ Len(r) = Len(q) - 1
        /\ \A j \in 1..(Len(q) - 1) : r[j] = IF j < k THEN q[j] ELSE q[j + 1]
    BY <2>1, RemoveAtProperties
  <2> HIDE DEF r
  <2>4. Len(q) \in Nat /\ Len(r) \in Nat
    BY <2>3, LenProperties
  <2> DEFINE from(j) == IF j < k THEN j ELSE j + 1
  <2>5. \A j \in 1..Len(r) : from(j) \in 1..Len(q) /\ from(j) # k /\ r[j] = q[from(j)]
    BY <2>1, <2>3, <2>4
  <2>6. \A i, j \in 1..Len(r) : from(i) = from(j) => i = j
    BY <2>1, <2>3, <2>4
  <2>7. \A i \in 1..Len(q) : i # k => \E j \in 1..Len(r) : from(j) = i
    <3> TAKE i \in 1..Len(q)
    <3>1. CASE i < k
      BY <2>1, <2>3, <2>4, <3>1, i \in 1..Len(r)
    <3>2. CASE i > k
      <4>1. i - 1 \in 1..Len(r) /\ from(i - 1) = i
        BY <2>1, <2>3, <2>4, <3>2
      <4> QED
        BY <4>1
    <3> QED
      BY <2>1, <2>4, <3>1, <3>2
  <2> HIDE DEF from
  <2>8. Distinct(r)
    BY <2>5, <2>6 DEF Distinct
  <2>9. PlacesOf(r, p) = {}
    BY <2>1, <2>5 DEF PlacesOf, Distinct
  <2>10. q # <<>>
    BY <2>1, <2>4, EmptySeq
  <2>11. /\ HeldIn(r) \in [Prefix -> Told]
         /\ \A i \in 1..Len(r) : HeldIn(r)[r[i].prefix] = r[i].attr
         /\ \A x \in Prefix : PlacesOf(r, x) = {} => HeldIn(r)[x] = NoRoute
    BY <2>3, <2>8, HeldInProperties
  <2>12. /\ HeldIn(q) \in [Prefix -> Told]
         /\ \A i \in 1..Len(q) : HeldIn(q)[q[i].prefix] = q[i].attr
         /\ \A x \in Prefix : PlacesOf(q, x) = {} => HeldIn(q)[x] = NoRoute
    BY HeldInProperties
  <2>13. ASSUME NEW x \in Prefix, x # p
         PROVE  HeldIn(r)[x] = HeldIn(q)[x]
    <3>1. CASE PlacesOf(q, x) = {}
      <4>1. PlacesOf(r, x) = {}
        BY <2>5, <3>1 DEF PlacesOf
      <4> QED
        BY <2>11, <2>12, <3>1, <4>1
    <3>2. CASE PlacesOf(q, x) # {}
      <4>1. PICK i \in 1..Len(q) : q[i].prefix = x
        BY <3>2 DEF PlacesOf
      <4>2. PICK j \in 1..Len(r) : r[j] = q[i]
        BY <2>1, <2>5, <2>7, <2>13, <4>1
      <4> QED
        BY <2>11, <2>12, <4>1, <4>2
    <3> QED
      BY <3>1, <3>2
  <2>14. HeldIn(r) = Put(HeldIn(q), p, NoRoute)
    <3>1. HeldIn(r)[p] = NoRoute
      BY <2>9, <2>11
    <3> QED
      BY <2>11, <2>12, <2>13, <3>1 DEF Put
  <2> QED
    BY <2>2, <2>3, <2>8, <2>9, <2>10, <2>14
<1> QED
  BY <1>1, <1>2

\* An entry for a prefix that has none.
LEMMA AppendEntry ==
  ASSUME NEW q \in Seq(Entry), Distinct(q), NEW p \in Prefix, NEW a \in Attr,
         PlacesOf(q, p) = {}, NEW r, r = Append(q, [prefix |-> p, attr |-> a])
  PROVE  /\ r \in Seq(Entry)
         /\ Distinct(r)
         /\ HeldIn(r) = Put(HeldIn(q), p, a)
<1> DEFINE e == [prefix |-> p, attr |-> a]
<1>1. e \in Entry /\ e.prefix = p /\ e.attr = a
  BY DEF Entry
<1> HIDE DEF e
<1>2. /\ r \in Seq(Entry)
      /\ Len(r) = Len(q) + 1
      /\ \A i \in 1..Len(q) : r[i] = q[i]
      /\ r[Len(q) + 1] = e
  <2>1. r = Append(q, e)
    BY DEF e
  <2> QED
    BY <1>1, <2>1, AppendProperties
<1>3. Len(q) \in Nat
  BY LenProperties
<1>4. \A i \in 1..Len(r) :
        \/ i \in 1..Len(q) /\ r[i] = q[i]
        \/ i = Len(r) /\ r[i] = e
  BY <1>2, <1>3
<1>5. \A i \in 1..Len(q) : q[i].prefix # p
  BY DEF PlacesOf
<1>6. Distinct(r)
  BY <1>1, <1>2, <1>4, <1>5 DEF Distinct
<1>7. /\ HeldIn(r) \in [Prefix -> Told]
      /\ \A i \in 1..Len(r) : HeldIn(r)[r[i].prefix] = r[i].attr
      /\ \A x \in Prefix : PlacesOf(r, x) = {} => HeldIn(r)[x] = NoRoute
  BY <1>2, <1>6, HeldInProperties
<1>8. /\ HeldIn(q) \in [Prefix -> Told]
      /\ \A i \in 1..Len(q) : HeldIn(q)[q[i].prefix] = q[i].attr
      /\ \A x \in Prefix : PlacesOf(q, x) = {} => HeldIn(q)[x] = NoRoute
  BY HeldInProperties
<1>9. HeldIn(r)[p] = a
  <2>1. Len(r) \in 1..Len(r) /\ r[Len(r)] = e
    BY <1>2, <1>3
  <2> QED
    BY <1>1, <1>7, <2>1
<1>10. ASSUME NEW x \in Prefix, x # p
       PROVE  HeldIn(r)[x] = HeldIn(q)[x]
  <2>1. CASE PlacesOf(q, x) = {}
    <3>1. PlacesOf(r, x) = {}
      BY <1>1, <1>4, <1>10, <2>1 DEF PlacesOf
    <3> QED
      BY <1>7, <1>8, <2>1, <3>1
  <2>2. CASE PlacesOf(q, x) # {}
    <3>1. PICK i \in 1..Len(q) : q[i].prefix = x
      BY <2>2 DEF PlacesOf
    <3>2. i \in 1..Len(r) /\ r[i] = q[i]
      BY <1>2, <1>3
    <3> QED
      BY <1>7, <1>8, <3>1, <3>2
  <2> QED
    BY <2>1, <2>2
<1>11. HeldIn(r) = Put(HeldIn(q), p, a)
  BY <1>7, <1>8, <1>9, <1>10 DEF Put
<1> QED
  BY <1>2, <1>6, <1>11

\* bgp_advertise_insert leaves one entry for p, with the new attribute.
LEMMA InsertProperties ==
  ASSUME NEW q \in Seq(Entry), Distinct(q), NEW p \in Prefix, NEW a \in Attr
  PROVE  /\ AdvertiseInsert(q, p, a) \in Seq(Entry)
         /\ Distinct(AdvertiseInsert(q, p, a))
         /\ HeldIn(AdvertiseInsert(q, p, a)) = Put(HeldIn(q), p, a)
<1> DEFINE r == AdvertiseRemove(q, p)
<1>1. /\ r \in Seq(Entry) /\ Distinct(r) /\ PlacesOf(r, p) = {}
      /\ HeldIn(r) = Put(HeldIn(q), p, NoRoute)
  BY RemoveProperties
<1>2. HeldIn(q) \in [Prefix -> Told]
  BY HeldInProperties
<1>3. AdvertiseInsert(q, p, a) = Append(r, [prefix |-> p, attr |-> a])
  BY DEF AdvertiseInsert
<1> HIDE DEF r
<1>4. /\ AdvertiseInsert(q, p, a) \in Seq(Entry)
      /\ Distinct(AdvertiseInsert(q, p, a))
      /\ HeldIn(AdvertiseInsert(q, p, a)) = Put(HeldIn(r), p, a)
  BY <1>1, <1>3, AppendEntry
<1> QED
  BY <1>1, <1>2, <1>4 DEF Put

\* The oldest entry is what is held for its prefix, and goes.
LEMMA TailProperties ==
  ASSUME NEW q \in Seq(Entry), Distinct(q), q # <<>>
  PROVE  /\ Head(q) \in Entry
         /\ Tail(q) \in Seq(Entry)
         /\ Distinct(Tail(q))
         /\ Tail(q) = <<>> <=> Len(q) = 1
         /\ HeldIn(q)[Head(q).prefix] = Head(q).attr
         /\ HeldIn(Tail(q)) = Put(HeldIn(q), Head(q).prefix, NoRoute)
<1> DEFINE r == Tail(q)
           e == Head(q)
<1>1. Len(q) \in Nat /\ Len(q) >= 1
  BY EmptySeq, LenProperties
<1>2. /\ e \in Entry /\ e = q[1]
      /\ r \in Seq(Entry) /\ Len(r) = Len(q) - 1
      /\ \A i \in 1..Len(r) : r[i] = q[i + 1]
  <2>1. /\ e \in Entry
        /\ r \in Seq(Entry) /\ Len(r) = Len(q) - 1
        /\ \A i \in 1..Len(r) : r[i] = q[i + 1]
    BY HeadTailProperties
  <2>2. e = q[1]
    OBVIOUS
  <2> QED
    BY <2>1, <2>2
<1> HIDE DEF r, e
<1>3. r = <<>> <=> Len(q) = 1
  <2>1. r = <<>> => Len(r) = 0
    OBVIOUS
  <2>2. Len(r) = 0 => r = <<>>
    BY <1>2, EmptySeq
  <2> QED
    BY <1>1, <1>2, <2>1, <2>2
<1>4. Distinct(r)
  BY <1>1, <1>2 DEF Distinct
<1>5. /\ HeldIn(r) \in [Prefix -> Told]
      /\ \A i \in 1..Len(r) : HeldIn(r)[r[i].prefix] = r[i].attr
      /\ \A x \in Prefix : PlacesOf(r, x) = {} => HeldIn(r)[x] = NoRoute
  BY <1>2, <1>4, HeldInProperties
<1>6. /\ HeldIn(q) \in [Prefix -> Told]
      /\ \A i \in 1..Len(q) : HeldIn(q)[q[i].prefix] = q[i].attr
      /\ \A x \in Prefix : PlacesOf(q, x) = {} => HeldIn(q)[x] = NoRoute
  BY HeldInProperties
<1>7. HeldIn(q)[e.prefix] = e.attr
  BY <1>1, <1>2, <1>6
<1>8. PlacesOf(r, e.prefix) = {}
  BY <1>1, <1>2 DEF PlacesOf, Distinct
<1>9. ASSUME NEW x \in Prefix, x # e.prefix
      PROVE  HeldIn(r)[x] = HeldIn(q)[x]
  <2>1. CASE PlacesOf(q, x) = {}
    <3>1. PlacesOf(r, x) = {}
      BY <1>1, <1>2, <2>1 DEF PlacesOf
    <3> QED
      BY <1>5, <1>6, <2>1, <3>1
  <2>2. CASE PlacesOf(q, x) # {}
    <3>1. PICK i \in 1..Len(q) : q[i].prefix = x
      BY <2>2 DEF PlacesOf
    <3>2. i - 1 \in 1..Len(r) /\ r[i - 1] = q[i]
      BY <1>1, <1>2, <1>9, <3>1
    <3> QED
      BY <1>5, <1>6, <3>1, <3>2
  <2> QED
    BY <2>1, <2>2
<1>10. e.prefix \in Prefix
  BY <1>2 DEF Entry
<1>11. HeldIn(r) = Put(HeldIn(q), e.prefix, NoRoute)
  BY <1>5, <1>6, <1>8, <1>9, <1>10 DEF Put
<1> QED
  BY <1>2, <1>3, <1>4, <1>7, <1>11 DEF r, e

-----------------------------------------------------------------------------
\* bgp_packet_add and BGP_WRITE_ON
LEMMA SendFields ==
  ASSUME NEW s \in PeerType, s.obuf < MaxObuf
  PROVE  /\ Send(s) \in PeerType
         /\ Send(s).up = s.up /\ Send(s).adj_out = s.adj_out
         /\ Send(s).top_adv = s.top_adv /\ Send(s).t_routeadv = s.t_routeadv
         /\ Send(s).t_write = TRUE /\ Send(s).obuf = s.obuf + 1
<1>1. s.obuf + 1 \in 0..MaxObuf
  BY MaxObufAssumption DEF PeerType
<1> QED
  BY <1>1 DEF Send, PeerType

\* bgp_update_send and bgp_adj_set
LEMMA SendUpdateFields ==
  ASSUME NEW s \in PeerType, s.obuf < MaxObuf, NEW p \in Prefix, NEW a \in Told
  PROVE  /\ SendUpdate(s, p, a) \in PeerType
         /\ SendUpdate(s, p, a).up = s.up
         /\ SendUpdate(s, p, a).adj_out = Put(s.adj_out, p, a)
         /\ SendUpdate(s, p, a).top_adv = s.top_adv
         /\ SendUpdate(s, p, a).t_routeadv = s.t_routeadv
         /\ SendUpdate(s, p, a).t_write = TRUE
         /\ SendUpdate(s, p, a).obuf = s.obuf + 1
<1> DEFINE t == Send(s)
<1>1. /\ t \in PeerType
      /\ t.up = s.up /\ t.adj_out = s.adj_out
      /\ t.top_adv = s.top_adv /\ t.t_routeadv = s.t_routeadv
      /\ t.t_write = TRUE /\ t.obuf = s.obuf + 1
  BY SendFields
<1>2. SendUpdate(s, p, a) = [t EXCEPT !.adj_out = Put(t.adj_out, p, a)]
  BY DEF SendUpdate, Put
<1> HIDE DEF t
<1>3. Put(t.adj_out, p, a) \in [Prefix -> Told]
  BY <1>1 DEF PeerType, Put
<1> QED
  BY <1>1, <1>2, <1>3 DEF PeerType

\* BGP_TIMER_ON
LEMMA TimerOnFields ==
  ASSUME NEW s \in PeerType
  PROVE  /\ TimerOn(s) \in PeerType
         /\ TimerOn(s).up = s.up /\ TimerOn(s).adj_out = s.adj_out
         /\ TimerOn(s).top_adv = s.top_adv
         /\ TimerOn(s).t_routeadv = (IF s.t_routeadv = Off THEN Mrai ELSE s.t_routeadv)
         /\ TimerOn(s).t_write = s.t_write /\ TimerOn(s).obuf = s.obuf
<1>1. Mrai \in 0..Mrai
  BY MraiAssumption
<1> QED
  BY <1>1 DEF TimerOn, PeerType

\* The oldest suppressed update is sent.
LEMMA SendTopFields ==
  ASSUME NEW s \in PeerType, s.obuf < MaxObuf,
         s.top_adv # <<>>, Distinct(s.top_adv)
  PROVE  /\ SendTop(s) \in PeerType
         /\ SendTop(s).up = s.up
         /\ SendTop(s).adj_out = Put(s.adj_out, Head(s.top_adv).prefix, Head(s.top_adv).attr)
         /\ SendTop(s).top_adv = Tail(s.top_adv)
         /\ SendTop(s).t_routeadv = s.t_routeadv
         /\ SendTop(s).t_write = TRUE
         /\ SendTop(s).obuf = s.obuf + 1
<1> DEFINE e == Head(s.top_adv)
           t == SendUpdate(s, e.prefix, e.attr)
<1>1. e.prefix \in Prefix /\ e.attr \in Told /\ Tail(s.top_adv) \in Seq(Entry)
  <2>1. s.top_adv \in Seq(Entry)
    BY DEF PeerType, Entry
  <2>2. e \in Entry /\ Tail(s.top_adv) \in Seq(Entry)
    BY <2>1, TailProperties
  <2> QED
    BY <2>2 DEF Entry, Told
<1>2. SendTop(s) = [t EXCEPT !.top_adv = Tail(t.top_adv)]
  BY DEF SendTop
<1> HIDE DEF e
<1>3. /\ t \in PeerType
      /\ t.up = s.up /\ t.adj_out = Put(s.adj_out, e.prefix, e.attr)
      /\ t.top_adv = s.top_adv /\ t.t_routeadv = s.t_routeadv
      /\ t.t_write = TRUE /\ t.obuf = s.obuf + 1
  BY <1>1, SendUpdateFields
<1> HIDE DEF t
<1> QED
  BY <1>1, <1>2, <1>3 DEF PeerType, Entry, e

-----------------------------------------------------------------------------
\* What the facts about the lists say of the session.
LEMMA ListFacts ==
  ASSUME SessionOK
  PROVE  peer.top_adv \in Seq(Entry) /\ Distinct(peer.top_adv)
  BY DEF SessionOK, PeerType, Entry, OneForEachPrefix, Distinct

\* A decision, sent, held back or withdrawn.
LEMMA ProcessSessionStep ==
  ASSUME SessionOK, NEW p \in Prefix, NEW a \in Told, ProcessSession(p, a)
  PROVE  /\ SessionOK'
         /\ peer'.up = peer.up
         /\ peer'.obuf <= peer.obuf + 1
         /\ \/ UNCHANGED Abstract!vars
            \/ a = NoRoute /\ Abstract!Withdraw(p)
            \/ a \in Attr /\ (Abstract!Announce(p, a) \/ Abstract!Hold(p, a))
<1>0. peer.obuf \in Nat /\ peer.up \in BOOLEAN
  BY MaxObufAssumption DEF SessionOK, PeerType
<1>1. CASE ~peer.up /\ UNCHANGED <<peer, told, wanted, since>>
  <2>1. SessionOK' /\ UNCHANGED Abstract!vars
    BY <1>1 DEF SessionOK, NoneStranded, OneForEachPrefix, AdjOutIsTold, DownIsClean,
                SinceFollowsTimer, Abstract!vars, Held
  <2> QED
    BY <1>0, <1>1, <2>1
<1>2. CASE /\ peer.up /\ a = NoRoute /\ peer.obuf < MaxObuf
           /\ LET s == [peer EXCEPT !.top_adv = AdvertiseRemove(@, p)]
              IN  peer' = IF s.adj_out[p] = NoRoute THEN s
                          ELSE [Send(s) EXCEPT !.adj_out[p] = NoRoute]
           /\ told' = [told EXCEPT ![p] = IF peer.adj_out[p] = NoRoute THEN @ ELSE NoRoute]
           /\ wanted' = [wanted EXCEPT ![p] = a]
           /\ UNCHANGED since
  <2> DEFINE q == AdvertiseRemove(peer.top_adv, p)
             s == [peer EXCEPT !.top_adv = q]
  <2>1. /\ q \in Seq(Entry) /\ Distinct(q) /\ (q # <<>> => peer.top_adv # <<>>)
        /\ HeldIn(q) = Put(Held, p, NoRoute)
    BY ListFacts, RemoveProperties DEF Held
  <2>2. peer' = IF s.adj_out[p] = NoRoute THEN s ELSE SendUpdate(s, p, NoRoute)
    BY <1>2 DEF SendUpdate
  <2> HIDE DEF q
  <2>3. /\ s \in PeerType /\ s.up = peer.up /\ s.adj_out = peer.adj_out
        /\ s.top_adv = q /\ s.t_routeadv = peer.t_routeadv
        /\ s.t_write = peer.t_write /\ s.obuf = peer.obuf
    BY <2>1 DEF SessionOK, PeerType, Entry
  <2> HIDE DEF s
  <2>4. /\ peer' \in PeerType /\ peer'.up = peer.up
        /\ peer'.adj_out = Put(peer.adj_out, p, NoRoute)
        /\ peer'.top_adv = q /\ peer'.t_routeadv = peer.t_routeadv
        /\ (peer.t_write => peer'.t_write)
        /\ peer'.obuf \in {peer.obuf, peer.obuf + 1}
    <3>1. CASE s.adj_out[p] = NoRoute
      <4>1. Put(peer.adj_out, p, NoRoute) = peer.adj_out
        BY <2>3, <3>1 DEF Put, PeerType
      <4> QED
        BY <2>2, <2>3, <3>1, <4>1
    <3>2. CASE s.adj_out[p] # NoRoute
      <4>1. peer' = SendUpdate(s, p, NoRoute)
        BY <2>2, <3>2
      <4>2. s.obuf < MaxObuf /\ NoRoute \in Told
        BY <1>2, <2>3 DEF Told
      <4> DEFINE t == SendUpdate(s, p, NoRoute)
      <4>3. /\ t \in PeerType
            /\ t.up = s.up /\ t.adj_out = Put(s.adj_out, p, NoRoute)
            /\ t.top_adv = s.top_adv /\ t.t_routeadv = s.t_routeadv
            /\ t.t_write = TRUE /\ t.obuf = s.obuf + 1
        BY <2>3, <4>2, SendUpdateFields
      <4>4. peer' = t
        BY <4>1
      <4> HIDE DEF t
      <4> QED
        BY <2>3, <4>3, <4>4
    <3> QED
      BY <3>1, <3>2
  <2>5. told' = Put(told, p, NoRoute) /\ wanted' = Put(wanted, p, NoRoute)
    <3>1. told \in [Prefix -> Told] /\ peer.adj_out = told
      BY DEF SessionOK, AdjOutIsTold
    <3>2. told' = Put(told, p, IF told[p] = NoRoute THEN told[p] ELSE NoRoute)
      BY <1>2, <3>1 DEF Put
    <3>3. (IF told[p] = NoRoute THEN told[p] ELSE NoRoute) = NoRoute
      OBVIOUS
    <3>4. told' = Put(told, p, NoRoute)
      BY <3>2, <3>3
    <3>5. wanted' = Put(wanted, p, NoRoute)
      BY <1>2 DEF Put
    <3> QED
      BY <3>4, <3>5
  <2>6. told' \in [Prefix -> Told] /\ wanted' \in [Prefix -> Told]
    <3>1. told \in [Prefix -> Told] /\ wanted \in [Prefix -> Told] /\ NoRoute \in Told
      BY DEF SessionOK, Told
    <3> QED
      BY <2>5, <3>1 DEF Put
  <2>7. NoneStranded'
    BY <1>0, <2>1, <2>4 DEF SessionOK, NoneStranded
  <2>8. OneForEachPrefix'
    BY <2>1, <2>4 DEF OneForEachPrefix, Distinct
  <2>9. AdjOutIsTold'
    BY <2>4, <2>5 DEF SessionOK, AdjOutIsTold
  <2>10. DownIsClean' /\ SinceFollowsTimer'
    BY <1>2, <2>4 DEF SessionOK, DownIsClean, SinceFollowsTimer
  <2>11. Held' = Put(Held, p, NoRoute)
    BY <2>1, <2>4 DEF Held
  <2>12. Abstract!Withdraw(p)
    BY <1>2, <2>4, <2>5, <2>11 DEF Abstract!Withdraw, Put
  <2>13. SessionOK'
    BY <1>2, <2>4, <2>6, <2>7, <2>8, <2>9, <2>10 DEF SessionOK
  <2>14. peer'.obuf <= peer.obuf + 1
    BY <1>0, <2>4
  <2>15. a = NoRoute
    BY <1>2
  <2> QED
    BY <2>4, <2>12, <2>13, <2>14, <2>15
<1>3. CASE /\ peer.up /\ a # NoRoute /\ peer.t_routeadv = Off /\ peer.obuf < MaxObuf
           /\ peer' = SendUpdate(TimerOn(peer), p, a)
           /\ told' = [told EXCEPT ![p] = a]
           /\ wanted' = [wanted EXCEPT ![p] = a]
           /\ since' = 0
  <2> DEFINE s == TimerOn(peer)
  <2>1. /\ s \in PeerType /\ s.up = peer.up /\ s.adj_out = peer.adj_out
        /\ s.top_adv = peer.top_adv /\ s.t_routeadv = Mrai /\ s.obuf = peer.obuf
    BY <1>3, TimerOnFields DEF SessionOK
  <2> HIDE DEF s
  <2>2. /\ peer' \in PeerType /\ peer'.up = peer.up
        /\ peer'.adj_out = Put(peer.adj_out, p, a)
        /\ peer'.top_adv = peer.top_adv /\ peer'.t_routeadv = Mrai
        /\ peer'.obuf = peer.obuf + 1
    <3>1. peer' = SendUpdate(s, p, a)
      BY <1>3 DEF s
    <3>2. s.obuf < MaxObuf
      BY <1>3, <2>1
    <3> DEFINE t == SendUpdate(s, p, a)
    <3>3. /\ t \in PeerType
          /\ t.up = s.up /\ t.adj_out = Put(s.adj_out, p, a)
          /\ t.top_adv = s.top_adv /\ t.t_routeadv = s.t_routeadv
          /\ t.t_write = TRUE /\ t.obuf = s.obuf + 1
      BY <2>1, <3>2, SendUpdateFields
    <3>4. peer' = t
      BY <3>1
    <3> HIDE DEF t
    <3> QED
      BY <2>1, <3>3, <3>4
  <2>3. told' = Put(told, p, a) /\ wanted' = Put(wanted, p, a)
    BY <1>3 DEF Put
  <2>4. told' \in [Prefix -> Told] /\ wanted' \in [Prefix -> Told] /\ since' \in 0..Mrai
    BY <1>3, <2>3, MraiAssumption DEF SessionOK, Put
  <2>5. Mrai # Off
    BY OffAssumption, MraiAssumption
  <2>6. NoneStranded' /\ OneForEachPrefix' /\ AdjOutIsTold' /\ DownIsClean' /\ SinceFollowsTimer'
    BY <1>3, <2>2, <2>3, <2>5, MraiAssumption
       DEF SessionOK, NoneStranded, OneForEachPrefix, AdjOutIsTold, DownIsClean, SinceFollowsTimer
  <2>7. Held' = Held
    BY <2>2 DEF Held
  <2>8. a \in Attr /\ Abstract!Announce(p, a)
    BY <1>3, <2>2, <2>3, <2>7 DEF Abstract!Announce, Put, Told
  <2>9. SessionOK'
    BY <2>2, <2>4, <2>6 DEF SessionOK
  <2> QED
    BY <1>0, <2>2, <2>8, <2>9
<1>4. CASE /\ peer.up /\ a # NoRoute /\ peer.t_routeadv # Off
           /\ peer' = [peer EXCEPT !.top_adv = AdvertiseInsert(@, p, a)]
           /\ wanted' = [wanted EXCEPT ![p] = a]
           /\ UNCHANGED <<told, since>>
  <2> DEFINE q == AdvertiseInsert(peer.top_adv, p, a)
  <2>1. a \in Attr
    BY <1>4 DEF Told
  <2>2. q \in Seq(Entry) /\ Distinct(q) /\ HeldIn(q) = Put(Held, p, a)
    BY <2>1, ListFacts, InsertProperties DEF Held
  <2>3. peer' = [peer EXCEPT !.top_adv = q]
    BY <1>4
  <2> HIDE DEF q
  <2>4. /\ peer' \in PeerType /\ peer'.up = peer.up /\ peer'.adj_out = peer.adj_out
        /\ peer'.top_adv = q /\ peer'.t_routeadv = peer.t_routeadv
        /\ peer'.obuf = peer.obuf
    BY <2>2, <2>3 DEF SessionOK, PeerType, Entry
  <2>5. wanted' = Put(wanted, p, a) /\ wanted' \in [Prefix -> Told]
    BY <1>4 DEF SessionOK, Put
  <2>6. OneForEachPrefix'
    BY <2>2, <2>4 DEF OneForEachPrefix, Distinct
  <2>7. NoneStranded' /\ AdjOutIsTold' /\ DownIsClean' /\ SinceFollowsTimer'
    BY <1>4, <2>4 DEF SessionOK, NoneStranded, AdjOutIsTold, DownIsClean, SinceFollowsTimer
  <2>8. Held' = Put(Held, p, a)
    BY <2>2, <2>4 DEF Held
  <2>9. Abstract!Hold(p, a)
    BY <1>4, <2>4, <2>5, <2>8 DEF Abstract!Hold, Put
  <2>10. SessionOK'
    BY <1>4, <2>4, <2>5, <2>6, <2>7 DEF SessionOK
  <2> QED
    BY <1>0, <2>1, <2>4, <2>9, <2>10
<1> QED
  BY <1>1, <1>2, <1>3, <1>4 DEF ProcessSession

\* The oldest suppressed update goes: a release.
LEMMA ReleaseTop ==
  ASSUME SessionOK, peer.top_adv # <<>>,
         peer'.up = peer.up,
         peer'.top_adv = Tail(peer.top_adv),
         peer'.adj_out = Put(peer.adj_out, Head(peer.top_adv).prefix, Head(peer.top_adv).attr),
         told' = [told EXCEPT ![Head(peer.top_adv).prefix] = Head(peer.top_adv).attr],
         UNCHANGED wanted
  PROVE  /\ peer.up
         /\ told' \in [Prefix -> Told]
         /\ OneForEachPrefix'
         /\ AdjOutIsTold'
         /\ \E p \in Prefix : Abstract!Release(p)
<1> DEFINE e == Head(peer.top_adv)
           q == Tail(peer.top_adv)
<1>1. /\ e \in Entry /\ Distinct(q) /\ Held[e.prefix] = e.attr
      /\ HeldIn(q) = Put(Held, e.prefix, NoRoute)
  BY ListFacts, TailProperties DEF Held
<1>2. peer'.top_adv = q /\ told' = Put(told, e.prefix, e.attr)
  BY DEF Put
<1>3. peer'.adj_out = Put(peer.adj_out, e.prefix, e.attr)
  OBVIOUS
<1> HIDE DEF e, q
<1>4. e.prefix \in Prefix /\ e.attr \in Attr /\ e.attr # NoRoute
  BY <1>1, NoRouteAssumption DEF Entry
<1>5. peer.up
  BY DEF SessionOK, DownIsClean
<1>6. told' \in [Prefix -> Told]
  BY <1>2, <1>4 DEF SessionOK, Told, Put
<1>7. OneForEachPrefix'
  BY <1>1, <1>2 DEF OneForEachPrefix, Distinct
<1>8. AdjOutIsTold'
  BY <1>2, <1>3 DEF SessionOK, AdjOutIsTold
<1>9. Held' = Put(Held, e.prefix, NoRoute)
  BY <1>1, <1>2 DEF Held
<1>10. Abstract!Release(e.prefix)
  BY <1>1, <1>2, <1>4, <1>5, <1>9 DEF Abstract!Release, Put
<1> QED
  BY <1>4, <1>5, <1>6, <1>7, <1>8, <1>10

\* The timer expires.
LEMMA RouteadvTimerStep ==
  ASSUME SessionOK, RouteadvTimer
  PROVE  /\ SessionOK'
         /\ \/ UNCHANGED Abstract!vars
            \/ \E p \in Prefix : Abstract!Release(p)
<1> DEFINE s == [peer EXCEPT !.t_routeadv = Off]
<1>1. /\ s \in PeerType /\ s.up = peer.up /\ s.adj_out = peer.adj_out
      /\ s.top_adv = peer.top_adv /\ s.t_routeadv = Off
      /\ s.t_write = peer.t_write /\ s.obuf = peer.obuf
  BY DEF SessionOK, PeerType
<1>2. peer.t_routeadv = 0 /\ since = Mrai /\ peer.up
  <2>1. 0 \in 0..Mrai /\ peer.t_routeadv = 0
    BY MraiAssumption DEF RouteadvTimer
  <2>2. 0 # Off
    BY <2>1, OffAssumption
  <2> QED
    BY <2>1, <2>2, MraiAssumption DEF SessionOK, SinceFollowsTimer, DownIsClean
<1>3. UNCHANGED <<wanted, since>>
  BY DEF RouteadvTimer
<1>4. CASE peer.top_adv = <<>>
  <2>1. peer' = s /\ UNCHANGED told
    BY <1>4 DEF RouteadvTimer
  <2> HIDE DEF s
  <2>2. NoneStranded' /\ OneForEachPrefix' /\ AdjOutIsTold'
    BY <1>1, <1>4, <2>1 DEF SessionOK, NoneStranded, OneForEachPrefix, AdjOutIsTold
  <2>3. DownIsClean' /\ SinceFollowsTimer'
    BY <1>1, <1>2, <1>3, <2>1 DEF SessionOK, DownIsClean, SinceFollowsTimer
  <2>4. SessionOK'
    BY <1>1, <1>3, <2>1, <2>2, <2>3 DEF SessionOK
  <2>5. UNCHANGED Abstract!vars
    BY <1>1, <1>3, <2>1 DEF Abstract!vars, Held
  <2> QED
    BY <2>4, <2>5
<1>5. CASE peer.top_adv # <<>>
  <2> DEFINE t == SendTop(s)
             e == Head(peer.top_adv)
  <2>1. /\ peer.obuf < MaxObuf /\ peer' = t
        /\ told' = [told EXCEPT ![e.prefix] = e.attr]
    BY <1>5 DEF RouteadvTimer
  <2> HIDE DEF s
  <2>2. /\ t \in PeerType /\ t.up = s.up
        /\ t.adj_out = Put(s.adj_out, Head(s.top_adv).prefix, Head(s.top_adv).attr)
        /\ t.top_adv = Tail(s.top_adv) /\ t.t_routeadv = s.t_routeadv
        /\ t.t_write = TRUE /\ t.obuf = s.obuf + 1
    BY <1>1, <1>5, <2>1, ListFacts, SendTopFields
  <2> HIDE DEF t
  <2>3. /\ peer' \in PeerType /\ peer'.up = peer.up
        /\ peer'.adj_out = Put(peer.adj_out, e.prefix, e.attr)
        /\ peer'.top_adv = Tail(peer.top_adv) /\ peer'.t_routeadv = Off
        /\ peer'.t_write = TRUE /\ peer'.obuf = peer.obuf + 1
    BY <1>1, <2>1, <2>2
  <2>4. /\ told' \in [Prefix -> Told] /\ OneForEachPrefix' /\ AdjOutIsTold'
        /\ \E p \in Prefix : Abstract!Release(p)
    BY <1>3, <1>5, <2>1, <2>3, ReleaseTop
  <2>5. peer'.obuf > 0
    BY <2>3, MaxObufAssumption DEF SessionOK, PeerType
  <2>6. NoneStranded' /\ DownIsClean' /\ SinceFollowsTimer'
    BY <1>2, <1>3, <2>3, <2>5 DEF NoneStranded, DownIsClean, SinceFollowsTimer
  <2> QED
    BY <1>3, <2>3, <2>4, <2>6 DEF SessionOK
<1> QED
  BY <1>4, <1>5

\* One packet is written, and the flush goes on or not.
LEMMA WriteStep ==
  ASSUME SessionOK, Write
  PROVE  /\ SessionOK'
         /\ \/ UNCHANGED Abstract!vars
            \/ \E p \in Prefix : Abstract!Release(p)
<1> DEFINE w == [peer EXCEPT !.obuf = @ - 1, !.t_write = peer.obuf > 1]
<1>1. peer.obuf \in 0..MaxObuf /\ UNCHANGED wanted
  BY DEF SessionOK, PeerType, Write
<1>2. CASE /\ peer.obuf = 0
           /\ peer' = [peer EXCEPT !.t_write = FALSE]
           /\ UNCHANGED <<told, since>>
  <2>1. /\ peer' \in PeerType /\ peer'.up = peer.up /\ peer'.adj_out = peer.adj_out
        /\ peer'.top_adv = peer.top_adv /\ peer'.t_routeadv = peer.t_routeadv
        /\ peer'.obuf = peer.obuf
    BY <1>2 DEF SessionOK, PeerType
  <2>2. SessionOK'
    BY <1>1, <1>2, <2>1
       DEF SessionOK, NoneStranded, OneForEachPrefix, AdjOutIsTold, DownIsClean,
           SinceFollowsTimer
  <2>3. UNCHANGED Abstract!vars
    BY <1>1, <1>2, <2>1 DEF Abstract!vars, Held
  <2> QED
    BY <2>2, <2>3
<1>3. ASSUME peer.obuf > 0
      PROVE  /\ w \in PeerType /\ w.up = peer.up /\ w.adj_out = peer.adj_out
             /\ w.top_adv = peer.top_adv /\ w.t_routeadv = peer.t_routeadv
             /\ w.obuf = peer.obuf - 1 /\ peer.up
  <2>1. peer.obuf - 1 \in 0..MaxObuf /\ peer.up
    BY <1>1, <1>3, MaxObufAssumption DEF SessionOK, DownIsClean
  <2> DEFINE b == peer.obuf > 1
  <2>2. b \in BOOLEAN
    OBVIOUS
  <2>3. w = [peer EXCEPT !.obuf = peer.obuf - 1, !.t_write = b]
    OBVIOUS
  <2> HIDE DEF b, w
  <2> QED
    BY <2>1, <2>2, <2>3 DEF SessionOK, PeerType
<1>4. CASE /\ peer.obuf > 0
           /\ peer.top_adv = <<>> \/ peer.t_routeadv # Off
           /\ peer' = w
           /\ UNCHANGED <<told, since>>
  <2>1. /\ peer' \in PeerType /\ peer'.up = peer.up /\ peer'.adj_out = peer.adj_out
        /\ peer'.top_adv = peer.top_adv /\ peer'.t_routeadv = peer.t_routeadv /\ peer.up
    BY <1>3, <1>4
  <2>2. NoneStranded' /\ OneForEachPrefix' /\ AdjOutIsTold'
    BY <1>4, <2>1 DEF SessionOK, NoneStranded, OneForEachPrefix, AdjOutIsTold
  <2>3. DownIsClean' /\ SinceFollowsTimer'
    BY <1>4, <2>1 DEF SessionOK, DownIsClean, SinceFollowsTimer
  <2>4. SessionOK'
    BY <1>1, <1>4, <2>1, <2>2, <2>3 DEF SessionOK
  <2>5. UNCHANGED Abstract!vars
    BY <1>1, <1>4, <2>1 DEF Abstract!vars, Held
  <2> QED
    BY <2>4, <2>5
<1>5. CASE /\ peer.obuf > 0
           /\ peer.top_adv # <<>> /\ peer.t_routeadv = Off
           /\ peer' = IF Len(peer.top_adv) = 1 THEN TimerOn(SendTop(w)) ELSE SendTop(w)
           /\ told' = [told EXCEPT ![Head(peer.top_adv).prefix] = Head(peer.top_adv).attr]
           /\ since' = IF Len(peer.top_adv) = 1 THEN 0 ELSE since
  <2> DEFINE t == SendTop(w)
             u == TimerOn(t)
             e == Head(peer.top_adv)
  <2>1. /\ w \in PeerType /\ w.up = peer.up /\ w.adj_out = peer.adj_out
        /\ w.top_adv = peer.top_adv /\ w.t_routeadv = Off
        /\ w.obuf = peer.obuf - 1 /\ peer.up
    BY <1>3, <1>5
  <2>2. peer' = IF Len(peer.top_adv) = 1 THEN u ELSE t
    BY <1>5
  <2> HIDE DEF w
  <2>3. /\ t \in PeerType /\ t.up = w.up
        /\ t.adj_out = Put(w.adj_out, Head(w.top_adv).prefix, Head(w.top_adv).attr)
        /\ t.top_adv = Tail(w.top_adv) /\ t.t_routeadv = w.t_routeadv
        /\ t.t_write = TRUE /\ t.obuf = w.obuf + 1
    <3>1. w.obuf < MaxObuf
      BY <1>1, <2>1, MaxObufAssumption
    <3> QED
      BY <1>5, <2>1, <3>1, ListFacts, SendTopFields
  <2> HIDE DEF t
  <2>4. /\ u \in PeerType /\ u.up = t.up /\ u.adj_out = t.adj_out /\ u.top_adv = t.top_adv
        /\ u.t_routeadv = (IF t.t_routeadv = Off THEN Mrai ELSE t.t_routeadv)
        /\ u.t_write = t.t_write /\ u.obuf = t.obuf
    BY <2>3, TimerOnFields
  <2> HIDE DEF u
  <2>5. /\ peer' \in PeerType /\ peer'.up = peer.up
        /\ peer'.adj_out = Put(peer.adj_out, e.prefix, e.attr)
        /\ peer'.top_adv = Tail(peer.top_adv)
        /\ peer'.t_routeadv = (IF Len(peer.top_adv) = 1 THEN Mrai ELSE Off)
        /\ peer'.t_write = TRUE /\ peer'.obuf = peer.obuf
    <3>1. peer.obuf - 1 + 1 = peer.obuf
      BY <1>1, MaxObufAssumption
    <3>2. CASE Len(peer.top_adv) = 1
      BY <2>1, <2>2, <2>3, <2>4, <3>1, <3>2
    <3>3. CASE Len(peer.top_adv) # 1
      BY <2>1, <2>2, <2>3, <3>1, <3>3
    <3> QED
      BY <3>2, <3>3
  <2>6. /\ told' \in [Prefix -> Told] /\ OneForEachPrefix' /\ AdjOutIsTold'
        /\ \E p \in Prefix : Abstract!Release(p)
    BY <1>1, <1>5, <2>5, ReleaseTop
  <2>7. NoneStranded' /\ DownIsClean'
    <3>1. Tail(peer.top_adv) = <<>> <=> Len(peer.top_adv) = 1
      BY <1>5, ListFacts, TailProperties
    <3> QED
      BY <1>5, <2>1, <2>5, <3>1 DEF NoneStranded, DownIsClean
  <2>8. since' \in 0..Mrai /\ SinceFollowsTimer'
    <3>1. Mrai # Off
      BY OffAssumption, MraiAssumption
    <3> QED
      BY <1>5, <2>5, <3>1, MraiAssumption DEF SessionOK, SinceFollowsTimer
  <2> QED
    BY <1>1, <2>5, <2>6, <2>7, <2>8 DEF SessionOK
<1> QED
  BY <1>2, <1>4, <1>5 DEF Write

\* A packet that is no update.
LEMMA KeepaliveStep ==
  ASSUME SessionOK, Keepalive
  PROVE  SessionOK' /\ UNCHANGED Abstract!vars
<1> DEFINE t == Send(peer)
<1>1. /\ t \in PeerType /\ t.up = peer.up /\ t.adj_out = peer.adj_out
      /\ t.top_adv = peer.top_adv /\ t.t_routeadv = peer.t_routeadv
      /\ t.t_write = TRUE /\ t.obuf = peer.obuf + 1
  <2>1. peer.obuf < MaxObuf /\ peer \in PeerType
    BY DEF Keepalive, SessionOK
  <2> QED
    BY <2>1, SendFields
<1>2. peer' = t /\ UNCHANGED <<told, wanted, since>> /\ peer.up
  BY DEF Keepalive
<1> HIDE DEF t
<1>3. peer.obuf \in Nat
  BY MaxObufAssumption DEF SessionOK, PeerType
<1>4. NoneStranded' /\ OneForEachPrefix' /\ AdjOutIsTold'
  BY <1>1, <1>2, <1>3 DEF SessionOK, NoneStranded, OneForEachPrefix, AdjOutIsTold
<1>5. DownIsClean' /\ SinceFollowsTimer'
  BY <1>1, <1>2 DEF SessionOK, DownIsClean, SinceFollowsTimer
<1>6. SessionOK'
  BY <1>1, <1>2, <1>4, <1>5 DEF SessionOK
<1>7. UNCHANGED Abstract!vars
  BY <1>1, <1>2 DEF Abstract!vars, Held
<1> QED
  BY <1>6, <1>7

\* An update of bgp_refresh_table goes out whether or not the timer runs.
LEMMA RefreshSend ==
  ASSUME SessionOK, NEW p \in Prefix, NEW a \in Attr,
         peer.up, peer.obuf < MaxObuf,
         peer' = TimerOn(SendUpdate(peer, p, a)),
         told' = [told EXCEPT ![p] = a],
         wanted' = [wanted EXCEPT ![p] = a],
         since' = IF peer.t_routeadv = Off THEN 0 ELSE since
  PROVE  /\ SessionOK'
         /\ peer'.up = peer.up
         /\ peer'.obuf = peer.obuf + 1
         /\ Abstract!Announce(p, a)
<1> DEFINE s == SendUpdate(peer, p, a)
           t == TimerOn(s)
<1>0. a \in Told /\ peer \in PeerType
  BY DEF Told, SessionOK
<1>1. /\ s \in PeerType /\ s.up = peer.up /\ s.adj_out = Put(peer.adj_out, p, a)
      /\ s.top_adv = peer.top_adv /\ s.t_routeadv = peer.t_routeadv
      /\ s.t_write = TRUE /\ s.obuf = peer.obuf + 1
  BY <1>0, SendUpdateFields
<1> HIDE DEF s
<1>2. /\ t \in PeerType /\ t.up = s.up /\ t.adj_out = s.adj_out
      /\ t.top_adv = s.top_adv
      /\ t.t_routeadv = (IF s.t_routeadv = Off THEN Mrai ELSE s.t_routeadv)
      /\ t.t_write = s.t_write /\ t.obuf = s.obuf
  BY <1>1, TimerOnFields
<1>3. peer' = t
  BY DEF s
<1> HIDE DEF t
<1>4. /\ peer' \in PeerType /\ peer'.up = peer.up
      /\ peer'.adj_out = Put(peer.adj_out, p, a)
      /\ peer'.top_adv = peer.top_adv
      /\ peer'.t_routeadv = (IF peer.t_routeadv = Off THEN Mrai ELSE peer.t_routeadv)
      /\ peer'.t_write = TRUE /\ peer'.obuf = peer.obuf + 1
  BY <1>1, <1>2, <1>3
<1>5. told' = Put(told, p, a) /\ wanted' = Put(wanted, p, a)
  BY DEF Put
<1>6. told' \in [Prefix -> Told] /\ wanted' \in [Prefix -> Told]
  BY <1>0, <1>5 DEF SessionOK, Put
<1>7. Mrai # Off
  BY OffAssumption, MraiAssumption
<1>8. NoneStranded' /\ OneForEachPrefix' /\ AdjOutIsTold'
  <2>1. peer'.obuf > 0
    BY <1>4, MaxObufAssumption DEF SessionOK, PeerType
  <2> QED
    BY <1>4, <1>5, <2>1 DEF SessionOK, NoneStranded, OneForEachPrefix, AdjOutIsTold
<1>9. since' \in 0..Mrai /\ DownIsClean' /\ SinceFollowsTimer'
  BY <1>4, <1>7, MraiAssumption DEF SessionOK, DownIsClean, SinceFollowsTimer
<1>10. SessionOK'
  BY <1>4, <1>6, <1>8, <1>9 DEF SessionOK
<1>11. Abstract!Announce(p, a)
  <2>1. Held' = Held
    BY <1>4 DEF Held
  <2> QED
    BY <1>4, <1>5, <2>1 DEF Abstract!Announce, Put
<1> QED
  BY <1>4, <1>10, <1>11

\* One prefix of the walk: announced, withdrawn or passed over.
LEMMA RefreshPrefixStep ==
  ASSUME IInv, NEW p \in Prefix, RefreshPrefix(p)
  PROVE  /\ SessionOK'
         /\ WalkHasRoom'
         /\ \/ UNCHANGED Abstract!vars
            \/ Abstract!Withdraw(p)
            \/ \E a \in Attr : Abstract!Announce(p, a) \/ Abstract!Hold(p, a)
<1> DEFINE a == Outcome(sel[p])
<1>1. /\ p \in walk /\ walk' = walk \ {p}
      /\ peer.up /\ peer.obuf + Cardinality(walk) <= MaxObuf
  BY DEF RefreshPrefix, IInv, WalkHasRoom
<1>2. /\ IsFiniteSet(walk) /\ Cardinality(walk) \in Nat
      /\ Cardinality(walk') = Cardinality(walk) - 1
      /\ Cardinality(walk') \in Nat
  <2>1. IsFiniteSet(walk)
    BY PrefixAssumption, FS_Subset DEF IInv
  <2>2. IsFiniteSet(walk') /\ Cardinality(walk') = Cardinality(walk) - 1
    BY <1>1, <2>1, FS_RemoveElement
  <2> QED
    BY <2>1, <2>2, FS_CardinalityType
<1>3. peer.obuf \in Nat /\ peer.obuf < MaxObuf
  BY <1>1, <1>2, MaxObufAssumption DEF IInv, SessionOK, PeerType
<1>4. SessionOK /\ a \in Told
  BY ExportAssumption DEF IInv, Outcome, Told
<1>5. ASSUME peer'.up = peer.up, peer'.obuf <= peer.obuf + 1, SessionOK'
      PROVE  WalkHasRoom'
  <2>1. peer'.obuf \in Nat
    BY <1>5, MaxObufAssumption DEF SessionOK, PeerType
  <2> QED
    BY <1>1, <1>2, <1>3, <1>5, <2>1, MaxObufAssumption DEF WalkHasRoom
<1>6. CASE sel[p] = NoRoute /\ UNCHANGED <<peer, told, wanted, since>>
  <2>1. NoneStranded' /\ OneForEachPrefix' /\ AdjOutIsTold' /\ DownIsClean' /\ SinceFollowsTimer'
    BY <1>4, <1>6
       DEF SessionOK, NoneStranded, OneForEachPrefix, AdjOutIsTold, DownIsClean,
           SinceFollowsTimer
  <2>2. SessionOK' /\ UNCHANGED Abstract!vars
    BY <1>4, <1>6, <2>1 DEF SessionOK, Abstract!vars, Held
  <2> QED
    BY <1>3, <1>5, <1>6, <2>2
<1>7. CASE /\ sel[p] # NoRoute /\ a # NoRoute
           /\ peer' = TimerOn(SendUpdate(peer, p, a))
           /\ told' = [told EXCEPT ![p] = a]
           /\ wanted' = [wanted EXCEPT ![p] = a]
           /\ since' = IF peer.t_routeadv = Off THEN 0 ELSE since
  <2>1. a \in Attr
    BY <1>4, <1>7 DEF Told
  <2> HIDE DEF a
  <2>2. /\ SessionOK' /\ peer'.up = peer.up /\ peer'.obuf = peer.obuf + 1
        /\ Abstract!Announce(p, a)
    BY <1>1, <1>3, <1>4, <1>7, <2>1, RefreshSend
  <2> QED
    BY <1>3, <1>5, <2>1, <2>2
<1>8. CASE a = NoRoute /\ ProcessSession(p, a)
  <2>1. NoRoute \notin Attr
    BY NoRouteAssumption
  <2>2. ProcessSession(p, NoRoute)
    BY <1>8
  <2>3. /\ SessionOK' /\ peer'.up = peer.up /\ peer'.obuf <= peer.obuf + 1
        /\ UNCHANGED Abstract!vars \/ Abstract!Withdraw(p)
    BY <1>4, <2>1, <2>2, ProcessSessionStep DEF Told
  <2> QED
    BY <1>5, <2>3
<1> QED
  BY <1>6, <1>7, <1>8 DEF RefreshPrefix

\* The session comes up: what is sent is what is wanted.
LEMMA EstablishStep ==
  ASSUME IInv, Establish
  PROVE  SessionOK' /\ Abstract!Open
<1> DEFINE view == [p \in Prefix |-> Outcome(sel[p])]
           sent == {p \in Prefix : view[p] # NoRoute}
           n == Cardinality(sent)
           s == [Send(peer) EXCEPT !.up = TRUE, !.adj_out = view, !.obuf = @ + n]
           t == TimerOn(s)
<1>1. SessionOK /\ view \in [Prefix -> Told]
  BY ExportAssumption DEF IInv, Outcome, Told
<1>2. n \in Nat
  BY PrefixAssumption, FS_Subset, FS_CardinalityType
<1>3. /\ ~peer.up /\ s.obuf <= MaxObuf
      /\ peer' = IF sent = {} THEN s ELSE t
      /\ told' = view /\ wanted' = view
      /\ since' = IF sent = {} THEN since ELSE 0
  BY DEF Establish
<1> HIDE DEF view, sent, n
<1>4. /\ peer.top_adv = <<>> /\ peer.t_routeadv = Off /\ peer.obuf = 0 /\ since = Mrai
  BY <1>1, <1>3 DEF SessionOK, DownIsClean, SinceFollowsTimer
<1>5. s.obuf = peer.obuf + 1 + n
  BY <1>1, <1>2 DEF Send, SessionOK, PeerType
<1>6. /\ s \in PeerType /\ s.up = TRUE /\ s.adj_out = view
      /\ s.top_adv = <<>> /\ s.t_routeadv = Off
  <2>1. peer.obuf + 1 + n \in 0..MaxObuf
    BY <1>2, <1>3, <1>4, <1>5, MaxObufAssumption
  <2>2. s = [peer EXCEPT !.up = TRUE, !.adj_out = view, !.t_write = TRUE,
                         !.obuf = peer.obuf + 1 + n]
    BY <1>1 DEF Send, SessionOK, PeerType
  <2> HIDE DEF s
  <2> QED
    BY <1>1, <1>4, <2>1, <2>2 DEF SessionOK, PeerType
<1> HIDE DEF s
<1>7. /\ t \in PeerType /\ t.up = s.up /\ t.adj_out = s.adj_out /\ t.top_adv = s.top_adv
      /\ t.t_routeadv = (IF s.t_routeadv = Off THEN Mrai ELSE s.t_routeadv)
  BY <1>6, TimerOnFields
<1> HIDE DEF t
<1>8. /\ peer' \in PeerType /\ peer'.up = TRUE /\ peer'.adj_out = view
      /\ peer'.top_adv = <<>>
      /\ peer'.t_routeadv = (IF sent = {} THEN Off ELSE Mrai)
  BY <1>3, <1>6, <1>7
<1>9. NoneStranded' /\ OneForEachPrefix' /\ AdjOutIsTold' /\ DownIsClean'
  BY <1>3, <1>8 DEF NoneStranded, OneForEachPrefix, AdjOutIsTold, DownIsClean
<1>10. since' \in 0..Mrai /\ SinceFollowsTimer'
  <2>1. Mrai # Off
    BY OffAssumption, MraiAssumption
  <2> QED
    BY <1>3, <1>4, <1>8, <2>1, MraiAssumption DEF SinceFollowsTimer
<1>11. SessionOK'
  BY <1>1, <1>3, <1>8, <1>9, <1>10 DEF SessionOK
<1>12. Abstract!Open
  <2>1. Held' = Held
    BY <1>4, <1>8 DEF Held
  <2>2. told' \in [Prefix -> Attr \cup {NoRoute}]
    BY <1>1, <1>3 DEF Told
  <2> QED
    BY <1>3, <1>8, <2>1, <2>2 DEF Abstract!Open
<1> QED
  BY <1>11, <1>12

\* An empty list holds nothing.
LEMMA HeldInEmpty == HeldIn(<<>>) = [p \in Prefix |-> NoRoute]
<1>1. \A p : PlacesOf(<<>>, p) = {}
  BY DEF PlacesOf
<1> QED
  BY <1>1 DEF HeldIn

\* The session is taken down.
LEMMA StopStep ==
  ASSUME SessionOK, Stop
  PROVE  SessionOK' /\ Abstract!Close
<1> DEFINE none == [p \in Prefix |-> NoRoute]
<1>1. none \in [Prefix -> Told]
  BY DEF Told
<1>2. /\ peer.up /\ told' = none /\ wanted' = none /\ since' = Mrai
      /\ peer' = [ up |-> FALSE, adj_out |-> none, top_adv |-> <<>>, t_routeadv |-> Off,
                   t_write |-> peer.t_write, obuf |-> 0 ]
  BY DEF Stop
<1> HIDE DEF none
<1>3. /\ peer'.up = FALSE /\ peer'.adj_out = none /\ peer'.top_adv = <<>>
      /\ peer'.t_routeadv = Off /\ peer'.obuf = 0
  BY <1>2
<1>4. peer' \in PeerType /\ since' \in 0..Mrai
  <2>1. peer.t_write \in BOOLEAN /\ 0 \in 0..MaxObuf /\ Mrai \in 0..Mrai
    BY MaxObufAssumption, MraiAssumption DEF SessionOK, PeerType
  <2> QED
    BY <1>1, <1>2, <2>1 DEF PeerType
<1>5. NoneStranded' /\ OneForEachPrefix' /\ AdjOutIsTold' /\ DownIsClean' /\ SinceFollowsTimer'
  BY <1>2, <1>3
     DEF NoneStranded, OneForEachPrefix, AdjOutIsTold, DownIsClean, SinceFollowsTimer, none
<1>6. SessionOK'
  BY <1>1, <1>2, <1>4, <1>5 DEF SessionOK
<1>7. Abstract!Close
  <2>1. Held' = none
    BY <1>3, HeldInEmpty DEF Held, none
  <2> QED
    BY <1>2, <1>3, <2>1 DEF Abstract!Close, Abstract!Nothing, none
<1> QED
  BY <1>6, <1>7

\* Time passes.
LEMMA TickStep ==
  ASSUME SessionOK, Tick
  PROVE  SessionOK' /\ UNCHANGED Abstract!vars
<1> DEFINE x == IF peer.t_routeadv \in {0, Off} THEN peer.t_routeadv ELSE peer.t_routeadv - 1
<1>1. /\ peer' = [peer EXCEPT !.t_routeadv = x]
      /\ since < Mrai \/ peer.t_routeadv \notin {0, Off}
      /\ since' = (IF since < Mrai THEN since + 1 ELSE since)
      /\ UNCHANGED <<told, wanted>>
  BY DEF Tick
<1>2. /\ x \in 0..Mrai \cup {Off} /\ (x = Off <=> peer.t_routeadv = Off)
      /\ peer.t_routeadv # Off => since' = Mrai - x
      /\ peer.t_routeadv = Off => since' = Mrai
      /\ since' \in 0..Mrai
  <2>1. peer.t_routeadv \in 0..Mrai \cup {Off} /\ since \in 0..Mrai
    BY DEF SessionOK, PeerType
  <2>2. since = IF peer.t_routeadv = Off THEN Mrai ELSE Mrai - peer.t_routeadv
    BY DEF SessionOK, SinceFollowsTimer
  <2>3. CASE peer.t_routeadv = Off
    BY <1>1, <2>1, <2>2, <2>3, MraiAssumption
  <2>4. CASE peer.t_routeadv = 0
    BY <1>1, <2>1, <2>2, <2>4, MraiAssumption, OffAssumption
  <2>5. CASE peer.t_routeadv \notin {0, Off}
    <3>1. x \in 0..Mrai /\ x = peer.t_routeadv - 1
      BY <2>1, <2>5, MraiAssumption
    <3> HIDE DEF x
    <3> QED
      BY <1>1, <2>1, <2>2, <2>5, <3>1, MraiAssumption, OffAssumption
  <2> QED
    BY <2>3, <2>4, <2>5
<1> HIDE DEF x
<1>3. /\ peer' \in PeerType /\ peer'.up = peer.up /\ peer'.adj_out = peer.adj_out
      /\ peer'.top_adv = peer.top_adv /\ peer'.t_routeadv = x
      /\ peer'.t_write = peer.t_write /\ peer'.obuf = peer.obuf
  BY <1>1, <1>2 DEF SessionOK, PeerType
<1>4. NoneStranded' /\ OneForEachPrefix' /\ AdjOutIsTold'
  BY <1>1, <1>2, <1>3 DEF SessionOK, NoneStranded, OneForEachPrefix, AdjOutIsTold
<1>5. DownIsClean' /\ SinceFollowsTimer'
  BY <1>1, <1>2, <1>3 DEF SessionOK, DownIsClean, SinceFollowsTimer
<1>6. SessionOK'
  BY <1>1, <1>2, <1>3, <1>4, <1>5 DEF SessionOK
<1>7. UNCHANGED Abstract!vars
  BY <1>1, <1>3 DEF Abstract!vars, Held
<1> QED
  BY <1>6, <1>7

-----------------------------------------------------------------------------
\* The program starts with every session down.
LEMMA InitIInv == Init => IInv
<1> SUFFICES ASSUME Init
             PROVE  IInv
  OBVIOUS
<1> DEFINE none == [p \in Prefix |-> NoRoute]
<1>1. none \in [Prefix -> Told] /\ 0 \in 0..MaxObuf /\ Mrai \in 0..Mrai
  BY MaxObufAssumption, MraiAssumption DEF Told
<1>2. /\ told = none /\ wanted = none /\ since = Mrai /\ walk = {}
      /\ peer = [ up |-> FALSE, adj_out |-> none, top_adv |-> <<>>, t_routeadv |-> Off,
                  t_write |-> FALSE, obuf |-> 0 ]
      /\ sel \in [Prefix -> Route \cup {NoRoute}] /\ policy \in Policy
  BY DEF Init
<1> HIDE DEF none
<1>3. peer \in PeerType
  BY <1>1, <1>2 DEF PeerType
<1>4. NoneStranded /\ OneForEachPrefix /\ AdjOutIsTold /\ DownIsClean /\ SinceFollowsTimer
  BY <1>2 DEF NoneStranded, OneForEachPrefix, AdjOutIsTold, DownIsClean, SinceFollowsTimer, none
<1>5. SessionOK /\ WalkHasRoom
  BY <1>1, <1>2, <1>3, <1>4 DEF SessionOK, WalkHasRoom
<1> QED
  BY <1>2, <1>5 DEF IInv

\* What a step is to the neighbour: a decision, the session coming up or going
\* down, the release of a suppressed update by the timer or by the flush, or
\* nothing at all.
Visible ==
  \/ UNCHANGED Abstract!vars
  \/ \E p \in Prefix : Abstract!Withdraw(p)
  \/ \E p \in Prefix, a \in Attr : Abstract!Announce(p, a) \/ Abstract!Hold(p, a)
  \/ Abstract!Open
  \/ Abstract!Close
  \/ /\ RouteadvTimer \/ Write
     /\ \E p \in Prefix : Abstract!Release(p)

\* Every step keeps the invariant and is one of those.
LEMMA StepIInv ==
  ASSUME IInv, [Next]_vars
  PROVE  IInv' /\ Visible
<1>0. SessionOK
  BY DEF IInv
<1>1. ASSUME NEW p \in Prefix, NEW r \in Route \cup {NoRoute}, Process(p, r)
      PROVE  IInv' /\ Visible
  <2> DEFINE a == Outcome(r)
  <2>1. a \in Told /\ ProcessSession(p, a)
    BY <1>1, ExportAssumption DEF Process, IInv, Outcome, Told
  <2> HIDE DEF a
  <2>2. /\ SessionOK'
        /\ \/ UNCHANGED Abstract!vars
           \/ Abstract!Withdraw(p)
           \/ a \in Attr /\ (Abstract!Announce(p, a) \/ Abstract!Hold(p, a))
    BY <1>0, <2>1, ProcessSessionStep
  <2>3. /\ sel' \in [Prefix -> Route \cup {NoRoute}] /\ policy' \in Policy
        /\ walk' = {}
    BY <1>1 DEF Process, IInv
  <2> QED
    BY <2>2, <2>3 DEF IInv, WalkHasRoom, Visible
<1>2. CASE RouteadvTimer
  <2>1. SessionOK' /\ (UNCHANGED Abstract!vars \/ \E p \in Prefix : Abstract!Release(p))
    BY <1>0, <1>2, RouteadvTimerStep
  <2>2. UNCHANGED <<sel, policy, walk>> /\ walk = {}
    BY <1>2 DEF RouteadvTimer
  <2> QED
    BY <1>2, <2>1, <2>2 DEF IInv, WalkHasRoom, Visible
<1>3. CASE Write
  <2>1. SessionOK' /\ (UNCHANGED Abstract!vars \/ \E p \in Prefix : Abstract!Release(p))
    BY <1>0, <1>3, WriteStep
  <2>2. UNCHANGED <<sel, policy, walk>> /\ walk = {}
    BY <1>3 DEF Write
  <2> QED
    BY <1>3, <2>1, <2>2 DEF IInv, WalkHasRoom, Visible
<1>4. CASE Keepalive
  <2>1. SessionOK' /\ UNCHANGED Abstract!vars
    BY <1>0, <1>4, KeepaliveStep
  <2>2. UNCHANGED <<sel, policy, walk>> /\ walk = {}
    BY <1>4 DEF Keepalive
  <2> QED
    BY <2>1, <2>2 DEF IInv, WalkHasRoom, Visible
<1>5. ASSUME UNCHANGED <<peer, told, wanted, since>>
      PROVE  SessionOK' /\ UNCHANGED Abstract!vars
  <2>1. NoneStranded' /\ OneForEachPrefix' /\ AdjOutIsTold' /\ DownIsClean' /\ SinceFollowsTimer'
    BY <1>0, <1>5
       DEF SessionOK, NoneStranded, OneForEachPrefix, AdjOutIsTold, DownIsClean,
           SinceFollowsTimer
  <2> QED
    BY <1>0, <1>5, <2>1 DEF SessionOK, Abstract!vars, Held
<1>6. ASSUME NEW c \in Policy, SetPolicy(c)
      PROVE  IInv' /\ Visible
  BY <1>5, <1>6 DEF SetPolicy, IInv, WalkHasRoom, Visible
<1>7. CASE Refresh
  <2>1. SessionOK' /\ UNCHANGED Abstract!vars
    BY <1>5, <1>7 DEF Refresh
  <2>2. WalkHasRoom'
    BY <1>7 DEF Refresh, WalkHasRoom
  <2> QED
    BY <1>7, <2>1, <2>2 DEF Refresh, IInv, Visible
<1>8. ASSUME NEW p \in Prefix, RefreshPrefix(p)
      PROVE  IInv' /\ Visible
  <2>1. /\ SessionOK' /\ WalkHasRoom'
        /\ \/ UNCHANGED Abstract!vars
           \/ Abstract!Withdraw(p)
           \/ \E a \in Attr : Abstract!Announce(p, a) \/ Abstract!Hold(p, a)
    BY <1>8, RefreshPrefixStep
  <2>2. UNCHANGED <<sel, policy>> /\ walk' \subseteq walk
    BY <1>8 DEF RefreshPrefix
  <2> QED
    BY <2>1, <2>2 DEF IInv, Visible
<1>9. CASE Establish
  <2>1. SessionOK' /\ Abstract!Open
    BY <1>9, EstablishStep
  <2>2. UNCHANGED <<sel, policy, walk>> /\ walk = {}
    BY <1>9 DEF Establish
  <2> QED
    BY <2>1, <2>2 DEF IInv, WalkHasRoom, Visible
<1>10. CASE Stop
  <2>1. SessionOK' /\ Abstract!Close
    BY <1>0, <1>10, StopStep
  <2>2. UNCHANGED <<sel, policy, walk>> /\ walk = {}
    BY <1>10 DEF Stop
  <2> QED
    BY <2>1, <2>2 DEF IInv, WalkHasRoom, Visible
<1>11. CASE Tick
  <2>1. SessionOK' /\ UNCHANGED Abstract!vars
    BY <1>0, <1>11, TickStep
  <2>2. UNCHANGED <<sel, policy, walk>> /\ walk = {}
    BY <1>11 DEF Tick
  <2> QED
    BY <2>1, <2>2 DEF IInv, WalkHasRoom, Visible
<1>12. CASE UNCHANGED vars
  BY <1>5, <1>12 DEF vars, IInv, WalkHasRoom, Visible
<1> QED
  BY <1>1, <1>2, <1>3, <1>4, <1>6, <1>7, <1>8, <1>9, <1>10, <1>11, <1>12 DEF Next

\* IInv is an invariant of the session, whatever the prefixes, the policies, the
\* interval and the bound on the buffer.
THEOREM Invariance == Spec => []IInv
<1>1. Init => IInv
  BY InitIInv
<1>2. IInv /\ [Next]_vars => IInv'
  BY StepIInv
<1> QED
  BY <1>1, <1>2, PTL DEF Spec

\* Every variable has its type.
THEOREM TypeCorrect == Spec => []TypeOK
<1>1. IInv => TypeOK
  BY DEF IInv, SessionOK, TypeOK
<1> QED
  BY <1>1, Invariance, PTL

\* Safety: what bgp_write and the timer have left unsent is always about to be
\* sent by one of them.
THEOREM NoUpdateStranded == Spec => []NoneStranded
<1>1. IInv => NoneStranded
  BY DEF IInv, SessionOK
<1> QED
  BY <1>1, Invariance, PTL

\* Safety: the list never holds two updates for one prefix.
THEOREM OneEntryEach == Spec => []OneForEachPrefix
<1>1. IInv => OneForEachPrefix
  BY DEF IInv, SessionOK
<1> QED
  BY <1>1, Invariance, PTL

\* Safety: the Adj-RIB-Out agrees with what the neighbour was told.
THEOREM AdjOutAgrees == Spec => []AdjOutIsTold
<1>1. IInv => AdjOutIsTold
  BY DEF IInv, SessionOK
<1> QED
  BY <1>1, Invariance, PTL

\* Action property: a decision that is sent at once finds the interval over.
THEOREM IntervalKept == Spec => IntervalBetweenDecisions
<1> DEFINE Interval ==
      \A p \in Prefix, r \in Route :
        Process(p, r) /\ told'[p] # told[p] /\ told'[p] # NoRoute => since = Mrai
<1>1. IInv /\ [Next]_vars => Interval
  <2> SUFFICES ASSUME IInv,
                      NEW p \in Prefix, NEW r \in Route, Process(p, r),
                      told'[p] # told[p], told'[p] # NoRoute
               PROVE  since = Mrai
    OBVIOUS
  <2>1. told \in [Prefix -> Told] /\ ProcessSession(p, Outcome(r))
    BY DEF IInv, SessionOK, Process
  <2>2. peer.t_routeadv = Off
    BY <2>1 DEF ProcessSession
  <2> QED
    BY <2>2 DEF IInv, SessionOK, SinceFollowsTimer
<1> QED
  BY <1>1, Invariance, PTL DEF Spec, IntervalBetweenDecisions

\* Action property: only a suppressed update that is sent late can take the last
\* decision away from the neighbour.
THEOREM OnlyOvertakingLoses == Spec => LostOnlyByOvertaking
<1> DEFINE Lost ==
      \A p \in Prefix :
        Synced(p) /\ ~Synced(p)' => Superseded(p) /\ (RouteadvTimer \/ Write)
<1>1. IInv /\ [Next]_vars => Lost
  <2> SUFFICES ASSUME IInv, [Next]_vars,
                      NEW p \in Prefix, Synced(p), ~Synced(p)'
               PROVE  Superseded(p) /\ (RouteadvTimer \/ Write)
    OBVIOUS
  <2>1. Visible
    BY StepIInv
  <2>2. /\ told \in [Prefix -> Told] /\ wanted \in [Prefix -> Told]
        /\ Held \in [Prefix -> Told]
    BY ListFacts, HeldInProperties DEF IInv, SessionOK, Held
  <2>3. told[p] = wanted[p] \/ Held[p] = wanted[p]
    BY DEF Synced
  <2>4. told'[p] # wanted'[p] /\ Held'[p] # wanted'[p]
    BY DEF Synced
  <2> HIDE DEF Held
  <2>5. CASE UNCHANGED Abstract!vars
    BY <2>3, <2>4, <2>5 DEF Abstract!vars
  <2>6. ASSUME NEW x \in Prefix, Abstract!Withdraw(x)
        PROVE  FALSE
    BY <2>2, <2>3, <2>4, <2>6 DEF Abstract!Withdraw
  <2>7. ASSUME NEW x \in Prefix, NEW a \in Attr, Abstract!Announce(x, a)
        PROVE  FALSE
    <3>1. CASE x = p
      BY <2>2, <2>4, <2>7, <3>1 DEF Abstract!Announce
    <3>2. CASE x # p
      BY <2>2, <2>3, <2>4, <2>7, <3>2 DEF Abstract!Announce
    <3> QED
      BY <3>1, <3>2
  <2>8. ASSUME NEW x \in Prefix, NEW a \in Attr, Abstract!Hold(x, a)
        PROVE  FALSE
    BY <2>2, <2>3, <2>4, <2>8 DEF Abstract!Hold
  <2>9. ~Abstract!Open
    BY <2>4 DEF Abstract!Open
  <2>10. ~Abstract!Close
    BY <2>4 DEF Abstract!Close
  <2>11. ASSUME NEW x \in Prefix, Abstract!Release(x)
         PROVE  Superseded(p)
    BY <2>2, <2>3, <2>4, <2>11 DEF Abstract!Release, Superseded
  <2> QED
    BY <2>1, <2>5, <2>6, <2>7, <2>8, <2>9, <2>10, <2>11 DEF Visible
<1> QED
  BY <1>1, Invariance, PTL DEF Spec, LostOnlyByOvertaking

\* Refinement: whatever its timer and bgp_write do, the session keeps the promise
\* that MraiPrefix keeps too.
THEOREM KeepsTheOutboundPromise == Spec => KeepsPromise
<1>1. Init => Abstract!Init
  BY HeldInEmpty DEF Init, Held, Abstract!Init, Abstract!Nothing
<1>2. IInv /\ [Next]_vars => [Abstract!Next]_(Abstract!vars)
  <2> SUFFICES ASSUME IInv, [Next]_vars
               PROVE  [Abstract!Next]_(Abstract!vars)
    OBVIOUS
  <2>1. Visible
    BY StepIInv
  <2> QED
    BY <2>1 DEF Visible, Abstract!Next
<1> QED
  BY <1>1, <1>2, Invariance, PTL DEF Spec, KeepsPromise, Abstract!Spec

=============================================================================
