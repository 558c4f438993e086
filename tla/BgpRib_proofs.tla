---------------------------- MODULE BgpRib_proofs ----------------------------
(***************************************************************************)
(* Proofs about BgpRib, for any peers, attributes and options and any      *)
(* bound on the inputs: types, that the table is what was heard, that      *)
(* suppressed routes are on a reuse list with a thread, when the counter   *)
(* for "maximum-prefix" drifts, and that the passes of bgp_process over    *)
(* the list choose what LocRib chooses from the set.                       *)
(***************************************************************************)
EXTENDS BgpRib, SequenceTheorems, WellFoundedInduction, TLAPS

-----------------------------------------------------------------------------
(* Tables.                                                                 *)

TableOK(l) ==
  /\ l \in Seq(InfoType)
  /\ \A i, j \in DOMAIN l : l[i].peer = l[j].peer => i = j

In(l, r) == \E n \in DOMAIN l : l[n] = r

\* The routes that are not of p are the same in two tables.
Kept(p, l, m) ==
  /\ \A i \in DOMAIN l : l[i].peer # p => In(m, l[i])
  /\ \A j \in DOMAIN m : m[j].peer # p => In(l, m[j])

NoneOf(p, l) == \A n \in DOMAIN l : l[n].peer # p

\* Two routes that differ at most in the flags of the decision process.
Alike(r, s) ==
  /\ r.peer = s.peer /\ r.attr = s.attr /\ r.info = s.info
  /\ r.history = s.history /\ r.damped = s.damped

\* Two tables that do.
SameTables(l, m) == DOMAIN m = DOMAIN l /\ \A n \in DOMAIN l : Alike(m[n], l[n])

\* bgp_process changes flags only.
LEMMA ProcessKeeps ==
  ASSUME NEW l, TableOK(l), Process(l)
  PROVE  /\ TableOK(rib')
         /\ SameTables(l, rib')
<1> DEFINE old == OldSelect(l)
           new == Select(l)
           f(i) == IF i = new
                   THEN [l[i] EXCEPT !.selected = TRUE, !.changed = FALSE]
                   ELSE IF i = old THEN [l[i] EXCEPT !.selected = FALSE]
                   ELSE l[i]
<1>1. CASE rib' = l
  BY <1>1 DEF TableOK, SameTables, Alike
<1>2. CASE rib' = [i \in DOMAIN l |-> f(i)]
  <2>1. Len(l) \in Nat /\ DOMAIN l = 1..Len(l) /\ \A i \in DOMAIN l : l[i] \in InfoType
    BY DEF TableOK
  <2>2. \A i \in DOMAIN l : f(i) \in InfoType /\ Alike(f(i), l[i])
    <3> TAKE i \in DOMAIN l
    <3>1. l[i] \in InfoType
      BY <2>1
    <3> HIDE DEF old, new
    <3> QED
      BY <3>1 DEF InfoType, Alike
  <2> HIDE DEF f
  <2>3. /\ DOMAIN rib' = DOMAIN l
        /\ \A n \in DOMAIN l : rib'[n] = f(n)
    BY <1>2
  <2>4. rib' \in Seq(InfoType)
    BY <1>2, <2>1, <2>2
  <2>5. \A n \in DOMAIN l : rib'[n].peer = l[n].peer
    BY <2>2, <2>3 DEF Alike
  <2> QED
    BY <2>2, <2>3, <2>4, <2>5 DEF TableOK, SameTables
<1>3. rib' = l \/ rib' = [i \in DOMAIN l |-> f(i)]
  BY DEF Process
<1> QED
  BY <1>1, <1>2, <1>3

\* A set of numbers has a least one.
LEMMA Least ==
  ASSUME NEW S \in SUBSET Nat, S # {}
  PROVE  \E m \in S : \A n \in S : m <= n
<1>1. IsWellFoundedOn({ss \in Nat \X Nat : ss[1] < ss[2]}, Nat)
  BY NatLessThanWellFounded DEF OpToRel
<1>2. PICK m \in S : \A n \in S : ~(<<n, m>> \in {ss \in Nat \X Nat : ss[1] < ss[2]})
  BY <1>1, WFMin
<1>3. \A n \in S : ~(n < m)
  BY <1>2
<1> QED
  BY <1>3

\* What is left when the i-th element is taken out.
LEMMA RemoveAtProperties ==
  ASSUME NEW S, NEW q \in Seq(S), NEW i \in 1..Len(q)
  PROVE  /\ RemoveAt(q, i) \in Seq(S)
         /\ Len(RemoveAt(q, i)) = Len(q) - 1
         /\ \A j \in 1..(Len(q) - 1) :
              RemoveAt(q, i)[j] = IF j < i THEN q[j] ELSE q[j + 1]
<1> DEFINE s == SubSeq(q, 1, i - 1)
           t == SubSeq(q, i + 1, Len(q))
<1>1. /\ s \in Seq(S) /\ Len(s) = i - 1
      /\ \A j \in 1..(i - 1) : s[j] = q[j]
  <2>1. /\ s \in Seq(S)
        /\ Len(s) = IF 1 <= i - 1 THEN (i - 1) - 1 + 1 ELSE 0
        /\ \A j \in 1..((i - 1) - 1 + 1) : s[j] = q[1 + j - 1]
    <3>1. 1 \in 1..(Len(q) + 1) /\ i - 1 \in 0..Len(q)
      OBVIOUS
    <3> QED
      BY <3>1, SubSeqProperties
  <2> QED
    BY <2>1
<1>2. /\ t \in Seq(S) /\ Len(t) = Len(q) - i
      /\ \A j \in 1..(Len(q) - i) : t[j] = q[i + j]
  <2>1. /\ t \in Seq(S)
        /\ Len(t) = IF i + 1 <= Len(q) THEN Len(q) - (i + 1) + 1 ELSE 0
        /\ \A j \in 1..(Len(q) - (i + 1) + 1) : t[j] = q[(i + 1) + j - 1]
    <3>1. i + 1 \in 1..(Len(q) + 1) /\ Len(q) \in 0..Len(q)
      OBVIOUS
    <3> QED
      BY <3>1, SubSeqProperties
  <2> QED
    BY <2>1
<1>3. RemoveAt(q, i) = s \o t
  BY DEF RemoveAt
<1> HIDE DEF s, t
<1>4. /\ s \o t \in Seq(S)
      /\ Len(s \o t) = Len(s) + Len(t)
      /\ \A j \in 1..(Len(s) + Len(t)) :
           (s \o t)[j] = IF j <= Len(s) THEN s[j] ELSE t[j - Len(s)]
  BY <1>1, <1>2, ConcatProperties
<1> QED
  BY <1>1, <1>2, <1>3, <1>4

\* The number of the route of a peer, or 0.
LEMMA FindIs ==
  ASSUME TableOK(rib), NEW p \in Peer, NEW n, n = Find(p)
  PROVE  /\ n = 0 => NoneOf(p, rib)
         /\ n # 0 => n \in DOMAIN rib /\ rib[n].peer = p
<1> DEFINE I == {i \in 1..Len(rib) : rib[i].peer = p}
<1>1. n = IF I # {} THEN Min(I) ELSE 0
  BY DEF Find, SelectInSeq
<1>2. Len(rib) \in Nat /\ DOMAIN rib = 1..Len(rib)
  BY DEF TableOK
<1>3. CASE I = {}
  BY <1>1, <1>2, <1>3 DEF NoneOf
<1>4. CASE I # {}
  <2>1. PICK i \in I : TRUE
    BY <1>4
  <2>2. \A j \in I : j = i
    BY <1>2, <2>1 DEF TableOK
  <2>3. i <= i
    BY <2>1
  <2>4. \E x \in I : \A y \in I : x <= y
    BY <2>1, <2>2, <2>3
  <2> HIDE DEF I
  <2>5. n \in I
    BY <1>1, <1>4, <2>4 DEF Min
  <2> QED
    BY <1>2, <2>5 DEF I
<1> QED
  BY <1>3, <1>4

\* A route in the place of another of the same peer.
LEMMA Replaced ==
  ASSUME NEW l, TableOK(l), NEW n \in DOMAIN l, NEW r \in InfoType,
         r.peer = l[n].peer, NEW m, m = [l EXCEPT ![n] = r]
  PROVE  TableOK(m) /\ Kept(r.peer, l, m) /\ In(m, r)
<1>1. Len(l) \in Nat /\ DOMAIN l = 1..Len(l)
  BY DEF TableOK
<1>2. /\ m \in Seq(InfoType) /\ DOMAIN m = DOMAIN l
      /\ m[n] = r /\ \A i \in DOMAIN l : i # n => m[i] = l[i]
  BY <1>1 DEF TableOK
<1>3. \A i \in DOMAIN l : m[i].peer = l[i].peer
  BY <1>2
<1>4. TableOK(m)
  BY <1>2, <1>3 DEF TableOK
<1>5. \A i \in DOMAIN l : l[i].peer # r.peer => i # n
  OBVIOUS
<1>6. Kept(r.peer, l, m)
  BY <1>2, <1>3, <1>5 DEF Kept, In
<1> QED
  BY <1>2, <1>4, <1>6 DEF In

\* A table without one of its routes.
LEMMA Removed ==
  ASSUME NEW l, TableOK(l), NEW n \in DOMAIN l, NEW m, m = RemoveAt(l, n)
  PROVE  TableOK(m) /\ Kept(l[n].peer, l, m) /\ NoneOf(l[n].peer, m)
<1>1. Len(l) \in Nat /\ DOMAIN l = 1..Len(l) /\ l \in Seq(InfoType)
  BY DEF TableOK
<1>2. /\ m \in Seq(InfoType) /\ Len(m) = Len(l) - 1
      /\ \A j \in 1..(Len(l) - 1) : m[j] = IF j < n THEN l[j] ELSE l[j + 1]
  BY <1>1, RemoveAtProperties
<1>3. DOMAIN m = 1..Len(m)
  BY <1>2
<1> DEFINE from(j) == IF j < n THEN j ELSE j + 1
<1>4. \A j \in DOMAIN m : from(j) \in DOMAIN l /\ from(j) # n /\ m[j] = l[from(j)]
  BY <1>1, <1>2, <1>3
<1>5. \A i, j \in DOMAIN m : from(i) = from(j) => i = j
  BY <1>1, <1>2, <1>3
<1>6. \A i \in DOMAIN l : i # n => \E j \in DOMAIN m : from(j) = i
  <2> TAKE i \in DOMAIN l
  <2>1. CASE i < n
    BY <1>1, <1>2, <1>3, <2>1, i \in DOMAIN m
  <2>2. CASE i > n
    <3>1. i - 1 \in DOMAIN m /\ from(i - 1) = i
      BY <1>1, <1>2, <1>3, <2>2
    <3> QED
      BY <3>1
  <2> QED
    BY <1>1, <2>1, <2>2
<1> HIDE DEF from
<1>7. TableOK(m)
  BY <1>2, <1>4, <1>5 DEF TableOK
<1>8. NoneOf(l[n].peer, m)
  BY <1>4 DEF NoneOf, TableOK
<1>9. Kept(l[n].peer, l, m)
  BY <1>4, <1>6 DEF Kept, In
<1> QED
  BY <1>7, <1>8, <1>9

\* A route of a peer that had none, before all others.
LEMMA AtTheHead ==
  ASSUME NEW l, TableOK(l), NEW r \in InfoType, NoneOf(r.peer, l),
         NEW m, m = <<r>> \o l
  PROVE  TableOK(m) /\ Kept(r.peer, l, m) /\ In(m, r)
<1>1. Len(l) \in Nat /\ DOMAIN l = 1..Len(l) /\ l \in Seq(InfoType)
  BY DEF TableOK
<1>2. /\ <<r>> \in Seq(InfoType) /\ Len(<<r>>) = 1 /\ <<r>>[1] = r
  OBVIOUS
<1>3. /\ m \in Seq(InfoType) /\ Len(m) = 1 + Len(l)
      /\ m[1] = r
      /\ \A i \in 1..Len(l) : m[i + 1] = l[i]
  BY <1>1, <1>2, ConcatProperties
<1>4. DOMAIN m = 1..(Len(l) + 1)
  BY <1>1, <1>3
<1>5. \A j \in DOMAIN m : j = 1 \/ (j - 1 \in DOMAIN l /\ m[j] = l[j - 1])
  <2> TAKE j \in DOMAIN m
  <2>1. CASE j # 1
    <3>1. j - 1 \in 1..Len(l) /\ (j - 1) + 1 = j
      BY <1>1, <1>4, <2>1
    <3> QED
      BY <1>1, <1>3, <3>1
  <2> QED
    BY <2>1
<1>6. \A i \in DOMAIN l : i + 1 \in DOMAIN m /\ m[i + 1] = l[i]
  BY <1>1, <1>3, <1>4
<1>7. \A j \in DOMAIN m : j # 1 => m[j].peer # r.peer
  BY <1>5 DEF NoneOf
<1>8. TableOK(m)
  <2>1. ASSUME NEW i \in DOMAIN m, NEW j \in DOMAIN m, m[i].peer = m[j].peer
        PROVE  i = j
    <3>1. CASE i = 1 \/ j = 1
      BY <1>3, <1>7, <2>1, <3>1
    <3>2. CASE i # 1 /\ j # 1
      <4>1. i - 1 \in DOMAIN l /\ j - 1 \in DOMAIN l /\ l[i - 1].peer = l[j - 1].peer
        BY <1>5, <2>1, <3>2
      <4>2. i - 1 = j - 1
        BY <4>1 DEF TableOK
      <4> QED
        BY <1>1, <1>4, <4>2
    <3> QED
      BY <3>1, <3>2
  <2> QED
    BY <1>3, <2>1 DEF TableOK
<1>9. Kept(r.peer, l, m)
  <2>1. \A i \in DOMAIN l : In(m, l[i])
    BY <1>6 DEF In
  <2>2. \A j \in DOMAIN m : m[j].peer # r.peer => In(l, m[j])
    BY <1>3, <1>5 DEF In
  <2> QED
    BY <2>1, <2>2 DEF Kept
<1>10. In(m, r)
  <2>1. 1 \in DOMAIN m
    BY <1>1, <1>4
  <2> QED
    BY <1>3, <2>1 DEF In
<1> QED
  BY <1>8, <1>9, <1>10

-----------------------------------------------------------------------------
(* The decision process.                                                   *)

\* the n-th value of a pass over S, from the one before it
PassStep(list, S, n, b) == IF n \in S THEN Better(list, n, b) ELSE b

\* g holds the values of a pass over S, up to the n-th place.
IsPass(g, list, S, n) ==
  g = [k \in 0..n |-> IF k = 0 THEN 0 ELSE PassStep(list, S, k, g[k - 1])]

\* There is such a pass, by induction on n.
LEMMA PassExists ==
  ASSUME NEW list, NEW S, NEW n \in Nat
  PROVE  \E g : IsPass(g, list, S, n)
<1> DEFINE None == {k \in Nat : ~\E g : IsPass(g, list, S, k)}
<1>1. ASSUME None # {} PROVE FALSE
  <2>1. None \in SUBSET Nat
    OBVIOUS
  <2>2. PICK m \in None : \A k \in None : m <= k
    <3> HIDE DEF None
    <3> QED
      BY <1>1, <2>1, Least
  <2>3. CASE m = 0
    <3> DEFINE g == [k \in 0..0 |-> 0]
    <3>1. IsPass(g, list, S, 0)
      BY DEF IsPass
    <3> QED
      BY <2>2, <2>3, <3>1
  <2>4. CASE m # 0
    <3>1. m - 1 \in Nat /\ m - 1 \notin None
      BY <2>2, <2>4
    <3>2. PICK g : IsPass(g, list, S, m - 1)
      BY <3>1
    <3> DEFINE h == [k \in 0..m |-> IF k = m THEN PassStep(list, S, m, g[m - 1]) ELSE g[k]]
    <3>3. \A k \in 0..(m - 1) :
             g[k] = IF k = 0 THEN 0 ELSE PassStep(list, S, k, g[k - 1])
      BY <3>2 DEF IsPass
    <3>4. \A k \in 0..m : h[k] = IF k = 0 THEN 0 ELSE PassStep(list, S, k, h[k - 1])
      <4> TAKE k \in 0..m
      <4>1. CASE k = m
        BY <2>2, <2>4, <4>1
      <4>2. CASE k # m
        <5>1. k \in 0..(m - 1) /\ h[k] = g[k] /\ (k # 0 => h[k - 1] = g[k - 1])
          BY <2>2, <2>4, <4>2
        <5> HIDE DEF h
        <5> QED
          BY <3>3, <5>1
      <4> QED
        BY <4>1, <4>2
    <3>5. h = [k \in 0..m |-> h[k]]
      OBVIOUS
    <3> HIDE DEF h
    <3>6. IsPass(h, list, S, m)
      BY <3>4, <3>5 DEF IsPass
    <3> QED
      BY <2>2, <3>6
  <2> QED
    BY <2>3, <2>4
<1> QED
  BY <1>1

\* Scan is the last value of the pass.
LEMMA ScanIsPass ==
  ASSUME NEW list, NEW S, Len(list) \in Nat
  PROVE  \E g : IsPass(g, list, S, Len(list)) /\ Scan(list, S) = g[Len(list)]
<1> DEFINE best[n \in 0..Len(list)] ==
             IF n = 0 THEN 0
             ELSE IF n \in S THEN Better(list, n, best[n - 1]) ELSE best[n - 1]
<1>0. \E g : IsPass(g, list, S, Len(list))
  BY PassExists
<1>1. \E g : g = [n \in 0..Len(list) |->
                    IF n = 0 THEN 0
                    ELSE IF n \in S THEN Better(list, n, g[n - 1]) ELSE g[n - 1]]
  BY <1>0 DEF IsPass, PassStep
<1>2. best = [n \in 0..Len(list) |->
                IF n = 0 THEN 0
                ELSE IF n \in S THEN Better(list, n, best[n - 1]) ELSE best[n - 1]]
  BY <1>1
<1>3. Scan(list, S) = best[Len(list)]
  BY DEF Scan
<1> HIDE DEF best
<1>4. IsPass(best, list, S, Len(list))
  BY <1>2 DEF IsPass, PassStep
<1> QED
  BY <1>3, <1>4

Prefers(list, x, y) == Preferred(list[x], list[y])

\* On S, bgp_info_cmp is an order.
Orders(list, S) ==
  /\ \A x, y \in S : x # y => Prefers(list, x, y) \/ Prefers(list, y, x)
  /\ \A x, y, z \in S : x # z /\ Prefers(list, x, y) /\ Prefers(list, y, z)
                          => Prefers(list, x, z)

\* Those of the best rank.
Tops(list, S) == {n \in S : \A m \in S : list[n].attr.rank <= list[m].attr.rank}

\* b has the least rank in S, and is preferred to all others if bgp_info_cmp is
\* an order on those that have it, too.
BestOf(list, S, b) ==
  /\ b \in S
  /\ \A m \in S : list[b].attr.rank <= list[m].attr.rank
  /\ Orders(list, Tops(list, S)) => \A m \in S : m # b => Prefers(list, b, m)

\* The rank is looked at first.
LEMMA RankDecides ==
  ASSUME NEW list, NEW x, NEW y, list[x].attr.rank \in Nat, list[y].attr.rank \in Nat
  PROVE  /\ list[x].attr.rank < list[y].attr.rank => Prefers(list, x, y)
         /\ Prefers(list, x, y) => list[x].attr.rank <= list[y].attr.rank
  BY DEF Prefers, Preferred

\* An order on a set is one on its parts.
LEMMA OrdersPart ==
  ASSUME NEW list, NEW S, NEW T \in SUBSET S, Orders(list, S)
  PROVE  Orders(list, T)
  BY DEF Orders

\* One more route is looked at.
LEMMA BestOfMore ==
  ASSUME NEW list, TableOK(list), NEW S \in SUBSET DOMAIN list, NEW n \in S,
         NEW T, T = {k \in S : k < n}, NEW b, T # {} => BestOf(list, T, b),
         T # {} => b # 0,
         NEW c, c = IF T = {} THEN n ELSE Better(list, n, b)
  PROVE  BestOf(list, {k \in S : k < n + 1}, c)
<1> DEFINE U == {k \in S : k < n + 1}
           rank(x) == list[x].attr.rank
<1> SUFFICES BestOf(list, U, c)
  OBVIOUS
<1>1. /\ Len(list) \in Nat /\ S \subseteq 1..Len(list)
      /\ \A k \in S : rank(k) \in Nat
  <2>1. \A k \in DOMAIN list : list[k] \in InfoType
    BY DEF TableOK
  <2>2. \A a \in Attr : a.rank \in Nat
    BY AttrAssumption
  <2> QED
    BY <2>1, <2>2 DEF TableOK, InfoType
<1>2. U = T \cup {n} /\ n \notin T /\ T \subseteq S /\ U \subseteq S
  BY <1>1
<1>3. CASE T = {}
  BY <1>1, <1>2, <1>3 DEF BestOf
<1>4. CASE T # {}
  <2>1. b \in T /\ b # n /\ b \in S /\ \A m \in T : rank(b) <= rank(m)
    BY <1>2, <1>4 DEF BestOf
  <2>2. \A x, y \in U : /\ rank(x) < rank(y) => Prefers(list, x, y)
                        /\ Prefers(list, x, y) => rank(x) <= rank(y)
    BY <1>1, <1>2, RankDecides
  <2>3. c = IF Prefers(list, n, b) THEN n ELSE b
    BY <1>4, <2>1 DEF Better, Prefers
  <2>4. Orders(list, Tops(list, T)) => \A m \in T : m # b => Prefers(list, b, m)
    BY <1>4 DEF BestOf
  <2>5. CASE rank(n) < rank(b)
    <3>1. c = n
      BY <1>2, <2>1, <2>2, <2>3, <2>5
    <3>2. \A m \in T : rank(n) < rank(m)
      BY <1>1, <1>2, <2>1, <2>5
    <3>3. \A m \in U : rank(n) <= rank(m) /\ (m # n => Prefers(list, n, m))
      BY <1>1, <1>2, <2>2, <3>2
    <3> HIDE DEF U
    <3> QED
      BY <1>2, <3>1, <3>3 DEF BestOf
  <2>6. CASE rank(b) <= rank(n)
    <3>1. Tops(list, T) \subseteq Tops(list, U)
      <4>1. ASSUME NEW x \in Tops(list, T) PROVE \A m \in U : rank(x) <= rank(m)
        <5>1. x \in T /\ rank(x) <= rank(b) /\ \A m \in T : rank(x) <= rank(m)
          BY <2>1, <4>1 DEF Tops
        <5>2. rank(x) <= rank(n)
          BY <1>1, <1>2, <2>1, <2>6, <5>1
        <5> QED
          BY <1>2, <5>1, <5>2
      <4> HIDE DEF U
      <4> QED
        BY <1>2, <4>1 DEF Tops
    <3>2. Orders(list, Tops(list, U)) => \A m \in T : m # b => Prefers(list, b, m)
      BY <2>4, <3>1, OrdersPart
    <3>3. \A m \in U : rank(b) <= rank(m)
      BY <1>2, <2>1, <2>6
    <3>4. b \in Tops(list, U)
      <4> HIDE DEF U
      <4> QED
        BY <1>2, <2>1, <3>3 DEF Tops
    <3>5. CASE Prefers(list, n, b)
      <4>1. rank(n) = rank(b)
        BY <1>1, <1>2, <2>1, <2>2, <2>6, <3>5
      <4>2. n \in Tops(list, U)
        <5> HIDE DEF U
        <5> QED
          BY <1>2, <3>3, <4>1 DEF Tops
      <4>3. ASSUME Orders(list, Tops(list, U)), NEW m \in U, m # n
            PROVE  Prefers(list, n, m)
        <5>1. m \in T /\ (m = b \/ Prefers(list, b, m))
          BY <1>2, <3>2, <4>3
        <5>2. CASE rank(n) < rank(m)
          BY <1>2, <2>2, <4>3, <5>2
        <5>3. CASE ~(rank(n) < rank(m))
          <6>1. rank(m) = rank(b)
            BY <1>1, <1>2, <2>1, <4>1, <4>3, <5>1, <5>3
          <6>2. m \in Tops(list, U)
            <7> HIDE DEF U
            <7> QED
              BY <3>3, <4>3, <6>1 DEF Tops
          <6> QED
            BY <3>4, <3>5, <4>2, <4>3, <5>1, <6>2 DEF Orders
        <5> QED
          BY <5>2, <5>3
      <4>4. \A m \in U : rank(n) <= rank(m)
        BY <3>3, <4>1
      <4> HIDE DEF U
      <4> QED
        BY <1>2, <2>3, <3>5, <4>3, <4>4 DEF BestOf
    <3>6. CASE ~Prefers(list, n, b)
      <4>1. Orders(list, Tops(list, U)) => Prefers(list, b, n)
        <5>1. CASE rank(b) < rank(n)
          BY <1>2, <2>1, <2>2, <5>1
        <5>2. CASE ~(rank(b) < rank(n))
          <6>1. rank(n) = rank(b)
            BY <1>1, <2>1, <2>6, <5>2
          <6>2. n \in Tops(list, U)
            <7> HIDE DEF U
            <7> QED
              BY <1>2, <3>3, <6>1 DEF Tops
          <6> QED
            BY <2>1, <3>4, <3>6, <6>2 DEF Orders
        <5> QED
          BY <5>1, <5>2
      <4>2. Orders(list, Tops(list, U)) => \A m \in U : m # b => Prefers(list, b, m)
        BY <1>2, <3>2, <4>1
      <4> HIDE DEF U
      <4> QED
        BY <1>2, <2>1, <2>3, <3>3, <3>6, <4>2 DEF BestOf
    <3> QED
      BY <3>5, <3>6
  <2>7. rank(n) < rank(b) \/ rank(b) <= rank(n)
    BY <1>1, <2>1
  <2> QED
    BY <2>5, <2>6, <2>7
<1> QED
  BY <1>3, <1>4

\* What a pass is left with.
LEMMA ScanFindsBest ==
  ASSUME NEW list, TableOK(list), NEW S \in SUBSET DOMAIN list
  PROVE  IF S = {} THEN Scan(list, S) = 0 ELSE BestOf(list, S, Scan(list, S))
<1>1. Len(list) \in Nat /\ DOMAIN list = 1..Len(list)
  BY DEF TableOK
<1>2. PICK g : IsPass(g, list, S, Len(list)) /\ Scan(list, S) = g[Len(list)]
  BY <1>1, ScanIsPass
<1>3. \A k \in 0..Len(list) : g[k] = IF k = 0 THEN 0 ELSE PassStep(list, S, k, g[k - 1])
  BY <1>2 DEF IsPass
<1> DEFINE Upto(k) == {i \in S : i < k + 1}
           Good(k) == IF Upto(k) = {} THEN g[k] = 0 ELSE BestOf(list, Upto(k), g[k])
           Bad == {k \in 0..Len(list) : ~Good(k)}
<1>4. Good(0)
  BY <1>1, <1>3
<1>5. ASSUME NEW k \in 1..Len(list), Good(k - 1) PROVE Good(k)
  <2>1. g[k] = PassStep(list, S, k, g[k - 1])
    BY <1>1, <1>3
  <2>2. Upto(k - 1) = {i \in S : i < k}
    BY <1>1
  <2>3. CASE k \notin S
    <3>1. Upto(k) = Upto(k - 1) /\ g[k] = g[k - 1]
      BY <1>1, <2>1, <2>3 DEF PassStep
    <3> QED
      BY <1>5, <3>1
  <2>4. CASE k \in S
    <3> DEFINE T == Upto(k - 1)
    <3>1. T = {i \in S : i < k} /\ T \subseteq S
      BY <2>2
    <3>2. IF T = {} THEN g[k - 1] = 0 ELSE BestOf(list, T, g[k - 1])
      BY <1>5
    <3>3. T # {} => g[k - 1] # 0
      BY <1>1, <3>1, <3>2 DEF BestOf
    <3>4. g[k] = IF T = {} THEN k ELSE Better(list, k, g[k - 1])
      BY <2>1, <2>4, <3>2 DEF PassStep, Better
    <3> HIDE DEF T
    <3>5. BestOf(list, Upto(k), g[k])
      BY <2>4, <3>1, <3>2, <3>3, <3>4, BestOfMore
    <3>6. k \in Upto(k)
      BY <1>1, <2>4
    <3> QED
      BY <3>5, <3>6
  <2> QED
    BY <2>3, <2>4
<1> HIDE DEF Good
<1>6. Bad = {}
  <2>1. SUFFICES ASSUME Bad # {} PROVE FALSE
    OBVIOUS
  <2>2. Bad \in SUBSET Nat
    BY <1>1
  <2>3. PICK k \in Bad : \A i \in Bad : k <= i
    <3> HIDE DEF Bad
    <3> QED
      BY <2>1, <2>2, Least
  <2>4. k \in 1..Len(list) /\ k - 1 \in 0..Len(list) /\ k - 1 \notin Bad
    BY <1>1, <1>4, <2>3
  <2> QED
    BY <1>5, <2>3, <2>4
<1>7. Good(Len(list))
  BY <1>1, <1>6
<1>8. Upto(Len(list)) = S
  BY <1>1
<1> QED
  BY <1>2, <1>7, <1>8 DEF Good

\* Only one route is in use.
OneSelected(list) ==
  \A i, j \in DOMAIN list : list[i].selected /\ list[j].selected => i = j

SameRank(list, x, y) == list[x].attr.rank = list[y].attr.rank

\* Where the MED decides between two of the same rank, it is compared for all of it.
Uniform(list, S) ==
  \A x, y, z \in S :
    /\ SameRank(list, x, y) /\ SameRank(list, y, z)
    /\ ComparesMed(list[x], list[y]) /\ list[x].attr.med # list[y].attr.med
    => ComparesMed(list[y], list[z])

\* What bgp_info_cmp reads of a route is of its type.
LEMMA RouteTypes ==
  ASSUME NEW list, TableOK(list), NEW x \in DOMAIN list
  PROVE  /\ list[x] \in InfoType
         /\ list[x].peer \in Peer /\ list[x].peer \in Nat
         /\ list[x].attr \in Attr
         /\ list[x].attr.rank \in Nat /\ list[x].attr.as \in Nat
         /\ list[x].attr.med \in Nat
         /\ list[x].selected \in BOOLEAN
<1>1. list[x] \in InfoType
  BY DEF TableOK
<1>2. list[x].attr \in [rank : Nat, as : Nat, med : Nat]
  BY <1>1, AttrAssumption DEF InfoType
<1> QED
  BY <1>1, <1>2, PeerAssumption DEF InfoType

\* The comparison of two routes that nothing before the identifiers tells apart.
ByKey(list, x, y) ==
  IF ~config.compareId /\ External(list[x]) /\ (list[x].selected \/ list[y].selected)
  THEN list[x].selected ELSE list[x].peer < list[y].peer

\* bgp_info_cmp by its steps
LEMMA PrefersBySteps ==
  ASSUME NEW list, NEW x, NEW y, list[x].attr.rank \in Nat, list[y].attr.rank \in Nat,
         list[x].attr.med \in Nat, list[y].attr.med \in Nat
  PROVE  Prefers(list, x, y) <=>
           \/ list[x].attr.rank < list[y].attr.rank
           \/ /\ SameRank(list, x, y)
              /\ \/ /\ ComparesMed(list[x], list[y])
                    /\ list[x].attr.med < list[y].attr.med
                 \/ /\ ComparesMed(list[x], list[y]) =>
                         list[x].attr.med = list[y].attr.med
                    /\ \/ External(list[x]) /\ ~External(list[y])
                       \/ /\ External(list[x]) <=> External(list[y])
                          /\ ByKey(list, x, y)
  BY DEF Prefers, Preferred, SameRank, ByKey

\* The identifiers decide between two routes, and do so in an order.
LEMMA KeyOrders ==
  ASSUME NEW list, TableOK(list), OneSelected(list)
  PROVE  /\ \A x, y \in DOMAIN list :
              x # y /\ (External(list[x]) <=> External(list[y]))
                => ByKey(list, x, y) \/ ByKey(list, y, x)
         /\ \A x, y, z \in DOMAIN list :
              /\ x # y /\ y # z /\ x # z
              /\ (External(list[x]) <=> External(list[y]))
              /\ (External(list[y]) <=> External(list[z]))
              /\ ByKey(list, x, y) /\ ByKey(list, y, z)
              => ByKey(list, x, z)
<1>1. \A x \in DOMAIN list : list[x].peer \in Nat /\ list[x].selected \in BOOLEAN
  BY RouteTypes
<1>2. \A x, y \in DOMAIN list : x # y => list[x].peer # list[y].peer
  BY DEF TableOK
<1>3. \A x, y \in DOMAIN list :
         x # y /\ (External(list[x]) <=> External(list[y]))
           => ByKey(list, x, y) \/ ByKey(list, y, x)
  BY <1>1, <1>2 DEF ByKey
<1>4. ASSUME NEW x \in DOMAIN list, NEW y \in DOMAIN list, NEW z \in DOMAIN list,
             x # y, y # z, x # z,
             External(list[x]) <=> External(list[y]),
             External(list[y]) <=> External(list[z]),
             ByKey(list, x, y), ByKey(list, y, z)
      PROVE  ByKey(list, x, z)
  BY <1>1, <1>4 DEF ByKey, OneSelected
<1> QED
  BY <1>3, <1>4

\* Whether MEDs are compared does not depend on which route is the new one, and
\* routes that are compared with a third by their MEDs are so with each other.
LEMMA MedEitherWay ==
  /\ \A r, s : ComparesMed(r, s) <=> ComparesMed(s, r)
  /\ \A r, s, t : ComparesMed(r, s) /\ ComparesMed(s, t) => ComparesMed(r, t)
  BY DEF ComparesMed

\* On uniform sets of routes bgp_info_cmp is an order.
LEMMA UniformOrders ==
  ASSUME NEW list, TableOK(list), OneSelected(list),
         NEW S \in SUBSET DOMAIN list, Uniform(list, S)
  PROVE  Orders(list, S)
<1>1. \A x \in S : list[x].attr.rank \in Nat /\ list[x].attr.med \in Nat
  BY RouteTypes
<1>2. ASSUME NEW x \in S, NEW y \in S, x # y
      PROVE  Prefers(list, x, y) \/ Prefers(list, y, x)
  <2>1. (External(list[x]) <=> External(list[y]))
          => ByKey(list, x, y) \/ ByKey(list, y, x)
    BY <1>2, KeyOrders
  <2> QED
    BY <1>1, <1>2, <2>1, PrefersBySteps, MedEitherWay DEF SameRank
<1>3. ASSUME NEW x \in S, NEW y \in S, NEW z \in S, x # z,
             Prefers(list, x, y), Prefers(list, y, z)
      PROVE  Prefers(list, x, z)
  <2>1. CASE x = y \/ y = z
    BY <1>3, <2>1
  <2>2. CASE x # y /\ y # z
    <3>1. /\ list[x].attr.rank <= list[y].attr.rank
          /\ list[y].attr.rank <= list[z].attr.rank
      BY <1>1, <1>3, PrefersBySteps DEF SameRank
    <3>2. CASE ~(SameRank(list, x, y) /\ SameRank(list, y, z))
      BY <1>1, <3>1, <3>2, PrefersBySteps DEF SameRank
    <3>3. CASE SameRank(list, x, y) /\ SameRank(list, y, z)
      <4>1. SameRank(list, x, z) /\ SameRank(list, z, y)
        BY <3>3 DEF SameRank
      <4> DEFINE CM(u, v) == ComparesMed(list[u], list[v])
                 Same(u, v) == CM(u, v) => list[u].attr.med = list[v].attr.med
      <4>2. \/ CM(x, y) /\ CM(y, z) /\ CM(x, z)
            \/ Same(x, y) /\ Same(y, z) /\ Same(x, z)
        <5>1. CM(x, y) /\ list[x].attr.med # list[y].attr.med => CM(y, z)
          BY <3>3 DEF Uniform
        <5>2. CM(y, z) /\ list[y].attr.med # list[z].attr.med => CM(y, x)
          <6>1. SameRank(list, z, y) /\ SameRank(list, y, x)
            BY <3>3 DEF SameRank
          <6>2. CM(z, y) /\ list[z].attr.med # list[y].attr.med => CM(y, x)
            BY <6>1 DEF Uniform
          <6> QED
            BY <6>2, MedEitherWay
        <5>3. CM(x, z) /\ list[x].attr.med # list[z].attr.med => CM(z, y)
          BY <4>1 DEF Uniform
        <5>4. /\ CM(y, x) <=> CM(x, y)
              /\ CM(z, y) <=> CM(y, z)
              /\ CM(x, y) /\ CM(y, z) => CM(x, z)
              /\ CM(x, z) /\ CM(z, y) => CM(x, y)
          BY MedEitherWay
        <5> HIDE DEF CM
        <5> QED
          BY <5>1, <5>2, <5>3, <5>4
      <4>3. /\ (External(list[x]) <=> External(list[y]))
            /\ (External(list[y]) <=> External(list[z]))
            /\ ByKey(list, x, y) /\ ByKey(list, y, z)
            => ByKey(list, x, z)
        BY <1>3, <2>2, KeyOrders
      <4>4. ~(list[x].attr.rank < list[y].attr.rank) /\ ~(list[y].attr.rank < list[z].attr.rank)
        BY <1>1, <3>3 DEF SameRank
      <4>5. CASE CM(x, y) /\ CM(y, z) /\ CM(x, z)
        BY <1>1, <1>3, <3>3, <4>1, <4>3, <4>4, <4>5, PrefersBySteps
      <4>6. CASE Same(x, y) /\ Same(y, z) /\ Same(x, z)
        BY <1>1, <1>3, <3>3, <4>1, <4>3, <4>4, <4>6, PrefersBySteps
      <4> QED
        BY <4>2, <4>5, <4>6
    <3> QED
      BY <3>2, <3>3
  <2> QED
    BY <2>1, <2>2
<1> QED
  BY <1>2, <1>3 DEF Orders

\* With an AS path or without, a group for the deterministic comparison.
Group(list, S, n) == {m \in S : m = n \/ SameAs(list[n], list[m])}

\* In a group, MEDs are always compared.
LEMMA GroupIsUniform ==
  ASSUME NEW list, NEW S, NEW n \in S
  PROVE  /\ Uniform(list, Group(list, S, n))
         /\ \A x \in Group(list, S, n) : ComparesMed(list[x], list[n])
         /\ \A x \in Group(list, S, n) : Group(list, S, x) = Group(list, S, n)
<1>1. \A x \in Group(list, S, n) :
         x = n \/ (list[n].attr.as # 0 /\ list[x].attr.as = list[n].attr.as)
  BY DEF Group, SameAs
<1>2. \A x, y \in Group(list, S, n) : x # y => list[x].attr.as = list[y].attr.as
  BY <1>1
<1>3. ASSUME NEW x \in Group(list, S, n) PROVE Group(list, S, x) = Group(list, S, n)
  <2>1. CASE x = n
    BY <2>1
  <2>2. CASE x # n
    BY <1>1, <1>3, <2>2 DEF Group, SameAs
  <2> QED
    BY <2>1, <2>2
<1> QED
  BY <1>1, <1>2, <1>3 DEF Uniform, ComparesMed

\* Each route is a winner, or one it has to be compared with by its MED, too,
\* is a winner and preferred to it.
Covers(list, W, S) ==
  \A m \in S : \E w \in W :
    w = m \/ (Prefers(list, w, m) /\ ComparesMed(list[w], list[m]))

\* The pass over each AS finds a winner for every route.
LEMMA WinnersCover ==
  ASSUME NEW list, TableOK(list), OneSelected(list), NEW S \in SUBSET DOMAIN list
  PROVE  Winners(list, S) \subseteq S /\ Covers(list, Winners(list, S), S)
<1>1. Winners(list, S) = {n \in S : n = Scan(list, Group(list, S, n))}
  BY DEF Winners, Group
<1>2. ASSUME NEW m \in S
      PROVE  \E w \in Winners(list, S) :
               w = m \/ (Prefers(list, w, m) /\ ComparesMed(list[w], list[m]))
  <2> DEFINE G == Group(list, S, m)
             w == Scan(list, G)
  <2>1. G \in SUBSET DOMAIN list /\ m \in G /\ G \subseteq S
    BY DEF Group
  <2>2. /\ Uniform(list, G)
        /\ \A x \in G : ComparesMed(list[x], list[m]) /\ Group(list, S, x) = G
    BY <1>2, GroupIsUniform
  <2> HIDE DEF G
  <2>3. Orders(list, Tops(list, G))
    <3>1. Orders(list, G)
      BY <2>1, <2>2, UniformOrders
    <3>2. Tops(list, G) \subseteq G
      BY DEF Tops
    <3> QED
      BY <3>1, <3>2, OrdersPart
  <2>4. BestOf(list, G, w)
    BY <2>1, ScanFindsBest
  <2>5. w \in G /\ (m # w => Prefers(list, w, m))
    BY <2>1, <2>3, <2>4 DEF BestOf
  <2>6. w = Scan(list, Group(list, S, w))
    BY <2>2, <2>5
  <2> HIDE DEF w
  <2>7. w \in Winners(list, S)
    BY <1>1, <2>1, <2>5, <2>6
  <2> QED
    BY <2>2, <2>5, <2>7
<1> QED
  BY <1>1, <1>2 DEF Covers

\* What may be used of a list, as the abstract specification sees it.
UsableOf(list) == {Plain(list[n]) : n \in Candidates(list)}

\* The steps of LocRib's choice, by places in the list.
Top(list, n) ==
  \A m \in Candidates(list) : list[n].attr.rank <= list[m].attr.rank
Cheap(list, n) ==
  /\ Top(list, n)
  /\ \A m \in Candidates(list) :
       Top(list, m) /\ ComparesMed(list[n], list[m]) => list[n].attr.med <= list[m].attr.med
Equal(list, n) ==
  /\ Cheap(list, n)
  /\ External(list[n]) \/ \A m \in Candidates(list) : Cheap(list, m) => ~External(list[m])

\* They are the steps of LocRib.
LEMMA StepsOfChoice ==
  ASSUME NEW list, NEW U, U = UsableOf(list)
  PROVE  \A n \in Candidates(list) :
           /\ Plain(list[n]) \in Promise!TopRanked(U) <=> Top(list, n)
           /\ Plain(list[n]) \in Promise!LeastMed(Promise!TopRanked(U)) <=> Cheap(list, n)
           /\ Plain(list[n]) \in Promise!ExternalFirst(Promise!LeastMed(Promise!TopRanked(U)))
                <=> Equal(list, n)
<1> DEFINE C == Candidates(list)
           TR == Promise!TopRanked(U)
           LM == Promise!LeastMed(TR)
           EF == Promise!ExternalFirst(LM)
<1>1. U = {Plain(list[n]) : n \in C}
  BY DEF UsableOf
<1>2. \A n \in C : /\ Plain(list[n]).peer = list[n].peer
                   /\ Plain(list[n]).attr = list[n].attr
                   /\ Promise!External(Plain(list[n])) <=> External(list[n])
  BY DEF Plain, External, Promise!External
<1> HIDE DEF C
<1>3. \A n \in C : Plain(list[n]) \in TR <=> Top(list, n)
  BY <1>1, <1>2 DEF Promise!TopRanked, Top, C
<1>4. TR \subseteq U
  BY DEF Promise!TopRanked
<1> HIDE DEF TR
<1>5. \A n \in C : Plain(list[n]) \in LM <=> Cheap(list, n)
  <2> TAKE n \in C
  <2>1. ASSUME Plain(list[n]) \in LM PROVE Cheap(list, n)
    BY <1>2, <1>3, <2>1 DEF Promise!LeastMed, Cheap, ComparesMed, C
  <2>2. ASSUME Cheap(list, n) PROVE Plain(list[n]) \in LM
    <3>1. ASSUME NEW s \in TR, config.always \/ Plain(list[n]).attr.as = s.attr.as
          PROVE  Plain(list[n]).attr.med <= s.attr.med
      <4>1. PICK m \in C : s = Plain(list[m])
        BY <1>1, <1>4
      <4> QED
        BY <1>2, <1>3, <2>2, <3>1, <4>1 DEF Cheap, ComparesMed, C
    <3>2. Plain(list[n]) \in TR
      BY <1>3, <2>2 DEF Cheap
    <3> QED
      BY <3>1, <3>2 DEF Promise!LeastMed
  <2> QED
    BY <2>1, <2>2
<1>6. LM \subseteq U
  BY <1>4 DEF Promise!LeastMed
<1> HIDE DEF LM
<1>7. \A n \in C : Plain(list[n]) \in EF <=> Equal(list, n)
  <2> TAKE n \in C
  <2>1. ASSUME Plain(list[n]) \in EF PROVE Equal(list, n)
    BY <1>2, <1>5, <2>1 DEF Promise!ExternalFirst, Equal, C
  <2>2. ASSUME Equal(list, n) PROVE Plain(list[n]) \in EF
    <3>1. ASSUME ~External(list[n]), NEW s \in LM PROVE ~Promise!External(s)
      <4>1. PICK m \in C : s = Plain(list[m])
        BY <1>1, <1>6
      <4> QED
        BY <1>2, <1>5, <2>2, <3>1, <4>1 DEF Equal, C
    <3>2. Plain(list[n]) \in LM
      BY <1>5, <2>2 DEF Equal
    <3> QED
      BY <1>2, <3>1, <3>2 DEF Promise!ExternalFirst
  <2> QED
    BY <2>1, <2>2
<1> QED
  BY <1>3, <1>5, <1>7 DEF TR, LM, EF, C

\* There is one winner for each AS, so that winners are compared by their MEDs
\* only if those are always compared or both have no AS path.
LEMMA WinnersAreUniform ==
  ASSUME NEW list, NEW S \in SUBSET DOMAIN list, NEW T \in SUBSET Winners(list, S),
         \/ \A x \in T : list[x].attr.as = 0
         \/ \A x, y \in T : list[x].attr.as = 0 /\ list[y].attr.as = 0
                             => list[x].attr.med = list[y].attr.med
  PROVE  Uniform(list, T)
<1>1. Winners(list, S) = {n \in S : n = Scan(list, Group(list, S, n))}
  BY DEF Winners, Group
<1>2. ASSUME NEW x \in T, NEW y \in T, x # y, list[x].attr.as # 0
      PROVE  list[x].attr.as # list[y].attr.as
  <2>1. SUFFICES ASSUME list[x].attr.as = list[y].attr.as PROVE FALSE
    OBVIOUS
  <2>2. x \in S /\ y \in S /\ y \in Group(list, S, x)
    BY <1>1, <1>2, <2>1 DEF Group, SameAs
  <2>3. Group(list, S, y) = Group(list, S, x)
    BY <2>2, GroupIsUniform
  <2>4. x = Scan(list, Group(list, S, x)) /\ y = Scan(list, Group(list, S, y))
    BY <1>1
  <2> QED
    BY <1>2, <2>3, <2>4
<1>3. ASSUME NEW x \in T, NEW y \in T, NEW z \in T,
             ComparesMed(list[x], list[y]), list[x].attr.med # list[y].attr.med
      PROVE  ComparesMed(list[y], list[z])
  <2>1. CASE config.always
    BY <2>1 DEF ComparesMed
  <2>2. CASE ~config.always
    <3>1. x # y /\ list[x].attr.as = list[y].attr.as
      BY <1>3, <2>2 DEF ComparesMed
    <3>2. list[x].attr.as = 0 /\ list[y].attr.as = 0
      BY <1>2, <3>1
    <3>3. list[z].attr.as = 0
      BY <1>3, <3>2
    <3> QED
      BY <3>2, <3>3 DEF ComparesMed
  <2> QED
    BY <2>1, <2>2
<1> QED
  BY <1>3 DEF Uniform

\* The routes bgp_process compares in its last pass.
Compared(list) ==
  IF config.deterministic THEN Winners(list, Candidates(list)) ELSE Candidates(list)

\* Those of the best rank among them have the best rank of all.
LEMMA ComparedTops ==
  ASSUME NEW list, TableOK(list), NEW W \in SUBSET Candidates(list),
         Covers(list, W, Candidates(list)),
         NEW x \in W, \A w \in W : list[x].attr.rank <= list[w].attr.rank
  PROVE  Top(list, x)
<1>1. ASSUME NEW m \in Candidates(list) PROVE list[x].attr.rank <= list[m].attr.rank
  <2>1. PICK w \in W : w = m \/ Prefers(list, w, m)
    BY <1>1 DEF Covers
  <2>2. /\ list[x].attr.rank \in Nat /\ list[w].attr.rank \in Nat
        /\ list[m].attr.rank \in Nat
    BY <1>1, <2>1, RouteTypes DEF Candidates
  <2>3. list[w].attr.rank <= list[m].attr.rank
    BY <2>1, <2>2, RankDecides
  <2> QED
    BY <2>2, <2>3
<1> QED
  BY <1>1 DEF Top

\* Where LocRib's comparisons give an order, bgp_info_cmp does on those.
LEMMA OrderedTops ==
  ASSUME NEW list, TableOK(list), OneSelected(list),
         NEW U, U = UsableOf(list), Promise!Ordered(U),
         NEW T \in SUBSET Compared(list), Compared(list) \subseteq Candidates(list),
         \A x \in T : Top(list, x)
  PROVE  Orders(list, T)
<1> DEFINE C == Candidates(list)
           TR == Promise!TopRanked(U)
<1>1. T \subseteq C /\ C \in SUBSET DOMAIN list
  BY DEF Candidates
<1>2. \A x \in T : Plain(list[x]) \in TR
  BY <1>1, StepsOfChoice
<1>3. \A x \in T : Plain(list[x]).attr = list[x].attr
  BY DEF Plain
<1>4. CASE config.always
  <2>1. Uniform(list, T)
    BY <1>4 DEF Uniform, ComparesMed
  <2> HIDE DEF C
  <2> QED
    BY <1>1, <2>1, UniformOrders
<1>5. CASE ~config.always
  <2>1. /\ config.deterministic
        /\ \/ TR = Promise!Pathless(TR)
           \/ \A r, s \in Promise!Pathless(TR) : r.attr.med = s.attr.med
    BY <1>5 DEF Promise!Ordered
  <2>2. \A r \in TR : r \in Promise!Pathless(TR) <=> r.attr.as = 0
    BY DEF Promise!Pathless
  <2> HIDE DEF C, TR
  <2>3. \/ \A x \in T : list[x].attr.as = 0
        \/ \A x, y \in T : list[x].attr.as = 0 /\ list[y].attr.as = 0
                            => list[x].attr.med = list[y].attr.med
    <3>1. CASE TR = Promise!Pathless(TR)
      BY <1>2, <1>3, <2>2, <3>1
    <3>2. CASE \A r, s \in Promise!Pathless(TR) : r.attr.med = s.attr.med
      BY <1>2, <1>3, <2>2, <3>2
    <3> QED
      BY <2>1, <3>1, <3>2
  <2>4. T \in SUBSET Winners(list, C)
    BY <2>1 DEF Compared, C
  <2>5. Uniform(list, T)
    BY <1>1, <2>3, <2>4, WinnersAreUniform
  <2> QED
    BY <1>1, <2>5, UniformOrders
<1> QED
  BY <1>4, <1>5

\* What is selected has the best rank, and is preferred to all the others that
\* are compared where LocRib's comparisons give an order.
LEMMA SelectFindsBest ==
  ASSUME NEW list, TableOK(list), OneSelected(list), NEW U, U = UsableOf(list)
  PROVE  /\ Compared(list) \subseteq Candidates(list)
         /\ Covers(list, Compared(list), Candidates(list))
         /\ IF Candidates(list) = {} THEN Select(list) = 0
            ELSE /\ Select(list) \in Compared(list)
                 /\ Top(list, Select(list))
                 /\ Promise!Ordered(U) =>
                      \A w \in Compared(list) :
                        w # Select(list) => Prefers(list, Select(list), w)
<1> DEFINE S == Candidates(list)
           W == Compared(list)
           b == Select(list)
<1>1. S \in SUBSET DOMAIN list
  BY DEF Candidates
<1>2. W \subseteq S /\ Covers(list, W, S)
  BY <1>1, WinnersCover DEF Compared, Covers
<1>3. W \in SUBSET DOMAIN list /\ (S # {} => W # {})
  BY <1>1, <1>2 DEF Covers
<1>4. b = Scan(list, W)
  BY DEF Select, Compared
<1> HIDE DEF b
<1>5. CASE S = {}
  <2>1. W = {}
    BY <1>2, <1>5
  <2> HIDE DEF S, W
  <2>2. b = 0
    BY <1>3, <1>4, <2>1, ScanFindsBest
  <2> QED
    BY <1>2, <1>5, <2>2 DEF S, W, b
<1>6. CASE S # {}
  <2> HIDE DEF W
  <2>1. BestOf(list, W, b)
    <3> HIDE DEF S
    <3> QED
      BY <1>3, <1>4, <1>6, ScanFindsBest
  <2>2. b \in W /\ \A w \in W : list[b].attr.rank <= list[w].attr.rank
    BY <2>1 DEF BestOf
  <2>3. Top(list, b)
    BY <1>2, <2>2, ComparedTops
  <2> DEFINE T == Tops(list, W)
  <2>4. T \subseteq W /\ \A x \in T : Top(list, x)
    BY <1>2, ComparedTops DEF Tops
  <2>5. Promise!Ordered(U) => Orders(list, T)
    <3> HIDE DEF T
    <3> QED
      BY <1>2, <2>4, OrderedTops DEF W
  <2>6. Promise!Ordered(U) => \A w \in W : w # b => Prefers(list, b, w)
    BY <2>1, <2>5 DEF BestOf
  <2> QED
    BY <1>2, <1>6, <2>2, <2>3, <2>6 DEF W, b
<1> QED
  BY <1>5, <1>6

\* Where bgp_info_cmp is an order, what it prefers to all that are compared is
\* one of LocRib's choices: by steps, through the winner of each route.
LEMMA BestIsEqual ==
  ASSUME NEW list, TableOK(list), OneSelected(list),
         NEW W \in SUBSET Candidates(list), Covers(list, W, Candidates(list)),
         NEW b \in W, \A w \in W : w # b => Prefers(list, b, w)
  PROVE  /\ Equal(list, b)
         /\ config.compareId \/ ~External(list[b]) =>
              \A s \in Candidates(list) : Equal(list, s) => list[b].peer <= list[s].peer
         /\ \A e \in Candidates(list) :
              ~config.compareId /\ list[e].selected /\ External(list[e]) /\ Equal(list, e)
                => b = e
<1> DEFINE C == Candidates(list)
           rank(x) == list[x].attr.rank
           med(x) == list[x].attr.med
           CM(x, y) == ComparesMed(list[x], list[y])
           E(x) == External(list[x])
<1>1. /\ C \subseteq DOMAIN list /\ b \in C
      /\ \A x \in C : /\ rank(x) \in Nat /\ med(x) \in Nat /\ list[x].peer \in Nat
                      /\ list[x].selected \in BOOLEAN
  <2>1. C \subseteq DOMAIN list
    BY DEF Candidates
  <2> QED
    BY <2>1, RouteTypes
<1>2. \A x, y \in C :
         Prefers(list, x, y) <=>
           \/ rank(x) < rank(y)
           \/ /\ rank(x) = rank(y)
              /\ \/ CM(x, y) /\ med(x) < med(y)
                 \/ /\ CM(x, y) => med(x) = med(y)
                    /\ \/ E(x) /\ ~E(y)
                       \/ (E(x) <=> E(y)) /\ ByKey(list, x, y)
  BY <1>1, PrefersBySteps DEF SameRank
<1>3. /\ \A x, y \in C : CM(x, y) <=> CM(y, x)
      /\ \A x, y, z \in C : CM(x, y) /\ CM(y, z) => CM(x, z)
      /\ \A x \in C : CM(x, x)
  BY DEF ComparesMed
<1>4. \A m \in C : \E w \in W : w \in C /\ (w = m \/ (Prefers(list, w, m) /\ CM(w, m)))
  BY DEF Covers
<1>5. \A w \in W : w \in C /\ (w # b => Prefers(list, b, w))
  OBVIOUS
<1>6. \A n \in C : Top(list, n) <=> \A m \in C : rank(n) <= rank(m)
  BY DEF Top
<1>7. \A n \in C : Cheap(list, n) <=>
         Top(list, n) /\ \A m \in C : Top(list, m) /\ CM(n, m) => med(n) <= med(m)
  BY DEF Cheap
<1>8. \A n \in C : Equal(list, n) <=>
         Cheap(list, n) /\ (E(n) \/ \A m \in C : Cheap(list, m) => ~E(m))
  BY DEF Equal
<1> HIDE DEF C, rank, med, CM, E
\* what the winner of a top-ranked route is
<1>9. Top(list, b)
  <2>1. ASSUME NEW m \in C PROVE rank(b) <= rank(m)
    <3>1. PICK w \in W : w \in C /\ (w = m \/ (Prefers(list, w, m) /\ CM(w, m)))
      BY <1>4
    <3>2. rank(w) <= rank(m)
      BY <1>1, <1>2, <3>1
    <3>3. rank(b) <= rank(w)
      BY <1>1, <1>2, <1>5, <3>1
    <3> QED
      BY <1>1, <3>1, <3>2, <3>3
  <2> QED
    BY <1>1, <1>6, <2>1
<1>10. ASSUME NEW s \in C, Top(list, s)
       PROVE  \E w \in W :
                /\ w \in C /\ Top(list, w) /\ CM(w, s) /\ rank(w) = rank(s)
                /\ rank(b) = rank(w) /\ med(w) <= med(s)
                /\ w = s \/ Prefers(list, w, s)
                /\ b = w \/ Prefers(list, b, w)
  <2>1. PICK w \in W : w \in C /\ (w = s \/ (Prefers(list, w, s) /\ CM(w, s)))
    BY <1>4
  <2>2. rank(w) <= rank(s) /\ rank(s) <= rank(w) /\ rank(b) <= rank(s) /\ rank(s) <= rank(b)
    BY <1>1, <1>2, <1>6, <1>9, <1>10, <2>1
  <2>3. rank(w) = rank(s) /\ rank(b) = rank(w)
    BY <1>1, <2>1, <2>2
  <2>4. Top(list, w)
    BY <1>6, <1>10, <2>1, <2>3
  <2>5. CM(w, s)
    BY <1>3, <2>1
  <2>6. med(w) <= med(s)
    BY <1>1, <1>2, <2>1, <2>3, <2>5
  <2> QED
    BY <1>5, <2>1, <2>3, <2>4, <2>5, <2>6
<1>11. Cheap(list, b)
  <2>1. ASSUME NEW s \in C, Top(list, s), CM(b, s) PROVE med(b) <= med(s)
    <3>1. PICK w \in W :
            /\ w \in C /\ CM(w, s) /\ rank(b) = rank(w) /\ med(w) <= med(s)
            /\ b = w \/ Prefers(list, b, w)
      BY <1>10, <2>1
    <3>2. CM(b, w)
      BY <1>1, <1>3, <2>1, <3>1
    <3>3. med(b) <= med(w)
      BY <1>1, <1>2, <3>1, <3>2
    <3> QED
      BY <1>1, <3>1, <3>3
  <2> QED
    BY <1>1, <1>7, <1>9, <2>1
\* the winner of a route with the least MED: it has that, too, and is as external
<1>12. ASSUME NEW s \in C, Cheap(list, s)
       PROVE  \E w \in W :
                /\ w \in C /\ Cheap(list, w) /\ (E(s) => E(w))
                /\ w = s \/ (E(w) /\ ~E(s)) \/ ((E(w) <=> E(s)) /\ ByKey(list, w, s))
                /\ b = w \/ (E(b) /\ ~E(w)) \/ ((E(b) <=> E(w)) /\ ByKey(list, b, w))
  <2>1. Top(list, s)
    BY <1>7, <1>12
  <2>2. PICK w \in W :
           /\ w \in C /\ Top(list, w) /\ CM(w, s) /\ rank(w) = rank(s)
           /\ rank(b) = rank(w) /\ med(w) <= med(s)
           /\ w = s \/ Prefers(list, w, s)
           /\ b = w \/ Prefers(list, b, w)
    BY <1>10, <2>1
  <2>3. CM(s, w) /\ med(s) <= med(w)
    BY <1>3, <1>7, <1>12, <2>2
  <2>4. med(w) = med(s)
    BY <1>1, <2>2, <2>3
  <2>5. Cheap(list, w)
    BY <1>3, <1>7, <1>12, <2>2, <2>3, <2>4
  <2>6. w = s \/ (E(w) /\ ~E(s)) \/ ((E(w) <=> E(s)) /\ ByKey(list, w, s))
    BY <1>1, <1>2, <2>2, <2>4
  <2>7. b = w \/ (E(b) /\ ~E(w)) \/ ((E(b) <=> E(w)) /\ ByKey(list, b, w))
    <3>1. CM(b, w) => ~(med(b) < med(w))
      BY <1>1, <1>7, <1>9, <2>2, <2>5, <1>3
    <3> QED
      BY <1>1, <1>2, <2>2, <3>1
  <2> QED
    BY <2>2, <2>5, <2>6, <2>7
<1>13. Equal(list, b)
  <2>1. ASSUME NEW s \in C, Cheap(list, s), E(s) PROVE E(b)
    BY <1>12, <2>1
  <2> QED
    BY <1>1, <1>8, <1>11, <2>1
<1>14. ASSUME NEW s \in C, Equal(list, s)
       PROVE  \E w \in W : /\ w \in C /\ (E(w) <=> E(s)) /\ (E(b) <=> E(w))
                           /\ w = s \/ ByKey(list, w, s)
                           /\ b = w \/ ByKey(list, b, w)
  <2>1. Cheap(list, s)
    BY <1>8, <1>14
  <2>2. PICK w \in W :
                /\ w \in C /\ Cheap(list, w) /\ (E(s) => E(w))
                /\ w = s \/ (E(w) /\ ~E(s)) \/ ((E(w) <=> E(s)) /\ ByKey(list, w, s))
                /\ b = w \/ (E(b) /\ ~E(w)) \/ ((E(b) <=> E(w)) /\ ByKey(list, b, w))
    BY <1>12, <2>1
  <2>3. (E(w) <=> E(s)) /\ (E(b) <=> E(w))
    BY <1>1, <1>8, <1>11, <1>13, <1>14, <2>2
  <2> QED
    BY <2>2, <2>3
<1>15. ASSUME config.compareId \/ ~E(b), NEW s \in C, Equal(list, s)
       PROVE  list[b].peer <= list[s].peer
  <2>1. PICK w \in W : /\ w \in C /\ (E(w) <=> E(s)) /\ (E(b) <=> E(w))
                       /\ w = s \/ ByKey(list, w, s)
                       /\ b = w \/ ByKey(list, b, w)
    BY <1>14, <1>15
  <2> QED
    BY <1>1, <1>15, <2>1 DEF ByKey, E
<1>16. ASSUME NEW e \in C, ~config.compareId, list[e].selected, E(e), Equal(list, e)
       PROVE  b = e
  <2>1. PICK w \in W : /\ w \in C /\ (E(w) <=> E(e)) /\ (E(b) <=> E(w))
                       /\ w = e \/ ByKey(list, w, e)
                       /\ b = w \/ ByKey(list, b, w)
    BY <1>14, <1>16
  <2>2. w = e
    BY <1>1, <1>16, <2>1 DEF ByKey, E, OneSelected
  <2> QED
    BY <1>1, <1>16, <2>1, <2>2 DEF ByKey, E, OneSelected
<1> QED
  BY <1>13, <1>15, <1>16 DEF C, E

\* What bgp_process selects is one of LocRib's choices, and it is the external
\* route that was selected before if that is as good.
LEMMA SelectIsChoice ==
  ASSUME NEW list, TableOK(list), OneSelected(list), NEW n, n = Select(list),
         NEW U, U = UsableOf(list)
  PROVE  /\ n = 0 \/ n \in Candidates(list)
         /\ RouteAt(list, n) \in Promise!Choices(U)
         /\ \A e \in Candidates(list) :
              /\ Promise!Ordered(U) /\ ~config.compareId
              /\ list[e].selected /\ External(list[e])
              /\ Plain(list[e]) \in Promise!Equals(U)
              => n = e
<1> DEFINE C == Candidates(list)
           W == Compared(list)
           S == Promise!Equals(U)
<1>1. /\ W \in SUBSET C /\ Covers(list, W, C)
      /\ IF C = {} THEN n = 0
         ELSE /\ n \in W /\ Top(list, n)
              /\ Promise!Ordered(U) => \A w \in W : w # n => Prefers(list, n, w)
  BY SelectFindsBest
<1>2. U = {Plain(list[m]) : m \in C}
  BY DEF UsableOf
<1>3. C \subseteq 1..Len(list) /\ Len(list) \in Nat
  BY DEF Candidates, TableOK
<1>4. CASE C = {}
  BY <1>1, <1>2, <1>4 DEF RouteAt, Promise!Choices
<1>5. CASE C # {}
  <2>1. n \in W /\ n \in C /\ n # 0 /\ U # {}
    BY <1>1, <1>2, <1>3, <1>5
  <2>2. RouteAt(list, n) = Plain(list[n])
    BY <2>1 DEF RouteAt
  <2>3. CASE Promise!Ordered(U)
    <3>1. \A w \in W : w # n => Prefers(list, n, w)
      BY <1>1, <1>5, <2>3
    <3>2. S = Promise!ExternalFirst(Promise!LeastMed(Promise!TopRanked(U)))
      BY <2>3 DEF Promise!Equals
    <3>3. \A m \in C : Plain(list[m]) \in S <=> Equal(list, m)
      <4> HIDE DEF S
      <4> QED
        BY <3>2, StepsOfChoice
    <3>4. /\ Equal(list, n)
          /\ config.compareId \/ ~External(list[n]) =>
               \A s \in C : Equal(list, s) => list[n].peer <= list[s].peer
          /\ \A e \in C :
               ~config.compareId /\ list[e].selected /\ External(list[e]) /\ Equal(list, e)
                 => n = e
      BY <1>1, <2>1, <3>1, BestIsEqual
    <3>5. S \subseteq U
      BY <3>2 DEF Promise!ExternalFirst, Promise!LeastMed, Promise!TopRanked
    <3> HIDE DEF C, S
    <3>6. Plain(list[n]) \in S
      BY <2>1, <3>3, <3>4
    <3>7. ASSUME config.compareId \/ \A r \in S : ~Promise!External(r)
          PROVE  Plain(list[n]) \in Promise!LowestId(S)
      <4>1. config.compareId \/ ~External(list[n])
        BY <3>6, <3>7 DEF Plain, External, Promise!External
      <4>2. ASSUME NEW s \in S PROVE Plain(list[n]).peer <= s.peer
        <5>1. PICK m \in C : s = Plain(list[m])
          BY <1>2, <3>5
        <5>2. list[n].peer <= list[m].peer
          BY <3>3, <3>4, <4>1, <5>1
        <5> QED
          BY <5>1, <5>2 DEF Plain
      <4> QED
        BY <3>6, <4>2 DEF Promise!LowestId
    <3>8. Plain(list[n]) \in Promise!Choices(U)
      BY <2>1, <3>6, <3>7 DEF Promise!Choices, S
    <3> QED
      BY <2>1, <2>2, <3>3, <3>4, <3>8 DEF C, S
  <2>4. CASE ~Promise!Ordered(U)
    <3>1. Top(list, n)
      BY <1>1, <1>5
    <3>2. Plain(list[n]) \in Promise!TopRanked(U)
      BY <2>1, <3>1, StepsOfChoice
    <3> QED
      BY <2>1, <2>2, <2>4, <3>2 DEF Promise!Choices, Promise!Equals
  <2> QED
    BY <2>3, <2>4
<1> QED
  BY <1>4, <1>5

-----------------------------------------------------------------------------
(* What was announced.                                                     *)

\* The route that was announced is in the table and the one that is selected.
Shows(l, t) ==
  /\ t = NoRoute \/ \E n \in DOMAIN l : t = Plain(l[n])
  /\ \A n \in DOMAIN l : l[n].selected <=> t = Plain(l[n])

\* A list that bgp_process is called with: the selected route is the one of the
\* peer whose route was announced, and that route unless it is BGP_INFO_ATTR_CHANGED.
Follows(l, t) ==
  /\ TableOK(l)
  /\ \A n \in DOMAIN l :
       /\ l[n].selected <=> (t # NoRoute /\ t.peer = l[n].peer)
       /\ l[n].selected /\ ~l[n].changed => t = Plain(l[n])

LEMMA NoRouteIsNone ==
  ASSUME NEW l, TableOK(l), NEW n \in DOMAIN l
  PROVE  /\ Plain(l[n]) # NoRoute
         /\ Plain(l[n]) \in [peer : Peer, attr : Attr]
         /\ Plain(l[n]).peer = l[n].peer /\ Plain(l[n]).attr = l[n].attr
<1>1. l[n].peer \in Peer /\ l[n].attr \in Attr
  BY RouteTypes
<1> QED
  BY <1>1, NoRouteAssumption DEF Plain

\* The last selected route is the only one.
LEMMA OldSelectIs ==
  ASSUME NEW l, TableOK(l), OneSelected(l), NEW n, n = OldSelect(l)
  PROVE  IF \E m \in DOMAIN l : l[m].selected
         THEN n \in DOMAIN l /\ l[n].selected /\ n # 0
         ELSE n = 0
<1> DEFINE I == {m \in DOMAIN l : l[m].selected}
<1>1. n = IF I = {} THEN 0 ELSE Max(I)
  BY DEF OldSelect
<1>2. Len(l) \in Nat /\ DOMAIN l = 1..Len(l)
  BY DEF TableOK
<1>3. CASE I = {}
  BY <1>1, <1>3
<1>4. CASE I # {}
  <2>1. PICK i \in I : TRUE
    BY <1>4
  <2>2. \A j \in I : j = i
    BY <2>1 DEF OneSelected
  <2>3. i >= i /\ i # 0
    BY <1>2, <2>1
  <2>4. \E x \in I : \A y \in I : x >= y
    BY <2>1, <2>2, <2>3
  <2> HIDE DEF I
  <2>5. n \in I
    BY <1>1, <1>4, <2>4 DEF Max
  <2> QED
    BY <2>1, <2>2, <2>3, <2>5 DEF I
<1> QED
  BY <1>3, <1>4

LEMMA ShowsOldSelect ==
  ASSUME NEW l, TableOK(l), NEW t, Shows(l, t)
  PROVE  RouteAt(l, OldSelect(l)) = t /\ OneSelected(l) /\ Follows(l, t)
<1>1. \A n \in DOMAIN l : Plain(l[n]) # NoRoute /\ Plain(l[n]).peer = l[n].peer
  BY NoRouteIsNone
<1>2. OneSelected(l)
  <2>1. ASSUME NEW i \in DOMAIN l, NEW j \in DOMAIN l, l[i].selected, l[j].selected
        PROVE  i = j
    <3>1. Plain(l[i]) = Plain(l[j])
      BY <2>1 DEF Shows
    <3>2. l[i].peer = l[j].peer
      BY <1>1, <3>1
    <3> QED
      BY <3>2 DEF TableOK
  <2> QED
    BY <2>1 DEF OneSelected
<1> DEFINE n == OldSelect(l)
<1>3. IF \E m \in DOMAIN l : l[m].selected
      THEN n \in DOMAIN l /\ l[n].selected /\ n # 0
      ELSE n = 0
  BY <1>2, OldSelectIs
<1> HIDE DEF n
<1>4. RouteAt(l, n) = t
  BY <1>3 DEF Shows, RouteAt
<1>5. Follows(l, t)
  <2>1. ASSUME NEW m \in DOMAIN l, t # NoRoute, t.peer = l[m].peer
        PROVE  l[m].selected
    <3>1. PICK k \in DOMAIN l : t = Plain(l[k])
      BY <2>1 DEF Shows
    <3>2. k = m
      BY <1>1, <2>1, <3>1 DEF TableOK
    <3> QED
      BY <3>1, <3>2 DEF Shows
  <2>2. \A m \in DOMAIN l : l[m].selected => t = Plain(l[m])
    BY DEF Shows
  <2> QED
    BY <1>1, <2>1, <2>2 DEF Follows
<1> QED
  BY <1>2, <1>4, <1>5 DEF n

LEMMA FollowsOneSelected ==
  ASSUME NEW l, NEW t, Follows(l, t)
  PROVE  OneSelected(l)
  BY DEF Follows, OneSelected, TableOK

\* bgp_process: the new selection is flagged and announced.
LEMMA ProcessShows ==
  ASSUME NEW l, Follows(l, told), Process(l)
  PROVE  /\ TableOK(rib') /\ SameTables(l, rib')
         /\ told' = RouteAt(l, Select(l))
         /\ Shows(rib', told')
<1> DEFINE old == OldSelect(l)
           new == Select(l)
<1>1. TableOK(l) /\ OneSelected(l) /\ \A n \in DOMAIN l : l[n] \in InfoType
  BY FollowsOneSelected, RouteTypes DEF Follows
<1>2. TableOK(rib') /\ SameTables(l, rib')
  BY <1>1, ProcessKeeps
<1>3. new = 0 \/ new \in DOMAIN l
  BY <1>1, SelectIsChoice DEF Candidates
<1>4. IF \E m \in DOMAIN l : l[m].selected
      THEN old \in DOMAIN l /\ l[old].selected /\ old # 0
      ELSE old = 0
  BY <1>1, OldSelectIs
<1>5. 0 \notin DOMAIN l
  BY <1>1 DEF TableOK
<1>6. /\ told' = RouteAt(l, new)
      /\ \A n \in DOMAIN l : rib'[n].selected <=> n = new
  <2>1. CASE old # 0 /\ old = new /\ ~l[old].changed
    <3>1. rib' = l /\ told' = told
      BY <2>1 DEF Process
    <3>2. old \in DOMAIN l /\ l[old].selected /\ told = Plain(l[old])
      <4> HIDE DEF old
      <4> QED
        BY <1>4, <2>1 DEF Follows
    <3>3. \A n \in DOMAIN l : l[n].selected => n = old
      BY <1>1, <3>2 DEF OneSelected
    <3> HIDE DEF old, new
    <3> QED
      BY <2>1, <3>1, <3>2, <3>3 DEF RouteAt
  <2>2. CASE ~(old # 0 /\ old = new /\ ~l[old].changed)
    <3>1. /\ rib' = [n \in DOMAIN l |->
                       IF n = new
                       THEN [l[n] EXCEPT !.selected = TRUE, !.changed = FALSE]
                       ELSE IF n = old THEN [l[n] EXCEPT !.selected = FALSE]
                       ELSE l[n]]
          /\ told' = RouteAt(l, new)
      BY <2>2 DEF Process
    <3>2. \A n \in DOMAIN l : l[n].selected => n = old
      BY <1>1, <1>4 DEF OneSelected
    <3> HIDE DEF old, new
    <3>3. ASSUME NEW n \in DOMAIN l PROVE rib'[n].selected <=> n = new
      <4>1. l[n] \in InfoType /\ l[n].selected \in BOOLEAN
        BY <1>1 DEF InfoType
      <4>2. CASE n = new
        BY <3>1, <4>1, <4>2 DEF InfoType
      <4>3. CASE n # new /\ n = old
        <5>1. rib'[n] = [l[n] EXCEPT !.selected = FALSE]
          BY <3>1, <4>3
        <5> QED
          BY <4>1, <4>3, <5>1 DEF InfoType
      <4>4. CASE n # new /\ n # old
        BY <3>1, <3>2, <4>1, <4>4
      <4> QED
        BY <4>2, <4>3, <4>4
    <3> QED
      BY <3>1, <3>3
  <2> QED
    BY <2>1, <2>2
<1> HIDE DEF old, new
<1>7. Shows(rib', told')
  <2>1. \A n \in DOMAIN l : Plain(rib'[n]) = Plain(l[n]) /\ Plain(l[n]) # NoRoute
    BY <1>1, <1>2, NoRouteIsNone DEF SameTables, Alike, Plain
  <2>2. \A n, m \in DOMAIN l : Plain(l[n]) = Plain(l[m]) => n = m
    <3>1. \A n \in DOMAIN l : Plain(l[n]).peer = l[n].peer
      BY <1>1, NoRouteIsNone
    <3> QED
      BY <1>1, <3>1 DEF TableOK
  <2>3. told' = IF new = 0 THEN NoRoute ELSE Plain(l[new])
    BY <1>6 DEF RouteAt
  <2>4. DOMAIN rib' = DOMAIN l
    BY <1>2 DEF SameTables
  <2> QED
    BY <1>3, <1>5, <1>6, <2>1, <2>2, <2>3, <2>4 DEF Shows
<1> QED
  BY <1>2, <1>6, <1>7 DEF new

LEMMA UsableOfSame ==
  ASSUME NEW l, NEW m, SameTables(l, m)
  PROVE  UsableOf(m) = UsableOf(l)
<1>1. Candidates(m) = Candidates(l)
  BY DEF Candidates, HoldDown, SameTables, Alike
<1>2. \A n \in Candidates(l) : Plain(m[n]) = Plain(l[n])
  BY DEF Candidates, SameTables, Alike, Plain
<1> QED
  BY <1>1, <1>2 DEF UsableOf

\* What may be used are routes.
LEMMA UsableAreRoutes ==
  ASSUME NEW l, TableOK(l)
  PROVE  UsableOf(l) \subseteq Promise!Route
  BY NoRouteIsNone DEF UsableOf, Candidates, Promise!Route

LEMMA UsablePrimed == Usable' = UsableOf(rib') /\ Usable = UsableOf(rib)
  BY DEF Usable, UsableOf

\* bgp_process implements LocRib's Decide.
LEMMA ProcessDecides ==
  ASSUME TableOK(rib), Shows(rib, told),
         NEW l, Follows(l, told), Process(l), UNCHANGED config
  PROVE  Promise!Decide /\ told' \in Promise!Choices(Usable')
<1> DEFINE U == UsableOf(l)
           n == Select(l)
           best == RouteAt(rib, OldSelect(rib))
<1>1. /\ TableOK(rib') /\ SameTables(l, rib')
      /\ told' = RouteAt(l, n)
      /\ Shows(rib', told')
  BY ProcessShows
<1>2. TableOK(l) /\ OneSelected(l)
  BY FollowsOneSelected DEF Follows
<1>3. Usable' = U /\ U \subseteq Promise!Route
  BY <1>1, <1>2, UsableOfSame, UsablePrimed, UsableAreRoutes
<1>4. best = told /\ best' = told'
  <2>1. best = told
    BY ShowsOldSelect
  <2>2. RouteAt(rib', OldSelect(rib')) = told'
    BY <1>1, ShowsOldSelect
  <2> QED
    BY <2>1, <2>2
<1>5. /\ RouteAt(l, n) \in Promise!Choices(U)
      /\ \A e \in Candidates(l) :
           /\ Promise!Ordered(U) /\ ~config.compareId
           /\ l[e].selected /\ External(l[e])
           /\ Plain(l[e]) \in Promise!Equals(U)
           => n = e
      /\ n = 0 \/ n \in Candidates(l)
  BY <1>2, SelectIsChoice
<1>6. ASSUME Promise!Ordered(U), ~config.compareId,
             told \in Promise!Equals(U), Promise!External(told)
      PROVE  told' = told
  <2>1. told \in U
    BY <1>6 DEF Promise!Equals, Promise!ExternalFirst, Promise!LeastMed, Promise!TopRanked
  <2>2. PICK e \in Candidates(l) : told = Plain(l[e])
    BY <2>1 DEF UsableOf
  <2>3. e \in DOMAIN l /\ Plain(l[e]) # NoRoute /\ Plain(l[e]).peer = l[e].peer
    BY <1>2, NoRouteIsNone DEF Candidates
  <2>4. l[e].selected
    BY <2>2, <2>3 DEF Follows
  <2>5. External(l[e])
    BY <1>6, <2>2, <2>3 DEF External, Promise!External
  <2>6. n = e
    BY <1>5, <1>6, <2>2, <2>4, <2>5
  <2>7. e # 0
    BY <1>2, <2>3 DEF TableOK
  <2> QED
    BY <1>1, <2>2, <2>6, <2>7 DEF RouteAt
<1> HIDE DEF U, n
<1>7. told' \in Promise!Choices(Usable')
  BY <1>1, <1>3, <1>5
<1>8. Promise!Decide
  BY <1>1, <1>3, <1>4, <1>6, <1>7 DEF Promise!Decide
<1> QED
  BY <1>7, <1>8

-----------------------------------------------------------------------------
(* What was heard, and the reuse lists.                                    *)

IsLive(l, p) == \E n \in DOMAIN l : l[n].peer = p /\ ~l[n].history

\* RibIsHeard, of any table
HeardIn(l, h) ==
  \A p \in Peer :
    /\ h[p] = NoRoute <=> ~IsLive(l, p)
    /\ \A n \in DOMAIN l : l[n].peer = p /\ ~l[n].history => l[n].attr = h[p]

LEMMA RibIsHeardIn ==
  /\ RibIsHeard <=> HeardIn(rib, heard)
  /\ \A p : Live(p) = {} <=> ~IsLive(rib, p)
  BY DEF RibIsHeard, HeardIn, Live, IsLive

\* A suppressed route has an entry on a reuse list, and the thread was started.
WaitsOn(r, ls, d) ==
  r.damped => d.threads > 0 /\ r.info # NoInfo /\ \E k \in DOMAIN ls : r.info \in ls[k]
Waiting(l, ls, d) == \A n \in DOMAIN l : WaitsOn(l[n], ls, d)

TablesOK(r, t, h) == TableOK(r) /\ Shows(r, t) /\ HeardIn(r, h)

\* The route of p is v after the step, or there is none that is not history.
Says(l, p, v) ==
  IF v = NoRoute
  THEN \A n \in DOMAIN l : l[n].peer = p => l[n].history
  ELSE \E n \in DOMAIN l : l[n].peer = p /\ ~l[n].history /\ l[n].attr = v

\* One peer says something: the others are heard as before.
LEMMA HeardAfter ==
  ASSUME NEW p \in Peer, NEW l, NEW m, TableOK(l), TableOK(m), Kept(p, l, m),
         NEW h \in [Peer -> Attr \cup {NoRoute}], HeardIn(l, h),
         NEW v \in Attr \cup {NoRoute}, Says(m, p, v)
  PROVE  /\ HeardIn(m, [h EXCEPT ![p] = v])
         /\ \A q \in Peer \ {p} : IsLive(m, q) <=> IsLive(l, q)
         /\ IsLive(m, p) <=> v # NoRoute
<1> DEFINE g == [h EXCEPT ![p] = v]
<1>1. g[p] = v /\ \A q \in Peer : q # p => g[q] = h[q]
  OBVIOUS
<1> HIDE DEF g
<1>2. IsLive(m, p) <=> v # NoRoute
  BY DEF IsLive, Says
<1>3. \A q \in Peer \ {p} : IsLive(m, q) <=> IsLive(l, q)
  BY DEF IsLive, Kept, In
<1>4. ASSUME NEW n \in DOMAIN m, m[n].peer = p, ~m[n].history PROVE m[n].attr = v
  BY <1>4 DEF Says, TableOK
<1>5. ASSUME NEW q \in Peer, q # p, NEW n \in DOMAIN m, m[n].peer = q, ~m[n].history
      PROVE  m[n].attr = h[q]
  BY <1>5 DEF HeardIn, Kept, In
<1>6. HeardIn(m, g)
  <2> SUFFICES ASSUME NEW q \in Peer
               PROVE  /\ g[q] = NoRoute <=> ~IsLive(m, q)
                      /\ \A n \in DOMAIN m :
                           m[n].peer = q /\ ~m[n].history => m[n].attr = g[q]
    BY DEF HeardIn
  <2>1. CASE q = p
    BY <1>1, <1>2, <1>4, <2>1
  <2>2. CASE q # p
    <3>1. h[q] = NoRoute <=> ~IsLive(l, q)
      BY DEF HeardIn
    <3> QED
      BY <1>1, <1>3, <1>5, <2>2, <3>1
  <2> QED
    BY <2>1, <2>2
<1> QED
  BY <1>2, <1>3, <1>6 DEF g

\* The flags of bgp_process are not what is heard, nor what waits.
LEMMA HeardInSame ==
  ASSUME NEW l, NEW m, SameTables(l, m)
  PROVE  /\ \A h : HeardIn(l, h) => HeardIn(m, h)
         /\ \A p : IsLive(m, p) <=> IsLive(l, p)
         /\ \A ls, d : Waiting(l, ls, d) => Waiting(m, ls, d)
<1>1. \A p : IsLive(m, p) <=> IsLive(l, p)
  BY DEF IsLive, SameTables, Alike
<1>2. \A h : HeardIn(l, h) => HeardIn(m, h)
  <2> TAKE h
  <2> SUFFICES ASSUME HeardIn(l, h) PROVE HeardIn(m, h)
    OBVIOUS
  <2>1. \A p \in Peer : \A n \in DOMAIN m :
           m[n].peer = p /\ ~m[n].history => m[n].attr = h[p]
    BY DEF HeardIn, SameTables, Alike
  <2>2. \A p \in Peer : h[p] = NoRoute <=> ~IsLive(l, p)
    BY DEF HeardIn
  <2> QED
    BY <1>1, <2>1, <2>2 DEF HeardIn
<1>3. \A ls, d : Waiting(l, ls, d) => Waiting(m, ls, d)
  BY DEF Waiting, WaitsOn, SameTables, Alike
<1> QED
  BY <1>1, <1>2, <1>3

\* A list with another route of p is one bgp_process may be called with, if the
\* flag "selected" is as it was and a change of attributes is flagged.
LEMMA FollowsAfter ==
  ASSUME NEW p, NEW m, TableOK(rib), Shows(rib, told), TableOK(m), Kept(p, rib, m),
         \A n \in DOMAIN m : m[n].peer = p =>
           \/ NoneOf(p, rib) /\ ~m[n].selected
           \/ \E i \in DOMAIN rib :
                /\ rib[i].peer = p /\ (m[n].selected <=> rib[i].selected)
                /\ m[n].changed \/ m[n].attr = rib[i].attr
  PROVE  Follows(m, told)
<1>0. Follows(rib, told)
  BY ShowsOldSelect
<1>1. \A i \in DOMAIN rib : /\ rib[i].selected <=> (told # NoRoute /\ told.peer = rib[i].peer)
                            /\ rib[i].selected => told = Plain(rib[i])
  BY <1>0 DEF Shows, Follows
<1>2. \A i \in DOMAIN rib : Plain(rib[i]).peer = rib[i].peer
  BY NoRouteIsNone
<1>3. ASSUME NEW n \in DOMAIN m
      PROVE  /\ m[n].selected <=> (told # NoRoute /\ told.peer = m[n].peer)
             /\ m[n].selected /\ ~m[n].changed => told = Plain(m[n])
  <2>1. CASE m[n].peer # p
    BY <1>1, <2>1 DEF Kept, In
  <2>2. CASE m[n].peer = p /\ NoneOf(p, rib) /\ ~m[n].selected
    <3>1. ~(told # NoRoute /\ told.peer = p)
      BY <1>2, <2>2 DEF Shows, NoneOf
    <3> QED
      BY <2>2, <3>1
  <2>3. ASSUME NEW i \in DOMAIN rib, m[n].peer = p, rib[i].peer = p,
               m[n].selected <=> rib[i].selected, m[n].changed \/ m[n].attr = rib[i].attr
        PROVE  /\ m[n].selected <=> (told # NoRoute /\ told.peer = m[n].peer)
               /\ m[n].selected /\ ~m[n].changed => told = Plain(m[n])
    BY <1>1, <2>3 DEF Plain
  <2> QED
    BY <2>1, <2>2, <2>3
<1> QED
  BY <1>3 DEF Follows

\* What a step leaves in which p said v and bgp_process was called.
Told(p, v) ==
  /\ TablesOK(rib', told', heard')
  /\ heard' \in [Peer -> Attr \cup {NoRoute}]
  /\ Promise!Decide /\ told' \in Promise!Choices(Usable')
  /\ \A q \in Peer \ {p} : IsLive(rib', q) <=> IsLive(rib, q)
  /\ IsLive(rib', p) <=> v # NoRoute

\* All of this together: one peer says something and bgp_process is called.
LEMMA PeerSays ==
  ASSUME NEW p \in Peer, NEW m, NEW v \in Attr \cup {NoRoute},
         heard \in [Peer -> Attr \cup {NoRoute}], TablesOK(rib, told, heard),
         TableOK(m), Kept(p, rib, m), Says(m, p, v),
         \A n \in DOMAIN m : m[n].peer = p =>
           \/ NoneOf(p, rib) /\ ~m[n].selected
           \/ \E i \in DOMAIN rib :
                /\ rib[i].peer = p /\ (m[n].selected <=> rib[i].selected)
                /\ m[n].changed \/ m[n].attr = rib[i].attr,
         Process(m), heard' = [heard EXCEPT ![p] = v], UNCHANGED config
  PROVE  /\ Told(p, v)
         /\ \A ls, d : Waiting(m, ls, d) => Waiting(rib', ls, d)
<1>1. TableOK(rib) /\ Shows(rib, told) /\ HeardIn(rib, heard)
  BY DEF TablesOK
<1>2. Follows(m, told)
  BY <1>1, FollowsAfter
<1>3. TableOK(rib') /\ SameTables(m, rib') /\ Shows(rib', told')
  BY <1>2, ProcessShows
<1>4. Promise!Decide /\ told' \in Promise!Choices(Usable')
  BY <1>1, <1>2, ProcessDecides
<1>5. /\ HeardIn(m, heard')
      /\ \A q \in Peer \ {p} : IsLive(m, q) <=> IsLive(rib, q)
      /\ IsLive(m, p) <=> v # NoRoute
  BY <1>1, HeardAfter
<1>6. /\ HeardIn(rib', heard')
      /\ \A q : IsLive(rib', q) <=> IsLive(m, q)
      /\ \A ls, d : Waiting(m, ls, d) => Waiting(rib', ls, d)
  BY <1>3, <1>5, HeardInSame
<1>7. heard' \in [Peer -> Attr \cup {NoRoute}]
  OBVIOUS
<1> QED
  BY <1>3, <1>4, <1>5, <1>6, <1>7 DEF TablesOK, Told

\* The routes of the others wait as before.
LEMMA WaitingAfter ==
  ASSUME NEW p, NEW l, NEW m, Kept(p, l, m), NEW ls, NEW d, Waiting(l, ls, d),
         \A n \in DOMAIN m : m[n].peer = p => WaitsOn(m[n], ls, d)
  PROVE  Waiting(m, ls, d)
<1>1. ASSUME NEW n \in DOMAIN m, m[n].peer # p PROVE WaitsOn(m[n], ls, d)
  <2>1. PICK i \in DOMAIN l : l[i] = m[n]
    BY <1>1 DEF Kept, In
  <2> QED
    BY <2>1 DEF Waiting
<1> QED
  BY <1>1 DEF Waiting

\* The route of p is changed to r, and bgp_process is called.
LEMMA RouteReplaced ==
  ASSUME NEW p \in Peer, NEW n \in DOMAIN rib, rib[n].peer = p,
         NEW r \in InfoType, r.peer = p, r.selected <=> rib[n].selected,
         r.changed \/ r.attr = rib[n].attr,
         NEW v, v = (IF r.history THEN NoRoute ELSE r.attr),
         heard \in [Peer -> Attr \cup {NoRoute}], TablesOK(rib, told, heard),
         Process([rib EXCEPT ![n] = r]),
         heard' = [heard EXCEPT ![p] = v], UNCHANGED config
  PROVE  /\ Told(p, v)
         /\ \A ls, d : Waiting(rib, ls, d) /\ WaitsOn(r, ls, d) => Waiting(rib', ls, d)
<1> DEFINE m == [rib EXCEPT ![n] = r]
<1>1. TableOK(rib)
  BY DEF TablesOK
<1>2. TableOK(m) /\ Kept(p, rib, m) /\ In(m, r)
  BY <1>1, Replaced
<1>3. Process(m)
  OBVIOUS
<1> HIDE DEF m
<1>4. \A k \in DOMAIN m : m[k].peer = p => m[k] = r
  BY <1>2 DEF In, TableOK
<1>5. v \in Attr \cup {NoRoute} /\ r.attr \in Attr /\ r.attr # NoRoute
  BY NoRouteAssumption DEF InfoType
<1>6. Says(m, p, v)
  BY <1>2, <1>4, <1>5 DEF Says, In
<1>7. \A k \in DOMAIN m : m[k].peer = p =>
         \/ NoneOf(p, rib) /\ ~m[k].selected
         \/ \E i \in DOMAIN rib :
              /\ rib[i].peer = p /\ (m[k].selected <=> rib[i].selected)
              /\ m[k].changed \/ m[k].attr = rib[i].attr
  BY <1>4
<1>8. Told(p, v) /\ \A ls, d : Waiting(m, ls, d) => Waiting(rib', ls, d)
  BY <1>2, <1>3, <1>5, <1>6, <1>7, PeerSays
<1>9. \A ls, d : Waiting(rib, ls, d) /\ WaitsOn(r, ls, d) => Waiting(m, ls, d)
  BY <1>2, <1>4, WaitingAfter
<1> QED
  BY <1>8, <1>9

\* The route of p, if there is one, is removed, and bgp_process is called.
LEMMA RouteRemoved ==
  ASSUME NEW p \in Peer,
         heard \in [Peer -> Attr \cup {NoRoute}], TablesOK(rib, told, heard),
         Process(Without(Find(p))),
         heard' = [heard EXCEPT ![p] = NoRoute], UNCHANGED config
  PROVE  /\ Told(p, NoRoute)
         /\ \A ls, d : Waiting(rib, ls, d) => Waiting(rib', ls, d)
<1> DEFINE n == Find(p)
           m == Without(n)
<1>1. TableOK(rib)
  BY DEF TablesOK
<1>2. /\ n = 0 => NoneOf(p, rib)
      /\ n # 0 => n \in DOMAIN rib /\ rib[n].peer = p
  BY <1>1, FindIs
<1> HIDE DEF n
<1>3. TableOK(m) /\ Kept(p, rib, m) /\ NoneOf(p, m)
  <2>1. CASE n = 0
    BY <1>1, <1>2, <2>1 DEF Without, Kept, In
  <2>2. CASE n # 0
    BY <1>1, <1>2, <2>2, Removed DEF Without
  <2> QED
    BY <2>1, <2>2
<1>4. Process(m)
  BY DEF n
<1> HIDE DEF m
<1>5. Says(m, p, NoRoute)
  BY <1>3 DEF Says, NoneOf
<1>6. \A k \in DOMAIN m : m[k].peer # p
  BY <1>3 DEF NoneOf
<1>7. Told(p, NoRoute) /\ \A ls, d : Waiting(m, ls, d) => Waiting(rib', ls, d)
  BY <1>3, <1>4, <1>5, <1>6, PeerSays
<1>8. \A ls, d : Waiting(rib, ls, d) => Waiting(m, ls, d)
  BY <1>3, <1>6, WaitingAfter
<1> QED
  BY <1>7, <1>8

\* A peer that had no route has a new one; the decision process may not be called.
LEMMA RouteAdded ==
  ASSUME NEW p \in Peer, NEW v \in Attr, NEW r \in InfoType,
         r.peer = p, r.attr = v, ~r.history, ~r.selected, ~r.damped,
         NEW m, TableOK(m), Kept(p, rib, m), In(m, r), NoneOf(p, rib),
         heard \in [Peer -> Attr \cup {NoRoute}], TablesOK(rib, told, heard),
         heard' = [heard EXCEPT ![p] = v], UNCHANGED config
  PROVE  /\ Process(m) => Told(p, v) /\ \A ls, d : Waiting(m, ls, d) => Waiting(rib', ls, d)
         /\ \A ls, d : Waiting(rib, ls, d) => Waiting(m, ls, d)
         /\ TablesOK(m, told, heard')
         /\ UsableOf(rib) \subseteq UsableOf(m)
         /\ \A q \in Peer \ {p} : IsLive(m, q) <=> IsLive(rib, q)
         /\ IsLive(m, p)
<1>1. TableOK(rib) /\ Shows(rib, told) /\ HeardIn(rib, heard)
  BY DEF TablesOK
<1>2. TableOK(m) /\ Kept(p, rib, m) /\ In(m, r)
  OBVIOUS
<1>3. \A k \in DOMAIN m : m[k].peer = p => m[k] = r
  BY <1>2 DEF In, TableOK
<1>4. v # NoRoute
  BY NoRouteAssumption
<1>5. Says(m, p, v)
  BY <1>2, <1>3, <1>4 DEF Says, In
<1>6. ASSUME Process(m)
      PROVE  Told(p, v) /\ \A ls, d : Waiting(m, ls, d) => Waiting(rib', ls, d)
  <2>1. \A n \in DOMAIN m : m[n].peer = p =>
           \/ NoneOf(p, rib) /\ ~m[n].selected
           \/ \E i \in DOMAIN rib :
                /\ rib[i].peer = p /\ (m[n].selected <=> rib[i].selected)
                /\ m[n].changed \/ m[n].attr = rib[i].attr
    BY <1>3
  <2>2. v \in Attr \cup {NoRoute}
    OBVIOUS
  <2> QED
    BY <1>2, <1>5, <1>6, <2>1, <2>2, PeerSays
<1>7. \A ls, d : Waiting(rib, ls, d) => Waiting(m, ls, d)
  <2>1. \A ls, d : \A k \in DOMAIN m : m[k].peer = p => WaitsOn(m[k], ls, d)
    BY <1>3 DEF WaitsOn
  <2> QED
    BY <1>2, <2>1, WaitingAfter
<1>8. /\ HeardIn(m, heard')
      /\ \A q \in Peer \ {p} : IsLive(m, q) <=> IsLive(rib, q)
      /\ IsLive(m, p)
  BY <1>1, <1>2, <1>4, <1>5, HeardAfter
<1>9. \A i \in DOMAIN rib : \E k \in DOMAIN m : m[k] = rib[i]
  BY <1>2 DEF Kept, In, NoneOf
<1>10. Shows(m, told)
  <2>1. told # NoRoute => \E n \in DOMAIN m : told = Plain(m[n])
    BY <1>1, <1>9 DEF Shows
  <2>2. ASSUME NEW n \in DOMAIN m PROVE m[n].selected <=> told = Plain(m[n])
    <3>1. CASE m[n].peer = p
      <4>1. Plain(m[n]).peer = p /\ Plain(m[n]) # NoRoute
        BY <1>2, <3>1, NoRouteIsNone
      <4>2. \A i \in DOMAIN rib : Plain(rib[i]).peer # p
        BY <1>1, NoRouteIsNone DEF NoneOf
      <4> QED
        BY <1>1, <1>3, <3>1, <4>1, <4>2 DEF Shows
    <3>2. CASE m[n].peer # p
      BY <1>1, <1>2, <3>2 DEF Shows, Kept, In
    <3> QED
      BY <3>1, <3>2
  <2> QED
    BY <2>1, <2>2 DEF Shows
<1>11. UsableOf(rib) \subseteq UsableOf(m)
  BY <1>9 DEF UsableOf, Candidates
<1> QED
  BY <1>2, <1>6, <1>7, <1>8, <1>10, <1>11 DEF TablesOK

-----------------------------------------------------------------------------
(* The invariant, and what a step has to show.                             *)

\* The thread that is known is one of those there are; the first insertion has
\* started one, and a command at most one beside it.
ThreadsOK(d) ==
  /\ d \in DampType
  /\ d.known => d.threads > 0
  /\ IF d.first THEN d.threads = (IF d.known THEN 1 ELSE 0)
     ELSE d.threads <= (IF d.known THEN 2 ELSE 1)

\* Without a configuration nothing is inserted, and nothing is on a list.
Idle(ls, d) == ~d.configured => ~d.enabled /\ \A k \in DOMAIN ls : ls[k] = {}

DampOK ==
  /\ penalty \in [Info -> 0..Ceiling]
  /\ lists \in [0..(Slots - 1) -> SUBSET Info]
  /\ ThreadsOK(damp)
  /\ Idle(lists, damp)
  /\ broken \in BOOLEAN

CountsOK ==
  /\ heard \in [Peer -> Attr \cup {NoRoute}]
  /\ pcount \in [Peer -> 0..(CountModulus - 1)]
  /\ stopping \subseteq Peer
  /\ config \in Config
  /\ inputs \in 0..MaxInputs

IInv == TablesOK(rib, told, heard) /\ CountsOK /\ DampOK

\* The step is one of LocRib or leaves its variables alone.
Implements ==
  Promise!Next \/ UNCHANGED <<config, Usable, RouteAt(rib, OldSelect(rib)), told>>

\* The step does not make what is announced stale.
StaysFresh == Stale' => Stale

\* The step strands no route that is suppressed.
StayWaiting == Waiting(rib, lists, damp) => Waiting(rib', lists', damp')

\* The count of q is off after the step by what it was before.
NoDrift(q) == Drift(q)' = Drift(q)

\* Counting up and down again, modulo the width of the counter.
LEMMA Counting ==
  ASSUME NEW M \in Nat \ {0}, NEW x \in 0..(M - 1)
  PROVE  /\ (x + 1) % M \in 0..(M - 1) /\ (x - 1) % M \in 0..(M - 1)
         /\ (((x + 1) % M) - 1) % M = (x - 0) % M
         /\ (((x - 1) % M) - 0) % M = (x - 1) % M
<1>1. \A y \in 0..(M - 1) : y % M = y
  OBVIOUS
<1>2. M % M = 0 /\ (0 - 1) % M = M - 1
  OBVIOUS
<1>3. (x + 1) % M = IF x = M - 1 THEN 0 ELSE x + 1
  BY <1>1, <1>2
<1>4. (x - 1) % M = IF x = 0 THEN M - 1 ELSE x - 1
  BY <1>1, <1>2
<1>5. (x + 1) % M \in 0..(M - 1) /\ (x - 1) % M \in 0..(M - 1)
  BY <1>3, <1>4
<1>6. (((x + 1) % M) - 1) % M = (x - 0) % M
  BY <1>1, <1>2, <1>3
<1>7. (((x - 1) % M) - 0) % M = (x - 1) % M
  BY <1>1, <1>5
<1> QED
  BY <1>5, <1>6, <1>7

\* The counter and the table give the drift.
LEMMA DriftIs ==
  ASSUME NEW q
  PROVE  /\ Drift(q) = (pcount[q] - (IF IsLive(rib, q) THEN 1 ELSE 0)) % CountModulus
         /\ Drift(q)' = (pcount'[q] - (IF IsLive(rib', q) THEN 1 ELSE 0)) % CountModulus
<1>1. Live(q) = {} <=> ~IsLive(rib, q)
  BY DEF Live, IsLive
<1>2. (Live(q) = {})' <=> ~IsLive(rib', q)
  BY DEF Live, IsLive
<1> QED
  BY <1>1, <1>2 DEF Drift

\* The count of a peer that has no more or fewer routes than before.
LEMMA DriftSame ==
  ASSUME NEW q, pcount'[q] = pcount[q], IsLive(rib', q) <=> IsLive(rib, q)
  PROVE  NoDrift(q)
  BY DriftIs DEF NoDrift

\* A new live route is counted, and one that is not live any more.
LEMMA DriftCounted ==
  ASSUME NEW q \in Peer, pcount \in [Peer -> 0..(CountModulus - 1)]
  PROVE  /\ pcount' = [pcount EXCEPT ![q] = (@ + 1) % CountModulus]
            /\ ~IsLive(rib, q) /\ IsLive(rib', q) => NoDrift(q)
         /\ pcount' = [pcount EXCEPT ![q] = (@ - 1) % CountModulus]
            /\ IsLive(rib, q) /\ ~IsLive(rib', q) => NoDrift(q)
<1> DEFINE M == CountModulus
           x == pcount[q]
<1>1. M \in Nat \ {0} /\ x \in 0..(M - 1)
  BY DampAssumption
<1>2. /\ (((x + 1) % M) - 1) % M = (x - 0) % M
      /\ (((x - 1) % M) - 0) % M = (x - 1) % M
  <2> HIDE DEF M, x
  <2> QED
    BY <1>1, Counting
<1>3. ASSUME pcount' = [pcount EXCEPT ![q] = (@ + 1) % CountModulus],
             ~IsLive(rib, q), IsLive(rib', q)
      PROVE  NoDrift(q)
  <2>1. pcount'[q] = (x + 1) % M
    BY <1>3
  <2>2. Drift(q) = (x - 0) % M /\ Drift(q)' = (((x + 1) % M) - 1) % M
    BY <1>3, <2>1, DriftIs
  <2> QED
    BY <1>2, <2>2 DEF NoDrift
<1>4. ASSUME pcount' = [pcount EXCEPT ![q] = (@ - 1) % CountModulus],
             IsLive(rib, q), ~IsLive(rib', q)
      PROVE  NoDrift(q)
  <2>1. pcount'[q] = (x - 1) % M
    BY <1>4
  <2>2. Drift(q) = (x - 1) % M /\ Drift(q)' = (((x - 1) % M) - 0) % M
    BY <1>4, <2>1, DriftIs
  <2> QED
    BY <1>2, <2>2 DEF NoDrift
<1> QED
  BY <1>3, <1>4

\* The type of the counter is kept.
LEMMA CountTypes ==
  ASSUME NEW p \in Peer, pcount \in [Peer -> 0..(CountModulus - 1)],
         CountUp(p) \/ CountDown(p) \/ UNCHANGED pcount
  PROVE  /\ pcount' \in [Peer -> 0..(CountModulus - 1)]
         /\ \A q \in Peer \ {p} : pcount'[q] = pcount[q]
<1> DEFINE M == CountModulus
           x == pcount[p]
<1>1. M \in Nat \ {0} /\ x \in 0..(M - 1)
  BY DampAssumption
<1>2. (x + 1) % M \in 0..(M - 1) /\ (x - 1) % M \in 0..(M - 1)
  <2> HIDE DEF M, x
  <2> QED
    BY <1>1, Counting
<1> QED
  BY <1>2 DEF CountUp, CountDown

\* LocRib's choice does not change by itself.
LEMMA ChoicesKept ==
  ASSUME UNCHANGED config
  PROVE  Promise!Choices(Usable)' = Promise!Choices(Usable')
  BY DEF Promise!Choices, Promise!Equals, Promise!Ordered, Promise!ExternalFirst,
         Promise!Pathless, Promise!LeastMed, Promise!TopRanked, Promise!LowestId,
         Promise!External

\* Whoever calls bgp_process keeps the promise, and is not stale.
LEMMA ToldImplements ==
  ASSUME NEW p, NEW v, Told(p, v), UNCHANGED config
  PROVE  Implements /\ ~Stale'
<1>1. Promise!Next
  BY DEF Told, Promise!Next
<1>2. told' \in Promise!Choices(Usable)'
  BY ChoicesKept DEF Told
<1> QED
  BY <1>1, <1>2 DEF Implements, Stale

\* Whoever changes neither what is selected nor what is told, and takes nothing
\* away from what may be used, keeps the promise.
LEMMA OverlookImplements ==
  ASSUME TablesOK(rib, told, heard), TablesOK(rib', told', heard'),
         UNCHANGED <<config, told>>, UsableOf(rib) \subseteq UsableOf(rib')
  PROVE  /\ Implements
         /\ UsableOf(rib') = UsableOf(rib) => StaysFresh
<1>1. RouteAt(rib, OldSelect(rib)) = told /\ RouteAt(rib', OldSelect(rib')) = told'
  BY ShowsOldSelect DEF TablesOK
<1>2. RouteAt(rib, OldSelect(rib))' = RouteAt(rib, OldSelect(rib))
  <2>1. RouteAt(rib', OldSelect(rib')) = RouteAt(rib, OldSelect(rib))
    BY <1>1
  <2> QED
    BY <2>1
<1>3. Usable' \in SUBSET Promise!Route /\ Usable \subseteq Usable'
  BY UsablePrimed, UsableAreRoutes DEF TablesOK
<1>4. Promise!Overlook
  BY <1>2, <1>3 DEF Promise!Overlook
<1>5. UsableOf(rib') = UsableOf(rib) => StaysFresh
  <2> HAVE UsableOf(rib') = UsableOf(rib)
  <2>1. Usable' = Usable
    BY UsablePrimed
  <2>2. Promise!Choices(Usable)' = Promise!Choices(Usable)
    BY <2>1, ChoicesKept
  <2> QED
    BY <2>2 DEF StaysFresh, Stale
<1> QED
  BY <1>4, <1>5 DEF Implements, Promise!Next

-----------------------------------------------------------------------------
(* What a peer says.                                                       *)

LEMMA DampUnchanged ==
  ASSUME DampOK, UNCHANGED dampVars, Waiting(rib, lists, damp) => Waiting(rib', lists, damp)
  PROVE  DampOK' /\ StayWaiting
<1>1. penalty' = penalty /\ lists' = lists /\ damp' = damp /\ broken' = broken
  BY DEF dampVars
<1> QED
  BY <1>1 DEF DampOK, StayWaiting

\* The rest of the types, when nothing else changes but the number of inputs.
LEMMA CountsAfter ==
  ASSUME CountsOK, Input, UNCHANGED config,
         heard' \in [Peer -> Attr \cup {NoRoute}],
         pcount' \in [Peer -> 0..(CountModulus - 1)], stopping' \subseteq Peer
  PROVE  CountsOK'
<1>1. inputs + 1 \in 0..MaxInputs
  BY DampAssumption DEF CountsOK, Input
<1> QED
  BY <1>1 DEF CountsOK, Input

\* bgp_damp_update leaves all but the flag "damped".
LEMMA LiftedIs ==
  ASSUME NEW s \in InfoType, NEW r, r = Lifted(s)
  PROVE  /\ r \in InfoType /\ r.peer = s.peer /\ r.attr = s.attr
         /\ r.history = s.history /\ r.selected = s.selected
         /\ r.changed = s.changed /\ r.info = s.info
         /\ r.damped => s.damped
<1>1. r = s \/ r = [s EXCEPT !.damped = FALSE]
  BY DEF Lifted
<1> QED
  BY <1>1 DEF InfoType

\* A peer without a route.
NewInfo(p, a) ==
  [peer |-> p, attr |-> a, history |-> FALSE, damped |-> FALSE,
   changed |-> FALSE, selected |-> FALSE, info |-> NoInfo]

LEMMA NewRouteKeeps ==
  ASSUME IInv, NEW p \in Peer, NEW a \in Attr, Input, NewRoute(p, a),
         p \notin stopping,
         heard' = [heard EXCEPT ![p] = a], UNCHANGED config
  PROVE  /\ IInv' /\ Implements /\ StayWaiting
         /\ stopping' = stopping => StaysFresh
         /\ \A q \in Peer : NoDrift(q)
<1> DEFINE new == NewInfo(p, a)
           m == <<new>> \o rib
<1>1. TableOK(rib) /\ TablesOK(rib, told, heard) /\ CountsOK /\ DampOK
  BY DEF IInv, TablesOK
<1>2. heard \in [Peer -> Attr \cup {NoRoute}] /\ pcount \in [Peer -> 0..(CountModulus - 1)]
  BY <1>1 DEF CountsOK
<1>3. /\ new \in InfoType /\ new.peer = p /\ new.attr = a
      /\ ~new.history /\ ~new.selected /\ ~new.damped
  BY DEF NewInfo, InfoType
<1>4. NoneOf(p, rib) /\ CountUp(p) /\ UNCHANGED dampVars
  BY <1>1, FindIs DEF NewRoute
<1>5. IF Overflows(p)
      THEN rib' = m /\ stopping' = stopping \cup {p} /\ UNCHANGED told
      ELSE Process(m) /\ UNCHANGED stopping
  BY DEF NewRoute, NewInfo
<1> HIDE DEF new
<1>6. TableOK(m) /\ Kept(p, rib, m) /\ In(m, new)
  BY <1>1, <1>3, <1>4, AtTheHead
<1> HIDE DEF m
<1>7. /\ Process(m) => Told(p, a) /\ \A ls, d : Waiting(m, ls, d) => Waiting(rib', ls, d)
      /\ \A ls, d : Waiting(rib, ls, d) => Waiting(m, ls, d)
      /\ TablesOK(m, told, heard')
      /\ UsableOf(rib) \subseteq UsableOf(m)
      /\ \A q \in Peer \ {p} : IsLive(m, q) <=> IsLive(rib, q)
      /\ IsLive(m, p)
  BY <1>1, <1>2, <1>3, <1>4, <1>6, RouteAdded
<1>8. pcount' \in [Peer -> 0..(CountModulus - 1)] /\ \A q \in Peer \ {p} : pcount'[q] = pcount[q]
  BY <1>2, <1>4, CountTypes
<1>9. /\ TablesOK(rib', told', heard')
      /\ Waiting(rib, lists, damp) => Waiting(rib', lists, damp)
      /\ \A q \in Peer \ {p} : IsLive(rib', q) <=> IsLive(rib, q)
      /\ IsLive(rib', p)
  <2>1. CASE Overflows(p)
    BY <1>5, <1>7, <2>1
  <2>2. CASE ~Overflows(p)
    <3>1. a # NoRoute
      BY NoRouteAssumption
    <3> QED
      BY <1>5, <1>7, <2>2, <3>1 DEF Told
  <2> QED
    BY <2>1, <2>2
<1>10. Implements /\ (stopping' = stopping => StaysFresh)
  <2>1. CASE Overflows(p)
    <3>1. rib' = m /\ told' = told
      BY <1>5, <2>1
    <3>2. Implements /\ (UsableOf(rib') = UsableOf(rib) => StaysFresh)
      BY <1>1, <1>7, <1>9, <3>1, OverlookImplements
    <3>3. p \notin stopping => stopping' # stopping
      BY <1>5, <2>1
    <3> QED
      BY <3>2, <3>3
  <2>2. CASE ~Overflows(p)
    BY <1>5, <1>7, <2>2, ToldImplements DEF StaysFresh
  <2> QED
    BY <2>1, <2>2
<1>11. \A q \in Peer : NoDrift(q)
  <2>1. NoDrift(p)
    <3>1. ~IsLive(rib, p)
      BY <1>4 DEF NoneOf, IsLive
    <3> QED
      BY <1>2, <1>4, <1>9, <3>1, DriftCounted DEF CountUp
  <2>2. \A q \in Peer \ {p} : NoDrift(q)
    BY <1>8, <1>9, DriftSame
  <2> QED
    BY <2>1, <2>2
<1>12. stopping' \subseteq Peer
  BY <1>1, <1>5 DEF CountsOK
<1>13. heard' \in [Peer -> Attr \cup {NoRoute}]
  BY <1>2
<1>14. CountsOK' /\ DampOK' /\ StayWaiting
  BY <1>1, <1>4, <1>8, <1>9, <1>12, <1>13, CountsAfter, DampUnchanged
<1> QED
  BY <1>9, <1>10, <1>11, <1>14 DEF IInv

LEMMA ReplaceKeeps ==
  ASSUME IInv, NEW p \in Peer, NEW a \in Attr, Input, Replace(p, a),
         heard' = [heard EXCEPT ![p] = a], UNCHANGED config
  PROVE  /\ IInv' /\ Implements /\ StaysFresh /\ StayWaiting
         /\ \A q \in Peer : NoDrift(q)
<1> DEFINE n == Find(p)
           r == Lifted(rib[n])
           same == [r EXCEPT !.changed = FALSE]
           other == [r EXCEPT !.attr = a, !.changed = TRUE, !.history = FALSE]
<1>1. TableOK(rib) /\ TablesOK(rib, told, heard) /\ CountsOK /\ DampOK
  BY DEF IInv, TablesOK
<1>2. heard \in [Peer -> Attr \cup {NoRoute}] /\ pcount \in [Peer -> 0..(CountModulus - 1)]
  BY <1>1 DEF CountsOK
<1>3. n \in DOMAIN rib /\ rib[n].peer = p
  BY <1>1, FindIs DEF Replace
<1>4. IF ~r.history /\ r.attr = a
      THEN Process([rib EXCEPT ![n] = same]) /\ UNCHANGED pcount
      ELSE /\ Process([rib EXCEPT ![n] = other])
           /\ IF r.history THEN CountUp(p) ELSE UNCHANGED pcount
  BY DEF Replace
<1>5. UNCHANGED <<stopping, dampVars>>
  BY DEF Replace
<1> HIDE DEF n
<1>6. rib[n] \in InfoType
  BY <1>1, <1>3, RouteTypes
<1>7. /\ r \in InfoType /\ r.peer = p /\ r.attr = rib[n].attr
      /\ r.history = rib[n].history /\ r.selected = rib[n].selected
      /\ r.info = rib[n].info /\ (r.damped => rib[n].damped)
  BY <1>3, <1>6, LiftedIs
<1> HIDE DEF r
<1>8. IsLive(rib, p) <=> ~r.history
  BY <1>1, <1>3, <1>7 DEF IsLive, TableOK
<1>9. a # NoRoute
  BY NoRouteAssumption
<1>10. /\ Told(p, a)
       /\ Waiting(rib, lists, damp) => Waiting(rib', lists, damp)
  <2>1. CASE ~r.history /\ r.attr = a
    <3>1. /\ same \in InfoType /\ same.peer = p /\ same.attr = rib[n].attr
          /\ (same.selected <=> rib[n].selected) /\ same.history = r.history
          /\ same.info = r.info /\ same.damped = r.damped
      BY <1>7 DEF InfoType
    <3>2. Process([rib EXCEPT ![n] = same])
      BY <1>4, <2>1
    <3> HIDE DEF same
    <3>3. a = IF same.history THEN NoRoute ELSE same.attr
      BY <1>7, <2>1, <3>1
    <3>4. /\ Told(p, a)
          /\ \A ls, d : Waiting(rib, ls, d) /\ WaitsOn(same, ls, d) => Waiting(rib', ls, d)
      BY <1>1, <1>2, <1>3, <3>1, <3>2, <3>3, RouteReplaced
    <3>5. Waiting(rib, lists, damp) => WaitsOn(same, lists, damp)
      BY <1>3, <1>7, <3>1 DEF Waiting, WaitsOn
    <3> QED
      BY <3>4, <3>5
  <2>2. CASE ~(~r.history /\ r.attr = a)
    <3>1. /\ other \in InfoType /\ other.peer = p /\ other.changed /\ other.attr = a
          /\ (other.selected <=> rib[n].selected) /\ ~other.history
          /\ other.info = r.info /\ other.damped = r.damped
      BY <1>7 DEF InfoType
    <3>2. Process([rib EXCEPT ![n] = other])
      BY <1>4, <2>2
    <3> HIDE DEF other
    <3>3. a = IF other.history THEN NoRoute ELSE other.attr
      BY <3>1
    <3>4. /\ Told(p, a)
          /\ \A ls, d : Waiting(rib, ls, d) /\ WaitsOn(other, ls, d) => Waiting(rib', ls, d)
      BY <1>1, <1>2, <1>3, <3>1, <3>2, <3>3, RouteReplaced
    <3>5. Waiting(rib, lists, damp) => WaitsOn(other, lists, damp)
      BY <1>3, <1>7, <3>1 DEF Waiting, WaitsOn
    <3> QED
      BY <3>4, <3>5
  <2> QED
    BY <2>1, <2>2
<1>11. CountUp(p) \/ UNCHANGED pcount
  BY <1>4
<1>12. /\ pcount' \in [Peer -> 0..(CountModulus - 1)]
       /\ \A q \in Peer \ {p} : pcount'[q] = pcount[q]
  BY <1>2, <1>11, CountTypes
<1>13. /\ IsLive(rib', p)
       /\ \A q \in Peer \ {p} : IsLive(rib', q) <=> IsLive(rib, q)
       /\ TablesOK(rib', told', heard')
       /\ heard' \in [Peer -> Attr \cup {NoRoute}]
  BY <1>9, <1>10 DEF Told
<1>14. \A q \in Peer : NoDrift(q)
  <2>1. CASE r.history
    <3>1. NoDrift(p)
      BY <1>2, <1>4, <1>8, <1>13, <2>1, DriftCounted DEF CountUp
    <3> QED
      BY <1>12, <1>13, <3>1, DriftSame
  <2>2. CASE ~r.history
    BY <1>4, <1>8, <1>13, <2>2, DriftSame
  <2> QED
    BY <2>1, <2>2
<1>15. Implements /\ StaysFresh
  BY <1>10, ToldImplements DEF StaysFresh
<1>16. stopping' \subseteq Peer
  BY <1>1, <1>5 DEF CountsOK
<1>17. CountsOK' /\ DampOK' /\ StayWaiting
  BY <1>1, <1>5, <1>10, <1>12, <1>13, <1>16, CountsAfter, DampUnchanged
<1> QED
  BY <1>13, <1>14, <1>15, <1>17 DEF IInv

LEMMA UpdateKeeps ==
  ASSUME IInv, NEW p \in Peer, NEW a \in Offers[p], Update(p, a)
  PROVE  /\ IInv' /\ Implements /\ StayWaiting
         /\ stopping' = stopping => StaysFresh
         /\ \A q \in Peer : NoDrift(q)
<1>1. a \in Attr
  BY OffersAssumption
<1> QED
  BY <1>1, NewRouteKeeps, ReplaceKeeps DEF Update

\* A denial counts down whether the route was counted or not.
LEMMA DenyKeeps ==
  ASSUME IInv, NEW p \in Peer, Deny(p)
  PROVE  /\ IInv' /\ Implements /\ StaysFresh /\ StayWaiting
         /\ \A q \in Peer : ~NoDrift(q) => q = p /\ Find(p) # 0 /\ Live(p) = {}
<1>1. TableOK(rib) /\ TablesOK(rib, told, heard) /\ CountsOK /\ DampOK
  BY DEF IInv, TablesOK
<1>2. heard \in [Peer -> Attr \cup {NoRoute}] /\ pcount \in [Peer -> 0..(CountModulus - 1)]
  BY <1>1 DEF CountsOK
<1>3. /\ Input /\ Process(Without(Find(p)))
      /\ IF Find(p) # 0 THEN CountDown(p) ELSE UNCHANGED pcount
      /\ heard' = [heard EXCEPT ![p] = NoRoute]
      /\ UNCHANGED <<config, stopping, dampVars>>
  BY DEF Deny
<1>4. /\ Told(p, NoRoute)
      /\ \A ls, d : Waiting(rib, ls, d) => Waiting(rib', ls, d)
  BY <1>1, <1>2, <1>3, RouteRemoved
<1>5. /\ ~IsLive(rib', p)
      /\ \A q \in Peer \ {p} : IsLive(rib', q) <=> IsLive(rib, q)
      /\ TablesOK(rib', told', heard')
      /\ heard' \in [Peer -> Attr \cup {NoRoute}]
  BY <1>4 DEF Told
<1>6. /\ pcount' \in [Peer -> 0..(CountModulus - 1)]
      /\ \A q \in Peer \ {p} : pcount'[q] = pcount[q]
  <2>1. CountDown(p) \/ UNCHANGED pcount
    BY <1>3
  <2> QED
    BY <1>2, <2>1, CountTypes
<1>7. \A q \in Peer \ {p} : NoDrift(q)
  BY <1>5, <1>6, DriftSame
<1>8. NoDrift(p) \/ (Find(p) # 0 /\ Live(p) = {})
  <2>1. CASE Find(p) = 0
    <3>1. ~IsLive(rib, p)
      BY <1>1, <2>1, FindIs DEF NoneOf, IsLive
    <3> QED
      BY <1>3, <1>5, <2>1, <3>1, DriftSame
  <2>2. CASE Find(p) # 0 /\ IsLive(rib, p)
    BY <1>2, <1>3, <1>5, <2>2, DriftCounted DEF CountDown
  <2>3. CASE Find(p) # 0 /\ ~IsLive(rib, p)
    BY <2>3, RibIsHeardIn
  <2> QED
    BY <2>1, <2>2, <2>3
<1>9. Implements /\ StaysFresh
  BY <1>3, <1>4, ToldImplements DEF StaysFresh
<1>10. stopping' \subseteq Peer
  BY <1>1, <1>3 DEF CountsOK
<1>11. CountsOK' /\ DampOK' /\ StayWaiting
  BY <1>1, <1>3, <1>4, <1>5, <1>6, <1>10, CountsAfter, DampUnchanged
<1> QED
  BY <1>5, <1>7, <1>8, <1>9, <1>11 DEF IInv

LEMMA SessionDownKeeps ==
  ASSUME IInv, NEW p \in Peer, SessionDown(p)
  PROVE  /\ IInv' /\ Implements /\ StaysFresh /\ StayWaiting
         /\ \A q \in Peer \ {p} : NoDrift(q)
<1>1. TableOK(rib) /\ TablesOK(rib, told, heard) /\ CountsOK /\ DampOK
  BY DEF IInv, TablesOK
<1>2. heard \in [Peer -> Attr \cup {NoRoute}] /\ pcount \in [Peer -> 0..(CountModulus - 1)]
  BY <1>1 DEF CountsOK
<1>3. /\ Input
      /\ IF Find(p) = 0 THEN UNCHANGED <<rib, told>> ELSE Process(Without(Find(p)))
      /\ pcount' = [pcount EXCEPT ![p] = 0]
      /\ heard' = [heard EXCEPT ![p] = NoRoute]
      /\ stopping' = stopping \ {p}
      /\ UNCHANGED <<config, dampVars>>
  BY DEF SessionDown
<1>4. /\ Implements /\ StaysFresh
      /\ TablesOK(rib', told', heard') /\ heard' \in [Peer -> Attr \cup {NoRoute}]
      /\ \A q \in Peer \ {p} : IsLive(rib', q) <=> IsLive(rib, q)
      /\ Waiting(rib, lists, damp) => Waiting(rib', lists, damp)
  <2>1. CASE Find(p) = 0
    <3>1. rib' = rib /\ told' = told
      BY <1>3, <2>1
    <3>2. HeardIn(rib, heard) /\ NoneOf(p, rib)
      BY <1>1, <2>1, FindIs DEF TablesOK
    <3>3. heard' = heard
      <4>1. ~IsLive(rib, p)
        BY <3>2 DEF NoneOf, IsLive
      <4>2. heard[p] = NoRoute
        BY <3>2, <4>1 DEF HeardIn
      <4> QED
        BY <1>2, <1>3, <4>2
    <3>4. TablesOK(rib', told', heard')
      BY <1>1, <3>1, <3>3
    <3>5. UsableOf(rib') = UsableOf(rib)
      BY <3>1
    <3>6. Implements /\ StaysFresh
      BY <1>1, <1>3, <3>1, <3>4, <3>5, OverlookImplements
    <3> QED
      BY <1>2, <3>1, <3>3, <3>4, <3>6
  <2>2. CASE Find(p) # 0
    <3>1. /\ Told(p, NoRoute)
          /\ \A ls, d : Waiting(rib, ls, d) => Waiting(rib', ls, d)
      BY <1>1, <1>2, <1>3, <2>2, RouteRemoved
    <3>2. Implements /\ StaysFresh
      BY <1>3, <3>1, ToldImplements DEF StaysFresh
    <3> QED
      BY <3>1, <3>2 DEF Told
  <2> QED
    BY <2>1, <2>2
<1>5. /\ pcount' \in [Peer -> 0..(CountModulus - 1)]
      /\ \A q \in Peer \ {p} : pcount'[q] = pcount[q]
  BY <1>2, <1>3, DampAssumption
<1>6. \A q \in Peer \ {p} : NoDrift(q)
  BY <1>4, <1>5, DriftSame
<1>7. stopping' \subseteq Peer
  BY <1>1, <1>3 DEF CountsOK
<1>8. CountsOK' /\ DampOK' /\ StayWaiting
  BY <1>1, <1>3, <1>4, <1>5, <1>7, CountsAfter, DampUnchanged
<1> QED
  BY <1>4, <1>6, <1>8 DEF IInv

-----------------------------------------------------------------------------
(* Dampening.                                                              *)

\* An entry goes to a list, and the thread is started if it is the first.
LEMMA InsertKeeps ==
  ASSUME NEW i \in Info, Insert(i), ThreadsOK(damp),
         lists \in [0..(Slots - 1) -> SUBSET Info]
  PROVE  /\ lists' \in [0..(Slots - 1) -> SUBSET Info]
         /\ ThreadsOK(damp') /\ broken' \in BOOLEAN
         /\ damp'.configured = damp.configured
         /\ Waiting(rib, lists, damp) => Waiting(rib, lists', damp')
         /\ damp'.threads > 0 \/ (damp.threads = 0 /\ ~damp.first)
         /\ \E k \in DOMAIN lists' : i \in lists'[k]
<1>1. PICK k \in DOMAIN lists : lists' = [lists EXCEPT ![k] = @ \cup {i}]
  BY DEF Insert
<1>2. /\ damp' = IF damp.first
                 THEN [damp EXCEPT !.first = FALSE, !.threads = @ + 1, !.known = TRUE]
                 ELSE damp
      /\ broken' = Listed(i)
  BY DEF Insert
<1>3. /\ lists' \in [0..(Slots - 1) -> SUBSET Info] /\ DOMAIN lists' = DOMAIN lists
      /\ \A j \in DOMAIN lists : lists[j] \subseteq lists'[j]
      /\ i \in lists'[k]
  BY <1>1
<1>4. damp \in DampType
  BY DEF ThreadsOK
<1>5. /\ damp' \in DampType /\ ~damp'.first
      /\ damp'.enabled = damp.enabled /\ damp'.configured = damp.configured
      /\ IF damp.first THEN damp'.threads = damp.threads + 1 /\ damp'.known
         ELSE damp' = damp
  <2>1. CASE damp.first
    <3>1. damp' = [damp EXCEPT !.first = FALSE, !.threads = @ + 1, !.known = TRUE]
      BY <1>2, <2>1
    <3>2. damp.threads \in 0..1
      BY <1>4, <2>1 DEF ThreadsOK, DampType
    <3>3. damp.threads + 1 \in 0..2
      BY <3>2
    <3>4. damp' \in DampType
      BY <1>4, <3>1, <3>3 DEF DampType
    <3>5. /\ damp'.first = FALSE /\ damp'.known = TRUE
          /\ damp'.threads = damp.threads + 1
          /\ damp'.enabled = damp.enabled /\ damp'.configured = damp.configured
      BY <1>4, <3>1 DEF DampType
    <3> QED
      BY <2>1, <3>4, <3>5
  <2>2. CASE ~damp.first
    BY <1>2, <1>4, <2>2
  <2> QED
    BY <2>1, <2>2
<1>6. damp' \in DampType /\ ~damp'.first
  BY <1>5
<1>7. ThreadsOK(damp')
  BY <1>4, <1>5, <1>6 DEF ThreadsOK, DampType
<1>8. /\ damp.threads > 0 => damp'.threads > 0
      /\ damp'.threads > 0 \/ (damp.threads = 0 /\ ~damp.first)
  BY <1>4, <1>5 DEF DampType
<1>9. Waiting(rib, lists, damp) => Waiting(rib, lists', damp')
  BY <1>3, <1>8 DEF Waiting, WaitsOn
<1>10. broken' \in BOOLEAN
  BY <1>2 DEF Listed
<1> QED
  BY <1>1, <1>3, <1>5, <1>7, <1>8, <1>9, <1>10

\* There is a struct bgp_damp_info for a route that has none.
InfoOf(r) == IF r.info # NoInfo THEN r.info ELSE CHOOSE j \in Free : \A k \in Free : j <= k

LEMMA InfoIsThere ==
  ASSUME NEW r \in InfoType, r.info # NoInfo \/ Free # {}
  PROVE  InfoOf(r) \in Info
<1>1. CASE r.info # NoInfo
  BY <1>1 DEF InfoOf, InfoType
<1>2. CASE r.info = NoInfo
  <2>1. Free \in SUBSET Nat /\ Free # {} /\ Free \subseteq Info
    BY <1>2, DampAssumption DEF Free
  <2>2. \E j \in Free : \A k \in Free : j <= k
    BY <2>1, Least
  <2>3. InfoOf(r) \in Free
    BY <1>2, <2>2 DEF InfoOf
  <2> QED
    BY <2>1, <2>3
<1> QED
  BY <1>1, <1>2

\* A withdrawal with dampening keeps the route as history.
LEMMA DampWithdrawKeeps ==
  ASSUME TablesOK(rib, told, heard), DampOK, damp.enabled,
         heard \in [Peer -> Attr \cup {NoRoute}],
         NEW p \in Peer, NEW n \in DOMAIN rib, rib[n].peer = p, DampWithdraw(n),
         heard' = [heard EXCEPT ![p] = NoRoute], UNCHANGED config
  PROVE  /\ Told(p, NoRoute) /\ DampOK'
         /\ StayWaiting \/ (damp.threads = 0 /\ ~damp.first)
<1> DEFINE r == rib[n]
           i == InfoOf(r)
           suppressed == Raised(r) >= Suppress
           gone == [r EXCEPT !.history = TRUE, !.info = i, !.damped = @ \/ suppressed]
<1>1. /\ r.info # NoInfo \/ Free # {}
      /\ penalty' = [penalty EXCEPT ![i] = Raised(r)]
      /\ IF ~r.damped /\ suppressed THEN Insert(i) ELSE UNCHANGED <<lists, damp, broken>>
      /\ Process([rib EXCEPT ![n] = gone])
  BY DEF DampWithdraw, InfoOf
<1>2. r \in InfoType /\ r.damped \in BOOLEAN
  BY RouteTypes DEF TablesOK, InfoType
<1>3. i \in Info
  BY <1>1, <1>2, InfoIsThere
<1>4. suppressed \in BOOLEAN
  OBVIOUS
<1>5. Raised(r) \in 0..Ceiling
  <2>1. r.info # NoInfo => penalty[r.info] \in 0..Ceiling
    BY <1>2 DEF DampOK, InfoType
  <2> QED
    BY <2>1, DampAssumption DEF Raised
<1>6. penalty' \in [Info -> 0..Ceiling]
  <2> HIDE DEF r, i
  <2> QED
    BY <1>1, <1>3, <1>5 DEF DampOK
<1> HIDE DEF i, suppressed
<1>7. /\ gone \in InfoType /\ gone.peer = p /\ gone.attr = r.attr
      /\ gone.selected = r.selected /\ gone.history /\ gone.info = i
      /\ gone.damped = (r.damped \/ suppressed)
  <2> HIDE DEF r
  <2>1. r.peer = p
    BY DEF r
  <2> QED
    BY <1>2, <1>3, <1>4, <2>1 DEF InfoType
<1> DEFINE g == gone
<1>8. Process([rib EXCEPT ![n] = g])
  BY <1>1
<1> HIDE DEF g
<1>9. /\ g \in InfoType /\ g.peer = p /\ g.attr = rib[n].attr
      /\ (g.selected <=> rib[n].selected) /\ g.history /\ g.info = i
      /\ g.damped = (rib[n].damped \/ suppressed)
  BY <1>7 DEF g
<1>10. /\ Told(p, NoRoute)
       /\ \A ls, d : Waiting(rib, ls, d) /\ WaitsOn(g, ls, d) => Waiting(rib', ls, d)
  <2>1. NoRoute = IF g.history THEN NoRoute ELSE g.attr
    BY <1>9
  <2> QED
    BY <1>8, <1>9, <2>1, RouteReplaced
<1>11. /\ lists' \in [0..(Slots - 1) -> SUBSET Info]
       /\ ThreadsOK(damp') /\ broken' \in BOOLEAN
       /\ damp'.configured = damp.configured
       /\ \/ Waiting(rib, lists, damp) =>
               Waiting(rib, lists', damp') /\ WaitsOn(g, lists', damp')
          \/ damp.threads = 0 /\ ~damp.first
  <2>1. CASE ~r.damped /\ suppressed
    <3>1. Insert(i)
      BY <1>1, <2>1
    <3>2. /\ lists' \in [0..(Slots - 1) -> SUBSET Info]
          /\ ThreadsOK(damp') /\ broken' \in BOOLEAN
          /\ damp'.configured = damp.configured
          /\ Waiting(rib, lists, damp) => Waiting(rib, lists', damp')
          /\ damp'.threads > 0 \/ (damp.threads = 0 /\ ~damp.first)
          /\ \E k \in DOMAIN lists' : i \in lists'[k]
      BY <1>3, <3>1, InsertKeeps DEF DampOK
    <3>3. i # NoInfo
      BY <1>3, DampAssumption
    <3>4. WaitsOn(g, lists', damp') \/ (damp.threads = 0 /\ ~damp.first)
      BY <1>9, <3>2, <3>3 DEF WaitsOn
    <3> QED
      BY <3>2, <3>4
  <2>2. CASE ~(~r.damped /\ suppressed)
    <3>1. lists' = lists /\ damp' = damp /\ broken' = broken
      BY <1>1, <2>2
    <3>2. g.damped => rib[n].damped
      BY <1>2, <1>4, <1>9, <2>2
    <3>3. rib[n].info # NoInfo => g.info = rib[n].info
      BY <1>9 DEF i, InfoOf
    <3>4. Waiting(rib, lists, damp) => WaitsOn(g, lists, damp)
      BY <3>2, <3>3 DEF Waiting, WaitsOn
    <3> QED
      BY <3>1, <3>4 DEF DampOK
  <2> QED
    BY <2>1, <2>2
<1>12. DampOK'
  <2>1. damp.configured
    BY DEF DampOK, Idle
  <2>2. Idle(lists', damp')
    BY <1>11, <2>1 DEF Idle
  <2> QED
    BY <1>6, <1>11, <2>2 DEF DampOK
<1>13. StayWaiting \/ (damp.threads = 0 /\ ~damp.first)
  BY <1>10, <1>11 DEF StayWaiting
<1> QED
  BY <1>10, <1>12, <1>13

LEMMA WithdrawKeeps ==
  ASSUME IInv, NEW p \in Peer, Withdraw(p)
  PROVE  /\ IInv' /\ Implements /\ StaysFresh
         /\ StayWaiting \/ (damp.threads = 0 /\ ~damp.first)
         /\ \A q \in Peer : NoDrift(q)
<1>1. TableOK(rib) /\ TablesOK(rib, told, heard) /\ CountsOK /\ DampOK
  BY DEF IInv, TablesOK
<1>2. heard \in [Peer -> Attr \cup {NoRoute}] /\ pcount \in [Peer -> 0..(CountModulus - 1)]
  BY <1>1 DEF CountsOK
<1>3. /\ Input /\ Find(p) # 0 /\ ~rib[Find(p)].history
      /\ IF p \notin config.internal /\ damp.enabled THEN DampWithdraw(Find(p))
         ELSE Process(Without(Find(p))) /\ UNCHANGED dampVars
      /\ CountDown(p)
      /\ heard' = [heard EXCEPT ![p] = NoRoute]
      /\ UNCHANGED <<config, stopping>>
  BY DEF Withdraw
<1>4. Find(p) \in DOMAIN rib /\ rib[Find(p)].peer = p
  BY <1>1, <1>3, FindIs
<1>5. IsLive(rib, p)
  BY <1>3, <1>4 DEF IsLive
<1>6. /\ Told(p, NoRoute) /\ DampOK'
      /\ StayWaiting \/ (damp.threads = 0 /\ ~damp.first)
  <2>1. CASE p \notin config.internal /\ damp.enabled
    BY <1>1, <1>2, <1>3, <1>4, <2>1, DampWithdrawKeeps
  <2>2. CASE ~(p \notin config.internal /\ damp.enabled)
    <3>1. Process(Without(Find(p))) /\ UNCHANGED dampVars
      BY <1>3, <2>2
    <3>2. /\ Told(p, NoRoute)
          /\ \A ls, d : Waiting(rib, ls, d) => Waiting(rib', ls, d)
      BY <1>1, <1>2, <1>3, <3>1, RouteRemoved
    <3> QED
      BY <1>1, <3>1, <3>2, DampUnchanged
  <2> QED
    BY <2>1, <2>2
<1>7. /\ ~IsLive(rib', p)
      /\ \A q \in Peer \ {p} : IsLive(rib', q) <=> IsLive(rib, q)
      /\ TablesOK(rib', told', heard')
      /\ heard' \in [Peer -> Attr \cup {NoRoute}]
  BY <1>6 DEF Told
<1>8. /\ pcount' \in [Peer -> 0..(CountModulus - 1)]
      /\ \A q \in Peer \ {p} : pcount'[q] = pcount[q]
  BY <1>2, <1>3, CountTypes
<1>9. \A q \in Peer : NoDrift(q)
  <2>1. NoDrift(p)
    BY <1>2, <1>3, <1>5, <1>7, DriftCounted DEF CountDown
  <2>2. \A q \in Peer \ {p} : NoDrift(q)
    BY <1>7, <1>8, DriftSame
  <2> QED
    BY <2>1, <2>2
<1>10. Implements /\ StaysFresh
  BY <1>3, <1>6, ToldImplements DEF StaysFresh
<1>11. CountsOK'
  <2>1. stopping' \subseteq Peer
    BY <1>1, <1>3 DEF CountsOK
  <2> QED
    BY <1>1, <1>3, <1>7, <1>8, <2>1, CountsAfter
<1> QED
  BY <1>6, <1>7, <1>9, <1>10, <1>11 DEF IInv

-----------------------------------------------------------------------------
(* Time and commands.                                                      *)

\* Routes are not suppressed any more, and nothing else of them changes.
Cleared(l, m) ==
  /\ DOMAIN m = DOMAIN l /\ m \in Seq(InfoType)
  /\ \A n \in DOMAIN l :
       /\ m[n].peer = l[n].peer /\ m[n].attr = l[n].attr
       /\ m[n].history = l[n].history /\ m[n].selected = l[n].selected
       /\ m[n].damped => l[n].damped

LEMMA ClearedTables ==
  ASSUME NEW l, NEW m, Cleared(l, m), NEW t, NEW h, TablesOK(l, t, h)
  PROVE  /\ TablesOK(m, t, h)
         /\ UsableOf(l) \subseteq UsableOf(m)
         /\ \A q : IsLive(m, q) <=> IsLive(l, q)
<1>1. TableOK(m)
  BY DEF TablesOK, TableOK, Cleared
<1>2. \A n \in DOMAIN l : Plain(m[n]) = Plain(l[n])
  BY DEF Cleared, Plain
<1>3. Shows(m, t)
  <2>1. t = NoRoute \/ \E n \in DOMAIN m : t = Plain(m[n])
    BY <1>2 DEF TablesOK, Shows, Cleared
  <2>2. \A n \in DOMAIN m : m[n].selected <=> t = Plain(m[n])
    BY <1>2 DEF TablesOK, Shows, Cleared
  <2> QED
    BY <2>1, <2>2 DEF Shows
<1>4. \A q : IsLive(m, q) <=> IsLive(l, q)
  BY DEF IsLive, Cleared
<1>5. HeardIn(m, h)
  <2>1. HeardIn(l, h)
    BY DEF TablesOK
  <2>2. \A q \in Peer : \A n \in DOMAIN m :
           m[n].peer = q /\ ~m[n].history => m[n].attr = h[q]
    BY <2>1 DEF HeardIn, Cleared
  <2>3. \A q \in Peer : h[q] = NoRoute <=> ~IsLive(l, q)
    BY <2>1 DEF HeardIn
  <2> QED
    BY <1>4, <2>2, <2>3 DEF HeardIn
<1>6. UsableOf(l) \subseteq UsableOf(m)
  <2>1. ASSUME NEW n \in Candidates(l) PROVE n \in Candidates(m)
    BY <2>1 DEF Candidates, HoldDown, Cleared
  <2>2. \A n \in Candidates(l) : n \in DOMAIN l
    BY DEF Candidates
  <2> QED
    BY <1>2, <2>1, <2>2 DEF UsableOf
<1> QED
  BY <1>1, <1>3, <1>4, <1>5, <1>6 DEF TablesOK

\* A step in which no peer says anything: the table may be cleared.
LEMMA Silent ==
  ASSUME IInv, Cleared(rib, rib'), UNCHANGED <<config, told, heard, pcount, stopping>>,
         Input \/ UNCHANGED inputs
  PROVE  /\ TablesOK(rib', told', heard') /\ CountsOK'
         /\ Implements /\ \A q \in Peer : NoDrift(q)
         /\ rib' = rib => StaysFresh
<1>1. TablesOK(rib, told, heard) /\ CountsOK
  BY DEF IInv
<1>2. /\ TablesOK(rib', told', heard')
      /\ UsableOf(rib) \subseteq UsableOf(rib')
      /\ \A q : IsLive(rib', q) <=> IsLive(rib, q)
  BY <1>1, ClearedTables
<1>3. CountsOK'
  <2>1. inputs' \in 0..MaxInputs
    BY <1>1, DampAssumption DEF CountsOK, Input
  <2> QED
    BY <1>1, <2>1 DEF CountsOK
<1>4. Implements /\ (UsableOf(rib') = UsableOf(rib) => StaysFresh)
  BY <1>1, <1>2, OverlookImplements
<1>5. \A q \in Peer : NoDrift(q)
  BY <1>2, DriftSame
<1> QED
  BY <1>2, <1>3, <1>4, <1>5

\* The table itself is cleared so.
LEMMA ClearedSame ==
  ASSUME IInv, UNCHANGED rib
  PROVE  Cleared(rib, rib')
  BY DEF IInv, TablesOK, TableOK, Cleared

LEMMA TickKeeps ==
  ASSUME IInv, Tick
  PROVE  IInv' /\ Implements /\ StaysFresh /\ StayWaiting /\ \A q \in Peer : NoDrift(q)
<1>1. /\ penalty' = [i \in Info |-> penalty[i] \div 2]
      /\ rib' = rib
      /\ UNCHANGED <<config, told, heard, pcount, stopping, lists, damp, broken, inputs>>
  BY DEF Tick, ribVars
<1>2. /\ TablesOK(rib', told', heard') /\ CountsOK'
      /\ Implements /\ \A q \in Peer : NoDrift(q)
      /\ StaysFresh
  BY <1>1, ClearedSame, Silent
<1>3. penalty' \in [Info -> 0..Ceiling]
  <2>1. \A i \in Info : penalty[i] \in 0..Ceiling
    BY DEF IInv, DampOK
  <2>2. \A x \in 0..Ceiling : x \div 2 \in 0..Ceiling
    BY DampAssumption
  <2> QED
    BY <1>1, <2>1, <2>2
<1>4. DampOK' /\ StayWaiting
  BY <1>1, <1>3 DEF IInv, DampOK, StayWaiting
<1> QED
  BY <1>2, <1>4 DEF IInv

LEMMA ReuseTimerKeeps ==
  ASSUME IInv, ReuseTimer
  PROVE  IInv' /\ Implements /\ StayWaiting /\ \A q \in Peer : NoDrift(q)
<1> DEFINE scanned == lists[0]
           again == {i \in scanned : Owners(i) # {} /\ penalty[i] >= Reuse}
           f(n) == IF rib[n].info \notin scanned \ again THEN rib[n]
                   ELSE [rib[n] EXCEPT !.damped = FALSE,
                           !.info = IF penalty[rib[n].info] <= Reuse \div 2
                                    THEN NoInfo ELSE rib[n].info]
<1>1. /\ damp.threads > 0 /\ damp' = [damp EXCEPT !.known = TRUE]
      /\ rib' = [n \in DOMAIN rib |-> f(n)]
      /\ UNCHANGED <<config, told, heard, pcount, stopping, penalty, broken, inputs>>
  BY DEF ReuseTimer
<1>2. PICK later \in [again -> DOMAIN lists] :
         lists' = [k \in DOMAIN lists |->
                     {i \in again : later[i] = k} \cup
                     IF k = Slots - 1 THEN {} ELSE lists[k + 1]]
  BY DEF ReuseTimer
<1>3. /\ TableOK(rib) /\ DampOK /\ Slots \in Nat \ {0}
      /\ lists \in [0..(Slots - 1) -> SUBSET Info]
  BY DampAssumption DEF IInv, TablesOK, DampOK
<1>4. scanned \subseteq Info /\ again \subseteq scanned
  BY <1>3
<1>5. \A n \in DOMAIN rib : rib[n] \in InfoType
  BY <1>3, RouteTypes
<1>6. ASSUME NEW n \in DOMAIN rib
      PROVE  /\ f(n) \in InfoType
             /\ f(n).peer = rib[n].peer /\ f(n).attr = rib[n].attr
             /\ f(n).history = rib[n].history /\ f(n).selected = rib[n].selected
             /\ f(n).damped => f(n) = rib[n] /\ rib[n].info \notin scanned \ again
  <2> HIDE DEF scanned, again
  <2>1. CASE rib[n].info \notin scanned \ again
    BY <1>5, <2>1
  <2>2. CASE rib[n].info \in scanned \ again
    <3> DEFINE j == IF penalty[rib[n].info] <= Reuse \div 2 THEN NoInfo ELSE rib[n].info
               s == rib[n]
    <3>1. j \in Info \cup {NoInfo} /\ s \in InfoType
      BY <1>5 DEF InfoType
    <3>2. f(n) = [s EXCEPT !.damped = FALSE, !.info = j]
      BY <2>2
    <3> HIDE DEF j, s, f
    <3>3. /\ f(n) \in InfoType /\ f(n).peer = s.peer /\ f(n).attr = s.attr
          /\ f(n).history = s.history /\ f(n).selected = s.selected
          /\ f(n).damped = FALSE
      BY <3>1, <3>2 DEF InfoType
    <3> QED
      BY <3>3 DEF s
  <2> QED
    BY <2>1, <2>2
<1> HIDE DEF f
<1>7. DOMAIN rib' = DOMAIN rib /\ \A n \in DOMAIN rib : rib'[n] = f(n)
  BY <1>1
<1>8. Cleared(rib, rib')
  <2>1. Len(rib) \in Nat /\ DOMAIN rib = 1..Len(rib)
    BY <1>3 DEF TableOK
  <2>2. rib' \in Seq(InfoType)
    BY <1>1, <1>6, <2>1
  <2>3. \A n \in DOMAIN rib : f(n).damped => rib[n].damped
    BY <1>6
  <2> QED
    BY <1>6, <1>7, <2>2, <2>3 DEF Cleared
<1>9. /\ TablesOK(rib', told', heard') /\ CountsOK'
      /\ Implements /\ \A q \in Peer : NoDrift(q)
  BY <1>1, <1>8, Silent
<1>10. /\ lists' \in [0..(Slots - 1) -> SUBSET Info]
       /\ \A k \in 0..(Slots - 1) :
            lists'[k] = {i \in again : later[i] = k} \cup
                        IF k = Slots - 1 THEN {} ELSE lists[k + 1]
  <2> DEFINE g(k) == {i \in again : later[i] = k} \cup
                     IF k = Slots - 1 THEN {} ELSE lists[k + 1]
  <2>1. ASSUME NEW k \in 0..(Slots - 1) PROVE g(k) \in SUBSET Info
    <3>1. k # Slots - 1 => k + 1 \in 0..(Slots - 1)
      BY <1>3
    <3> QED
      BY <1>3, <1>4, <3>1
  <2>2. lists' = [k \in 0..(Slots - 1) |-> g(k)]
    BY <1>2, <1>3
  <2> HIDE DEF g
  <2>3. lists' \in [0..(Slots - 1) -> SUBSET Info] /\ \A k \in 0..(Slots - 1) : lists'[k] = g(k)
    BY <2>1, <2>2
  <2> QED
    BY <2>3 DEF g
<1>11. damp \in DampType /\ ThreadsOK(damp)
  BY <1>3 DEF DampOK, ThreadsOK
<1>12. /\ damp' \in DampType /\ damp'.known /\ damp'.first = damp.first
       /\ damp'.threads = damp.threads /\ damp'.enabled = damp.enabled
       /\ damp'.configured = damp.configured
  BY <1>1, <1>11 DEF DampType
<1>13. ThreadsOK(damp')
  <2>1. damp.threads \in 0..2
    BY <1>11 DEF DampType
  <2> QED
    BY <1>1, <1>11, <1>12, <2>1 DEF ThreadsOK
<1>14. ASSUME Waiting(rib, lists, damp), NEW n \in DOMAIN rib', rib'[n].damped
       PROVE  /\ damp'.threads > 0 /\ rib'[n].info # NoInfo
              /\ \E k \in DOMAIN lists' : rib'[n].info \in lists'[k]
  <2> DEFINE i == rib[n].info
  <2>1. n \in DOMAIN rib /\ rib'[n] = rib[n] /\ i \notin scanned \ again
    BY <1>6, <1>7, <1>14
  <2>2. damp.threads > 0 /\ i # NoInfo /\ \E k \in DOMAIN lists : i \in lists[k]
    BY <1>14, <2>1 DEF Waiting, WaitsOn
  <2>3. PICK k \in DOMAIN lists : i \in lists[k]
    BY <2>2
  <2> HIDE DEF i
  <2>4. DOMAIN lists = 0..(Slots - 1) /\ DOMAIN lists' = 0..(Slots - 1)
    BY <1>3, <1>10
  <2>5. \E j \in DOMAIN lists' : i \in lists'[j]
    <3>1. CASE k = 0
      <4>1. i \in again
        BY <2>1, <2>3, <3>1
      <4>2. later[i] \in 0..(Slots - 1)
        BY <2>4, <4>1
      <4> QED
        BY <1>10, <2>4, <4>1, <4>2
    <3>2. CASE k # 0
      <4>1. k - 1 \in 0..(Slots - 1) /\ k - 1 # Slots - 1 /\ (k - 1) + 1 = k
        BY <1>3, <2>3, <2>4, <3>2
      <4>2. lists[k] \subseteq lists'[k - 1]
        BY <1>10, <4>1
      <4> QED
        BY <2>3, <2>4, <4>1, <4>2
    <3> QED
      BY <3>1, <3>2
  <2> QED
    BY <1>12, <2>1, <2>2, <2>5 DEF i
<1>15. Waiting(rib, lists, damp) => Waiting(rib', lists', damp')
  BY <1>14 DEF Waiting, WaitsOn
<1>16. Idle(lists', damp')
  <2>1. ASSUME ~damp.configured, NEW k \in 0..(Slots - 1) PROVE lists'[k] = {}
    <3>1. \A j \in 0..(Slots - 1) : lists[j] = {}
      BY <1>3, <2>1 DEF DampOK, Idle
    <3>2. again = {}
      BY <1>3, <3>1
    <3>3. k # Slots - 1 => lists[k + 1] = {}
      BY <1>3, <3>1
    <3> QED
      BY <1>10, <3>2, <3>3
  <2>2. ~damp.configured => ~damp.enabled
    BY <1>3 DEF DampOK, Idle
  <2> QED
    BY <1>10, <1>12, <2>1, <2>2 DEF Idle
<1>17. DampOK'
  <2>1. penalty \in [Info -> 0..Ceiling] /\ broken \in BOOLEAN
    BY <1>3 DEF DampOK
  <2> QED
    BY <1>1, <1>10, <1>13, <1>16, <2>1 DEF DampOK
<1> QED
  BY <1>9, <1>15, <1>17 DEF IInv, StayWaiting

LEMMA NoListsType ==
  ASSUME DampOK, lists' = NoLists
  PROVE  /\ lists' \in [0..(Slots - 1) -> SUBSET Info]
         /\ \A k \in DOMAIN lists' : lists'[k] = {}
  BY DEF DampOK, NoLists

\* Cancelling the thread that is known leaves one at most.
LEMMA CancelledIs ==
  ASSUME ThreadsOK(damp)
  PROVE  /\ Cancelled \in 0..2
         /\ IF damp.first THEN Cancelled = 0 ELSE Cancelled <= 1
  BY DEF ThreadsOK, DampType, Cancelled

LEMMA ConfigureKeeps ==
  ASSUME IInv, Configure
  PROVE  /\ IInv' /\ Implements /\ StaysFresh /\ \A q \in Peer : NoDrift(q)
         /\ StayWaiting \/ damp.configured
<1>1. /\ Input /\ lists' = NoLists
      /\ damp' = [damp EXCEPT !.enabled = TRUE, !.configured = TRUE,
                     !.threads = IF damp.configured THEN Cancelled ELSE @,
                     !.known = IF damp.configured THEN FALSE ELSE @]
      /\ UNCHANGED <<config, rib, told, heard, pcount, stopping, penalty, broken>>
  BY DEF Configure, ribVars
<1>2. /\ TablesOK(rib', told', heard') /\ CountsOK'
      /\ Implements /\ \A q \in Peer : NoDrift(q)
      /\ StaysFresh
  BY <1>1, ClearedSame, Silent
<1>3. DampOK
  BY DEF IInv
<1>4. lists' \in [0..(Slots - 1) -> SUBSET Info]
  BY <1>1, <1>3, NoListsType
<1> DEFINE t == IF damp.configured THEN Cancelled ELSE damp.threads
           k == IF damp.configured THEN FALSE ELSE damp.known
<1>5. damp \in DampType /\ ThreadsOK(damp)
  BY <1>3 DEF DampOK, ThreadsOK
<1>6. t \in 0..2 /\ k \in BOOLEAN
  BY <1>5, CancelledIs DEF DampType
<1>7. damp' = [damp EXCEPT !.enabled = TRUE, !.configured = TRUE, !.threads = t, !.known = k]
  BY <1>1
<1>8. ~damp.configured => t = damp.threads /\ k = damp.known
  OBVIOUS
<1>9. damp.configured => ~k /\ IF damp.first THEN t = 0 ELSE t <= 1
  BY <1>5, CancelledIs
<1> HIDE DEF t, k
<1>10. /\ damp' \in DampType /\ damp'.configured /\ damp'.threads = t /\ damp'.known = k
       /\ damp'.first = damp.first
  BY <1>5, <1>6, <1>7 DEF DampType
<1>11. ThreadsOK(damp')
  <2>1. CASE damp.configured
    BY <1>9, <1>10, <2>1 DEF ThreadsOK
  <2>2. CASE ~damp.configured
    BY <1>5, <1>8, <1>10, <2>2 DEF ThreadsOK
  <2> QED
    BY <2>1, <2>2
<1>12. ASSUME ~damp.configured PROVE StayWaiting
  <2>1. \A j \in DOMAIN lists : lists[j] = {}
    BY <1>3, <1>12 DEF DampOK, Idle
  <2>2. Waiting(rib, lists, damp) => \A n \in DOMAIN rib : ~rib[n].damped
    BY <2>1 DEF Waiting, WaitsOn
  <2>3. rib' = rib
    BY <1>1
  <2> QED
    BY <2>2, <2>3 DEF StayWaiting, Waiting, WaitsOn
<1>13. DampOK'
  <2>1. penalty' \in [Info -> 0..Ceiling] /\ broken' \in BOOLEAN
    BY <1>1, <1>3 DEF DampOK
  <2>2. Idle(lists', damp')
    BY <1>10 DEF Idle
  <2> QED
    BY <1>4, <1>11, <2>1, <2>2 DEF DampOK
<1> QED
  BY <1>2, <1>12, <1>13 DEF IInv

LEMMA ResumeKeeps ==
  ASSUME IInv, Resume
  PROVE  IInv' /\ Implements /\ StaysFresh /\ StayWaiting /\ \A q \in Peer : NoDrift(q)
<1>1. /\ Input /\ damp.configured /\ ~damp.known
      /\ damp' = [damp EXCEPT !.threads = @ + 1, !.known = TRUE]
      /\ UNCHANGED <<config, rib, told, heard, pcount, stopping, penalty, lists, broken>>
  BY DEF Resume, ribVars
<1>2. /\ TablesOK(rib', told', heard') /\ CountsOK'
      /\ Implements /\ \A q \in Peer : NoDrift(q)
      /\ StaysFresh
  BY <1>1, ClearedSame, Silent
<1>3. DampOK /\ damp \in DampType /\ ThreadsOK(damp)
  BY DEF IInv, DampOK, ThreadsOK
<1>4. damp.threads \in 0..1
  BY <1>1, <1>3 DEF ThreadsOK, DampType
<1>5. damp.threads + 1 \in 0..2
  BY <1>4
<1>6. /\ damp' \in DampType /\ damp'.configured /\ damp'.known
      /\ damp'.threads = damp.threads + 1 /\ damp'.first = damp.first
  BY <1>1, <1>3, <1>5 DEF DampType
<1>7. ThreadsOK(damp') /\ Idle(lists', damp')
  BY <1>1, <1>3, <1>4, <1>6 DEF ThreadsOK, Idle
<1>8. StayWaiting
  <2>1. damp'.threads > 0 /\ rib' = rib /\ lists' = lists
    BY <1>1, <1>4, <1>6
  <2> QED
    BY <2>1 DEF StayWaiting, Waiting, WaitsOn
<1>9. DampOK'
  BY <1>1, <1>3, <1>7 DEF DampOK
<1> QED
  BY <1>2, <1>8, <1>9 DEF IInv

LEMMA DisableKeeps ==
  ASSUME IInv, Disable
  PROVE  IInv' /\ Implements /\ StayWaiting /\ \A q \in Peer : NoDrift(q)
<1> DEFINE f(n) == IF rib[n].info = NoInfo \/ ~Listed(rib[n].info) THEN rib[n]
                   ELSE [rib[n] EXCEPT !.damped = FALSE, !.info = NoInfo]
<1>1. /\ Input /\ lists' = NoLists
      /\ damp' = [damp EXCEPT !.enabled = FALSE, !.configured = FALSE,
                     !.threads = Cancelled, !.known = FALSE]
      /\ rib' = [n \in DOMAIN rib |-> f(n)]
      /\ UNCHANGED <<config, told, heard, pcount, stopping, penalty, broken>>
  BY DEF Disable
<1>2. TableOK(rib) /\ DampOK
  BY DEF IInv, TablesOK
<1>3. ASSUME NEW n \in DOMAIN rib
      PROVE  /\ f(n) \in InfoType
             /\ f(n).peer = rib[n].peer /\ f(n).attr = rib[n].attr
             /\ f(n).history = rib[n].history /\ f(n).selected = rib[n].selected
             /\ f(n).damped => rib[n].damped
             /\ f(n).damped => rib[n].info = NoInfo \/ ~Listed(rib[n].info)
  <2> DEFINE s == rib[n]
  <2>1. s \in InfoType
    BY <1>2, RouteTypes
  <2>2. \/ f(n) = s /\ (s.info = NoInfo \/ ~Listed(s.info))
        \/ f(n) = [s EXCEPT !.damped = FALSE, !.info = NoInfo]
    OBVIOUS
  <2> HIDE DEF f, s
  <2>3. /\ f(n) \in InfoType
        /\ f(n).peer = s.peer /\ f(n).attr = s.attr
        /\ f(n).history = s.history /\ f(n).selected = s.selected
        /\ f(n).damped => s.damped /\ (s.info = NoInfo \/ ~Listed(s.info))
    BY <2>1, <2>2 DEF InfoType
  <2> QED
    BY <2>3 DEF s
<1> HIDE DEF f
<1>4. Cleared(rib, rib')
  <2>1. Len(rib) \in Nat /\ DOMAIN rib = 1..Len(rib)
    BY <1>2 DEF TableOK
  <2>2. rib' \in Seq(InfoType)
    BY <1>1, <1>3, <2>1
  <2> QED
    BY <1>1, <1>3, <2>2 DEF Cleared
<1>5. /\ TablesOK(rib', told', heard') /\ CountsOK'
      /\ Implements /\ \A q \in Peer : NoDrift(q)
  BY <1>1, <1>4, Silent
<1>6. damp \in DampType /\ ThreadsOK(damp)
  BY <1>2 DEF DampOK, ThreadsOK
<1>7. Cancelled \in 0..2 /\ IF damp.first THEN Cancelled = 0 ELSE Cancelled <= 1
  BY <1>6, CancelledIs
<1>8. /\ damp' \in DampType /\ ~damp'.known /\ damp'.threads = Cancelled
      /\ damp'.first = damp.first /\ ~damp'.enabled
  BY <1>1, <1>6, <1>7 DEF DampType
<1>9. ThreadsOK(damp')
  BY <1>7, <1>8 DEF ThreadsOK
<1>10. DampOK'
  <2>1. /\ lists' \in [0..(Slots - 1) -> SUBSET Info]
        /\ \A k \in DOMAIN lists' : lists'[k] = {}
        /\ penalty' \in [Info -> 0..Ceiling] /\ broken' \in BOOLEAN
    BY <1>1, <1>2, NoListsType DEF DampOK
  <2>2. Idle(lists', damp')
    BY <1>8, <2>1 DEF Idle
  <2> QED
    BY <1>9, <2>1, <2>2 DEF DampOK
\* those that wait are on a list, so none of them is suppressed any more
<1>11. StayWaiting
  <2>1. ASSUME Waiting(rib, lists, damp), NEW n \in DOMAIN rib', rib'[n].damped
        PROVE  FALSE
    <3>1. n \in DOMAIN rib /\ rib'[n] = f(n)
      BY <1>1, <2>1
    <3>2. rib[n].damped /\ (rib[n].info = NoInfo \/ ~Listed(rib[n].info))
      BY <1>3, <2>1, <3>1
    <3> QED
      BY <2>1, <3>1, <3>2 DEF Waiting, WaitsOn, Listed
  <2> QED
    BY <2>1 DEF StayWaiting, Waiting, WaitsOn
<1> QED
  BY <1>5, <1>10, <1>11 DEF IInv

-----------------------------------------------------------------------------
(* The theorems.                                                           *)

LEMMA InitKeeps ==
  ASSUME Init
  PROVE  IInv /\ Promise!Init
<1>1. rib = <<>> /\ told = NoRoute /\ heard = [p \in Peer |-> NoRoute]
  BY DEF Init
<1>2. rib \in Seq(InfoType) /\ DOMAIN rib = {}
  BY <1>1
<1>3. TablesOK(rib, told, heard)
  BY <1>1, <1>2 DEF TablesOK, TableOK, Shows, HeardIn, IsLive
<1>4. CountsOK
  <2>1. 0 \in 0..(CountModulus - 1) /\ 0 \in 0..MaxInputs
    BY DampAssumption
  <2> QED
    BY <2>1 DEF Init, CountsOK
<1>5. DampOK
  <2>1. /\ penalty = [i \in Info |-> 0] /\ lists = [k \in 0..(Slots - 1) |-> {}]
        /\ 0 \in 0..Ceiling
    BY DampAssumption DEF Init
  <2>2. damp \in DampType /\ damp.first /\ ~damp.known /\ damp.threads = 0
        /\ ~damp.configured /\ ~damp.enabled
    BY DEF Init, DampType
  <2>3. ThreadsOK(damp) /\ Idle(lists, damp)
    BY <2>1, <2>2 DEF ThreadsOK, Idle
  <2> QED
    BY <2>1, <2>3 DEF Init, DampOK
<1>6. Promise!Init
  <2>1. Usable = {}
    BY <1>2 DEF Usable, Candidates
  <2>2. RouteAt(rib, OldSelect(rib)) = NoRoute
    BY <1>1, <1>3, ShowsOldSelect DEF TablesOK
  <2> QED
    BY <1>1, <2>1, <2>2 DEF Init, Promise!Init
<1> QED
  BY <1>3, <1>4, <1>5, <1>6 DEF IInv

\* What every step keeps and does.
LEMMA NextKeeps ==
  ASSUME IInv, Next
  PROVE  /\ IInv' /\ Implements
         /\ StaysFresh \/ ReuseTimer \/ Disable \/ stopping' # stopping
         /\ \/ StayWaiting
            \/ Configure /\ damp.configured
            \/ damp.threads = 0 /\ ~damp.first /\ \E p \in Peer : Withdraw(p)
         /\ \A q \in Peer : NoDrift(q) \/ SessionDown(q) \/ (Deny(q) /\ Find(q) # 0 /\ Live(q) = {})
<1>1. ASSUME NEW p \in Peer, NEW a \in Offers[p], Update(p, a)
      PROVE  /\ IInv' /\ Implements /\ StayWaiting
             /\ StaysFresh \/ stopping' # stopping
             /\ \A q \in Peer : NoDrift(q)
  BY <1>1, UpdateKeeps
<1>2. ASSUME NEW p \in Peer, Deny(p)
      PROVE  /\ IInv' /\ Implements /\ StaysFresh /\ StayWaiting
             /\ \A q \in Peer : NoDrift(q) \/ (Deny(q) /\ Find(q) # 0 /\ Live(q) = {})
  BY <1>2, DenyKeeps
<1>3. ASSUME NEW p \in Peer, Withdraw(p)
      PROVE  /\ IInv' /\ Implements /\ StaysFresh /\ \A q \in Peer : NoDrift(q)
             /\ StayWaiting \/ (damp.threads = 0 /\ ~damp.first)
  BY <1>3, WithdrawKeeps
<1>4. ASSUME NEW p \in Peer, SessionDown(p)
      PROVE  /\ IInv' /\ Implements /\ StaysFresh /\ StayWaiting
             /\ \A q \in Peer : NoDrift(q) \/ SessionDown(q)
  BY <1>4, SessionDownKeeps
<1>5. CASE Tick
  BY <1>5, TickKeeps
<1>6. CASE ReuseTimer
  BY <1>6, ReuseTimerKeeps
<1>7. CASE Configure
  BY <1>7, ConfigureKeeps
<1>8. CASE Resume
  BY <1>8, ResumeKeeps
<1>9. CASE Disable
  BY <1>9, DisableKeeps
<1>10. CASE \E p \in Peer : \/ \E a \in Offers[p] : Update(p, a)
                            \/ Deny(p) \/ Withdraw(p) \/ SessionDown(p)
  BY <1>1, <1>2, <1>3, <1>4, <1>10
<1> QED
  BY <1>5, <1>6, <1>7, <1>8, <1>9, <1>10 DEF Next

\* Nothing changes when nothing happens.
LEMMA StutterKeeps ==
  ASSUME IInv, UNCHANGED vars
  PROVE  /\ IInv' /\ Implements /\ StaysFresh /\ StayWaiting
         /\ \A q \in Peer : NoDrift(q)
<1>1. /\ config' = config /\ rib' = rib /\ told' = told /\ heard' = heard
      /\ pcount' = pcount /\ stopping' = stopping /\ penalty' = penalty
      /\ lists' = lists /\ damp' = damp /\ broken' = broken
      /\ inputs' = inputs
  BY DEF vars, ribVars, dampVars
<1>2. /\ TablesOK(rib', told', heard') /\ CountsOK'
      /\ Implements /\ \A q \in Peer : NoDrift(q)
      /\ StaysFresh
  BY <1>1, ClearedSame, Silent
<1>3. DampOK' /\ StayWaiting
  BY <1>1 DEF IInv, DampOK, StayWaiting
<1> QED
  BY <1>2, <1>3 DEF IInv

\* The invariant holds in every behaviour.
THEOREM Invariance == Spec => []IInv
<1>1. Init => IInv
  BY InitKeeps
<1>2. IInv /\ [Next]_vars => IInv'
  BY NextKeeps, StutterKeeps
<1> QED
  BY <1>1, <1>2, PTL DEF Spec

\* The variables keep their types; what was announced is a route of a peer.
THEOREM TypeCorrect == Spec => []TypeOK
<1>1. IInv => TypeOK
  <2> SUFFICES ASSUME IInv PROVE TypeOK
    OBVIOUS
  <2>1. TableOK(rib) /\ Shows(rib, told) /\ CountsOK /\ DampOK
    BY DEF IInv, TablesOK
  <2>2. told \in [peer : Peer, attr : Attr] \cup {NoRoute}
    BY <2>1, NoRouteIsNone DEF Shows
  <2> QED
    BY <2>1, <2>2 DEF TableOK, CountsOK, DampOK, ThreadsOK, TypeOK
<1> QED
  BY <1>1, Invariance, PTL

\* bgp_update and bgp_withdraw: the table has a live route of a peer exactly
\* when the last the peer said was an UPDATE that was accepted, and that one.
THEOREM WhatWasHeard == Spec => []RibIsHeard
<1>1. IInv => RibIsHeard
  BY RibIsHeardIn DEF IInv, TablesOK
<1> QED
  BY <1>1, Invariance, PTL

\* Stranded is the contrary of what the steps keep.
LEMMA StrandedIs ==
  /\ Stranded <=> ~Waiting(rib, lists, damp)
  /\ Stranded' <=> ~Waiting(rib', lists', damp')
  BY DEF Stranded, Waiting, WaitsOn, Listed

\* bgp_reuse_list_insert, bgp_reuse_timer and the commands: a suppressed route
\* gets off its reuse list, or loses the thread, only when dampening is configured
\* anew, and comes without one only by a withdrawal after that.
THEOREM SuppressedIsReused == Spec => StrandedOnlyByCommand
<1>1. IInv /\ [Next]_vars =>
        [~Stranded /\ Stranded' =>
           \/ Configure /\ damp.configured
           \/ damp.threads = 0 /\ ~damp.first /\ \E p \in Peer : Withdraw(p)]_vars
  BY NextKeeps, StrandedIs DEF StayWaiting
<1> QED
  BY <1>1, Invariance, PTL DEF Spec, StrandedOnlyByCommand

\* conf->pcount drifts from the number of live routes only by a denial after a
\* withdrawal that was kept as history; a session that ends resets it.
THEOREM CounterDrifts == Spec => CountDriftsByDenial
<1>1. IInv /\ [Next]_vars =>
        [\A p \in Peer : Drift(p)' # Drift(p) =>
           SessionDown(p) \/ (Deny(p) /\ Find(p) # 0 /\ Live(p) = {})]_vars
  BY NextKeeps DEF NoDrift
<1> QED
  BY <1>1, Invariance, PTL DEF Spec, CountDriftsByDenial

\* What is announced stops being a best route only by the steps that make a
\* route usable and do not call bgp_process.
THEOREM StaleByReuse == Spec => StaleOnlyByReuse
<1>1. IInv /\ [Next]_vars =>
        [~Stale /\ Stale' => ReuseTimer \/ Disable \/ stopping' # stopping]_vars
  BY NextKeeps DEF StaysFresh
<1> QED
  BY <1>1, Invariance, PTL DEF Spec, StaleOnlyByReuse

\* The decision process implements LocRib: whatever the peers, the attributes,
\* the options and the order in which routes came, bgp_process announces one of
\* the routes that the set of usable routes allows.
THEOREM KeepsThePromise == Spec => IsLocRib
<1>1. Init => Promise!Init
  BY InitKeeps
<1>2. IInv /\ [Next]_vars =>
        [Promise!Next]_<<config, Usable, RouteAt(rib, OldSelect(rib)), told>>
  BY NextKeeps, StutterKeeps DEF Implements
<1> QED
  BY <1>1, <1>2, Invariance, PTL DEF Spec, IsLocRib, Promise!Spec
=============================================================================
