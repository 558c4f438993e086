--------------------------- MODULE BgpSched_proofs ---------------------------
(***************************************************************************)
(* Proofs about BgpSched, for any connections, timers, sizes of messages   *)
(* and bounds: first what picking elements out of a sequence and counting  *)
(* bytes amount to, then the helpers on struct thread_master, then one     *)
(* lemma for each action, for the inductive invariant and for the          *)
(* refinement of Channel.  The theorems follow at the end.                 *)
(***************************************************************************)
EXTENDS BgpSched, SequenceTheorems, FiniteSetTheorems, WellFoundedInduction, TLAPS

-----------------------------------------------------------------------------
(* Elements of a sequence.                                                 *)

\* A set of numbers has a least one.
LEMMA Least ==
  ASSUME NEW S \in SUBSET Nat, S # {}
  PROVE  \E m \in S : \A n \in S : m <= n
<1>1. IsWellFoundedOn({ss \in Nat \X Nat : ss[1] < ss[2]}, Nat)
  BY NatLessThanWellFounded DEF OpToRel
<1>2. PICK m \in S : \A n \in S : ~(<<n, m>> \in {ss \in Nat \X Nat : ss[1] < ss[2]})
  BY <1>1, WFMin
<1>3. \A n \in S : ~(n < m)
  BY <1>2
<1> QED
  BY <1>3

\* what has been picked out of seq after the n-th place, from what there was before
PickStep(seq, N, n, b) == IF n \in N THEN Append(b, seq[n]) ELSE b

\* g has what is picked out of seq up to each place, the n-th the last.
IsPick(g, seq, N, n) ==
  g = [k \in 0..n |-> IF k = 0 THEN << >> ELSE PickStep(seq, N, k, g[k - 1])]

\* There is such a function, by induction on n.
LEMMA PickExists ==
  ASSUME NEW seq, NEW N, NEW n \in Nat
  PROVE  \E g : IsPick(g, seq, N, n)
<1> DEFINE Not == {k \in Nat : ~\E g : IsPick(g, seq, N, k)}
<1>1. ASSUME Not # {} PROVE FALSE
  <2>1. Not \in SUBSET Nat
    OBVIOUS
  <2>2. PICK m \in Not : \A k \in Not : m <= k
    <3> HIDE DEF Not
    <3> QED
      BY <1>1, <2>1, Least
  <2>3. CASE m = 0
    <3> DEFINE g == [k \in 0..0 |-> << >>]
    <3>1. IsPick(g, seq, N, 0)
      BY DEF IsPick
    <3> QED
      BY <2>2, <2>3, <3>1
  <2>4. CASE m # 0
    <3>1. m - 1 \in Nat /\ m - 1 \notin Not
      BY <2>2, <2>4
    <3>2. PICK g : IsPick(g, seq, N, m - 1)
      BY <3>1
    <3> DEFINE h == [k \in 0..m |-> IF k = m THEN PickStep(seq, N, m, g[m - 1]) ELSE g[k]]
    <3>3. \A k \in 0..(m - 1) :
             g[k] = IF k = 0 THEN << >> ELSE PickStep(seq, N, k, g[k - 1])
      BY <3>2 DEF IsPick
    <3>4. \A k \in 0..m : h[k] = IF k = 0 THEN << >> ELSE PickStep(seq, N, k, h[k - 1])
      <4> TAKE k \in 0..m
      <4>1. CASE k = m
        BY <2>2, <2>4, <4>1
      <4>2. CASE k # m
        <5>1. k \in 0..(m - 1) /\ h[k] = g[k] /\ (k # 0 => h[k - 1] = g[k - 1])
          BY <2>2, <2>4, <4>2
        <5> HIDE DEF h
        <5> QED
          BY <3>3, <5>1
      <4> QED
        BY <4>1, <4>2
    <3>5. h = [k \in 0..m |-> h[k]]
      OBVIOUS
    <3> HIDE DEF h
    <3>6. IsPick(h, seq, N, m)
      BY <3>4, <3>5 DEF IsPick
    <3> QED
      BY <2>2, <3>6
  <2> QED
    BY <2>3, <2>4
<1> QED
  BY <1>1

\* Those is its last value.
LEMMA ThoseIsPick ==
  ASSUME NEW seq, NEW N, Len(seq) \in Nat
  PROVE  \E g : /\ g[0] = << >>
                /\ \A k \in 1..Len(seq) : g[k] = PickStep(seq, N, k, g[k - 1])
                /\ Those(seq, N) = g[Len(seq)]
<1> DEFINE kept[n \in 0..Len(seq)] ==
             IF n = 0 THEN << >>
             ELSE IF n \in N THEN Append(kept[n - 1], seq[n]) ELSE kept[n - 1]
<1>0. \E g : IsPick(g, seq, N, Len(seq))
  BY PickExists
<1>1. \E g : g = [n \in 0..Len(seq) |->
                    IF n = 0 THEN << >>
                    ELSE IF n \in N THEN Append(g[n - 1], seq[n]) ELSE g[n - 1]]
  BY <1>0 DEF IsPick, PickStep
<1>2. kept = [n \in 0..Len(seq) |->
                IF n = 0 THEN << >>
                ELSE IF n \in N THEN Append(kept[n - 1], seq[n]) ELSE kept[n - 1]]
  BY <1>1
<1>3. Those(seq, N) = kept[Len(seq)]
  BY DEF Those
<1> HIDE DEF kept
<1>4. kept[0] = << >>
  BY <1>2
<1>5. ASSUME NEW k \in 1..Len(seq) PROVE kept[k] = PickStep(seq, N, k, kept[k - 1])
  <2>1. k \in 0..Len(seq) /\ k # 0
    OBVIOUS
  <2> QED
    BY <1>2, <2>1 DEF PickStep
<1> QED
  BY <1>3, <1>4, <1>5

\* A set of numbers without a first one is empty.
LEMMA NoFirst ==
  ASSUME NEW B \in SUBSET Nat, 0 \notin B, \A k \in B : k - 1 \in B
  PROVE  B = {}
<1>1. ASSUME B # {} PROVE FALSE
  <2>1. PICK m \in B : \A n \in B : m <= n
    BY <1>1, Least
  <2>2. m - 1 \in B /\ m \in Nat
    BY <2>1
  <2> QED
    BY <2>1, <2>2
<1> QED
  BY <1>1

\* What is picked out are sequences of elements of seq.
LEMMA PickTyped ==
  ASSUME NEW S, NEW seq, NEW N, NEW L \in Nat, NEW g, g[0] = << >>,
         \A k \in 1..L : g[k] = PickStep(seq, N, k, g[k - 1]),
         \A k \in 1..L : seq[k] \in S
  PROVE  \A k \in 0..L : g[k] \in Seq(S)
<1> DEFINE P(k) == g[k] \in Seq(S)
           B == {k \in 0..L : ~P(k)}
<1>0. << >> \in Seq(S)
  BY EmptySeq
<1>1. P(0)
  BY <1>0
<1>2. ASSUME NEW k \in 1..L, P(k - 1) PROVE P(k)
  <2> DEFINE b == g[k - 1]
             e == seq[k]
  <2>1. g[k] = b \/ g[k] = Append(b, e)
    BY DEF PickStep
  <2>2. b \in Seq(S) /\ e \in S
    BY <1>2
  <2>3. Append(b, e) \in Seq(S)
    <3> HIDE DEF b, e
    <3> QED
      BY <2>2, AppendProperties
  <2> QED
    BY <2>1, <2>2, <2>3
<1> HIDE DEF P
<1>3. B \in SUBSET Nat /\ 0 \notin B
  BY <1>1
<1>4. \A k \in B : k \in 1..L
  BY <1>3
<1>5. \A k \in B : k - 1 \in B
  BY <1>2, <1>4
<1>6. B = {}
  <2> HIDE DEF B
  <2> QED
    BY <1>3, <1>5, NoFirst
<1>7. \A k \in 0..L : P(k)
  BY <1>6
<1> QED
  BY <1>7 DEF P

\* the last value of one is the result
LEMMA ThoseTyped ==
  ASSUME NEW S, NEW seq \in Seq(S), NEW N
  PROVE  Those(seq, N) \in Seq(S)
<1>1. Len(seq) \in Nat /\ \A k \in 1..Len(seq) : seq[k] \in S
  OBVIOUS
<1>2. PICK g : /\ g[0] = << >>
               /\ \A k \in 1..Len(seq) : g[k] = PickStep(seq, N, k, g[k - 1])
               /\ Those(seq, N) = g[Len(seq)]
  BY <1>1, ThoseIsPick
<1>3. \A k \in 0..Len(seq) : g[k] \in Seq(S)
  BY <1>1, <1>2, PickTyped
<1> QED
  BY <1>1, <1>2, <1>3

\* Concatenation, for the steps that need only what follows about it.
Cat(s, t) == s \o t

LEMMA CatFacts ==
  ASSUME NEW S, NEW s \in Seq(S), NEW t \in Seq(S)
  PROVE  /\ Cat(s, t) \in Seq(S)
         /\ Len(Cat(s, t)) = Len(s) + Len(t)
         /\ Len(s) \in Nat /\ Len(t) \in Nat
         /\ \A i \in 1..Len(s) : Cat(s, t)[i] = s[i]
         /\ \A i \in 1..Len(t) : Cat(s, t)[Len(s) + i] = t[i]
  BY ConcatProperties DEF Cat

\* Appending to the second of two sequences.
LEMMA AppendCat ==
  ASSUME NEW S, NEW s \in Seq(S), NEW t \in Seq(S), NEW e \in S
  PROVE  Append(Cat(s, t), e) = Cat(s, Append(t, e))
<1>1. s \o t \in Seq(S) /\ <<e>> \in Seq(S)
  BY ConcatProperties
<1>2. Append(s \o t, e) = (s \o t) \o <<e>> /\ Append(t, e) = t \o <<e>>
  BY <1>1, AppendIsConcat
<1>3. (s \o t) \o <<e>> = s \o (t \o <<e>>)
  BY <1>1, ConcatAssociative
<1> QED
  BY <1>2, <1>3 DEF Cat

\* The places N of K + L are N1 of the first K and N2 of the other L.
Splits(N, N1, N2, K, L) ==
  /\ \A n \in 1..K : n \in N <=> n \in N1
  /\ \A n \in 1..L : K + n \in N <=> n \in N2

\* Elements of two sequences, one after the other.
LEMMA ThoseConcat ==
  ASSUME NEW S, NEW s \in Seq(S), NEW t \in Seq(S), NEW N, NEW N1, NEW N2,
         Splits(N, N1, N2, Len(s), Len(t))
  PROVE  Those(s \o t, N) = Those(s, N1) \o Those(t, N2)
<1> DEFINE u == s \o t
           K == Len(s)
           L == Len(t)
<1>1. /\ K \in Nat /\ L \in Nat /\ Len(u) = K + L
      /\ \A k \in 1..K : s[k] \in S /\ u[k] = s[k]
      /\ \A k \in 1..L : t[k] \in S /\ u[K + k] = t[k]
  BY ConcatProperties
<1>0. Len(u) \in Nat
  BY <1>1
<1> HIDE DEF u, K, L
<1>2. PICK g : /\ g[0] = << >>
               /\ \A k \in 1..K : g[k] = PickStep(s, N1, k, g[k - 1])
               /\ Those(s, N1) = g[K]
  BY <1>1, ThoseIsPick DEF K
<1>3. PICK h : /\ h[0] = << >>
               /\ \A k \in 1..L : h[k] = PickStep(t, N2, k, h[k - 1])
               /\ Those(t, N2) = h[L]
  BY <1>1, ThoseIsPick DEF L
<1>4. PICK f : /\ f[0] = << >>
               /\ \A k \in 1..(K + L) : f[k] = PickStep(u, N, k, f[k - 1])
               /\ Those(u, N) = f[K + L]
  <2>1. Len(u) = K + L
    BY <1>1
  <2>2. \E f : /\ f[0] = << >>
               /\ \A k \in 1..Len(u) : f[k] = PickStep(u, N, k, f[k - 1])
               /\ Those(u, N) = f[Len(u)]
    BY <1>0, ThoseIsPick
  <2> QED
    BY <2>1, <2>2
<1>5. (\A k \in 0..K : g[k] \in Seq(S)) /\ \A k \in 0..L : h[k] \in Seq(S)
  <2>0. K \in Nat /\ L \in Nat /\ (\A k \in 1..K : s[k] \in S) /\ \A k \in 1..L : t[k] \in S
    BY <1>1
  <2>1. \A k \in 0..K : g[k] \in Seq(S)
    BY <2>0, <1>2, PickTyped
  <2>2. \A k \in 0..L : h[k] \in Seq(S)
    BY <2>0, <1>3, PickTyped
  <2> QED
    BY <2>1, <2>2
<1>6. \A n \in 1..K : n \in N <=> n \in N1
  BY DEF K, Splits
<1>7. \A n \in 1..L : K + n \in N <=> n \in N2
  BY DEF K, L, Splits
<1>8. \A k \in 0..K : f[k] = g[k]
  <2>1. f[0] = g[0]
    BY <1>2, <1>4
  <2>2. ASSUME NEW k \in 1..K, f[k - 1] = g[k - 1] PROVE f[k] = g[k]
    <3>1. k \in 1..(K + L)
      BY <1>1
    <3>2. PickStep(u, N, k, f[k - 1]) = PickStep(s, N1, k, f[k - 1])
      BY <1>1, <1>6 DEF PickStep
    <3> QED
      BY <1>2, <1>4, <2>2, <3>1, <3>2
  <2> DEFINE B == {k \in 0..K : f[k] # g[k]}
  <2>3. B \in SUBSET Nat /\ 0 \notin B
    BY <1>1, <2>1
  <2>4. \A k \in B : k \in 1..K
    BY <1>1, <2>3
  <2>5. \A k \in B : k - 1 \in B
    BY <1>1, <2>2, <2>4
  <2>6. B = {}
    <3> HIDE DEF B
    <3> QED
      BY <2>3, <2>5, NoFirst
  <2> QED
    BY <2>6
<1>9. \A k \in 0..L : f[K + k] = Cat(g[K], h[k])
  <2>1. f[K + 0] = Cat(g[K], h[0])
    <3>1. Cat(g[K], << >>) = g[K]
      BY <1>1, <1>5, ConcatEmptySeq DEF Cat
    <3>2. K + 0 = K /\ K \in 0..K
      BY <1>1
    <3>3. f[K + 0] = g[K]
      BY <1>8, <3>2
    <3> QED
      BY <1>3, <3>1, <3>3
  <2>2. ASSUME NEW k \in 1..L, f[K + (k - 1)] = Cat(g[K], h[k - 1])
        PROVE  f[K + k] = Cat(g[K], h[k])
    <3>1. /\ K + k \in 1..(K + L) /\ k - 1 \in 0..L
          /\ (K + k) - 1 = K + (k - 1)
      BY <1>1
    <3>2. f[K + k] = PickStep(u, N, K + k, f[K + (k - 1)])
      BY <1>4, <3>1
    <3>3. PickStep(u, N, K + k, f[K + (k - 1)]) = PickStep(t, N2, k, f[K + (k - 1)])
      BY <1>1, <1>7 DEF PickStep
    <3>4. h[k] = PickStep(t, N2, k, h[k - 1])
      BY <1>3
    <3> DEFINE a == g[K]
               b == h[k - 1]
               e == t[k]
    <3>5. a \in Seq(S) /\ b \in Seq(S) /\ e \in S
      <4>1. K \in 0..K
        BY <1>1
      <4> QED
        BY <1>1, <1>5, <3>1, <4>1
    <3>6. Append(Cat(a, b), e) = Cat(a, Append(b, e))
      <4> HIDE DEF a, b, e
      <4> QED
        BY <3>5, AppendCat
    <3>7. Cat(a, PickStep(t, N2, k, b)) = PickStep(t, N2, k, Cat(a, b))
      BY <3>6 DEF PickStep
    <3> QED
      BY <2>2, <3>2, <3>3, <3>4, <3>7
  <2> DEFINE P(k) == f[K + k] = Cat(g[K], h[k])
             B == {k \in 0..L : ~P(k)}
  <2>3. P(0) /\ \A k \in 1..L : P(k - 1) => P(k)
    BY <2>1, <2>2
  <2> HIDE DEF P
  <2>4. B \in SUBSET Nat /\ 0 \notin B
    BY <1>1, <2>3
  <2>5. \A k \in B : k \in 1..L
    BY <1>1, <2>4
  <2>6. \A k \in B : k - 1 \in B
    BY <1>1, <2>3, <2>5
  <2>7. B = {}
    <3> HIDE DEF B
    <3> QED
      BY <2>4, <2>6, NoFirst
  <2>8. \A k \in 0..L : P(k)
    BY <2>7
  <2> QED
    BY <2>8 DEF P
<1>10. f[K + L] = Cat(g[K], h[L])
  <2>1. L \in 0..L
    BY <1>1
  <2> QED
    BY <1>9, <2>1
<1> QED
  BY <1>2, <1>3, <1>4, <1>10 DEF u, Cat

\* An induction over the places of a sequence picks what it claims to pick.
LEMMA PickInduction ==
  ASSUME NEW P, NEW L \in Nat, P \subseteq 0..L, 0 \in P,
         \A k \in 1..L : k - 1 \in P => k \in P
  PROVE  \A k \in 0..L : k \in P
<1> DEFINE B == (0..L) \ P
<1>1. B \in SUBSET Nat /\ 0 \notin B
  OBVIOUS
<1>2. \A k \in B : k \in 1..L
  BY <1>1
<1>3. \A k \in B : k - 1 \in B
  BY <1>2
<1>4. B = {}
  <2> HIDE DEF B
  <2> QED
    BY <1>1, <1>3, NoFirst
<1> QED
  BY <1>4

\* All elements, or none.
LEMMA ThoseAllOrNone ==
  ASSUME NEW S, NEW seq \in Seq(S), NEW N
  PROVE  /\ 1..Len(seq) \subseteq N => Those(seq, N) = seq
         /\ (\A n \in 1..Len(seq) : n \notin N) => Those(seq, N) = << >>
<1> DEFINE L == Len(seq)
<1>1. L \in Nat /\ \A k \in 1..L : seq[k] \in S
  OBVIOUS
<1>2. PICK g : /\ g[0] = << >>
               /\ \A k \in 1..L : g[k] = PickStep(seq, N, k, g[k - 1])
               /\ Those(seq, N) = g[L]
  BY <1>1, ThoseIsPick
<1>3. L \in 0..L
  BY <1>1
<1> HIDE DEF L
<1>4. \A k \in 0..L : g[k] \in Seq(S)
  BY <1>1, <1>2, PickTyped
<1>5. ASSUME 1..L \subseteq N PROVE Those(seq, N) = seq
  <2> DEFINE Same(k) == Len(g[k]) = k /\ \A i \in 1..k : g[k][i] = seq[i]
             P == {k \in 0..L : Same(k)}
  <2>1. Same(0)
    BY <1>2
  <2>2. ASSUME NEW k \in 1..L, Same(k - 1) PROVE Same(k)
    <3> DEFINE b == g[k - 1]
               e == seq[k]
    <3>1. g[k] = Append(b, e)
      BY <1>2, <1>5 DEF PickStep
    <3>2. k - 1 \in 0..L /\ b \in Seq(S) /\ e \in S
      BY <1>1, <1>4
    <3>3. Len(b) = k - 1 /\ \A i \in 1..(k - 1) : b[i] = seq[i]
      BY <2>2
    <3> HIDE DEF b
    <3>4. Len(g[k]) = k /\ g[k][k] = e /\ \A i \in 1..(k - 1) : g[k][i] = b[i]
      BY <3>1, <3>2, <3>3, AppendProperties
    <3>5. \A i \in 1..k : i = k \/ i \in 1..(k - 1)
      OBVIOUS
    <3> QED
      BY <3>3, <3>4, <3>5
  <2> HIDE DEF Same
  <2>3. P \subseteq 0..L /\ 0 \in P
    BY <1>1, <2>1
  <2>4. \A k \in 1..L : k - 1 \in P => k \in P
    BY <1>1, <2>2
  <2>5. \A k \in 0..L : k \in P
    <3> HIDE DEF P
    <3> QED
      BY <1>1, <2>3, <2>4, PickInduction
  <2>6. Same(L)
    BY <1>3, <2>5
  <2>7. g[L] \in Seq(S) /\ Len(g[L]) = Len(seq) /\ \A i \in 1..Len(seq) : g[L][i] = seq[i]
    BY <1>3, <1>4, <2>6 DEF Same, L
  <2>8. g[L] = seq
    BY <2>7, SeqEqual
  <2> QED
    BY <1>2, <2>8
<1>6. ASSUME \A n \in 1..L : n \notin N PROVE Those(seq, N) = << >>
  <2> DEFINE P == {k \in 0..L : g[k] = << >>}
  <2>1. 0 \in P
    BY <1>1, <1>2
  <2>2. ASSUME NEW k \in 1..L, k - 1 \in P PROVE k \in P
    BY <1>2, <1>6, <2>2 DEF PickStep
  <2>3. \A k \in 0..L : k \in P
    <3> HIDE DEF P
    <3>1. P \subseteq 0..L
      BY DEF P
    <3> QED
      BY <1>1, <2>1, <2>2, <3>1, PickInduction
  <2> QED
    BY <1>2, <1>3, <2>3
<1> QED
  BY <1>5, <1>6 DEF L

\* w, in the places I, has the elements of seq in those of the first k places
\* that are in N, in their order.
Picks(w, I, seq, N, k) ==
  \E h \in [I -> 1..k] :
    /\ \A i, j \in I : i < j => h[i] < h[j]
    /\ \A i \in I : h[i] \in N /\ w[i] = seq[h[i]]
    /\ \A n \in 1..k : n \in N => \E i \in I : h[i] = n

Embeds(w, seq, N, k) == Picks(w, 1..Len(w), seq, N, k)

\* One place more.
LEMMA EmbedsMore ==
  ASSUME NEW S, NEW w \in Seq(S), NEW seq, NEW N, NEW k \in Nat \ {0}, seq[k] \in S,
         Embeds(w, seq, N, k - 1)
  PROVE  Embeds(PickStep(seq, N, k, w), seq, N, k)
<1> DEFINE L == Len(w)
<1>1. L \in Nat
  OBVIOUS
<1>2. PICK h \in [1..L -> 1..(k - 1)] :
        /\ \A i, j \in 1..L : i < j => h[i] < h[j]
        /\ \A i \in 1..L : h[i] \in N /\ w[i] = seq[h[i]]
        /\ \A n \in 1..(k - 1) : n \in N => \E i \in 1..L : h[i] = n
  BY DEF Embeds, Picks
<1>3. \A i \in 1..L : h[i] \in 1..(k - 1) /\ h[i] \in 1..k /\ h[i] < k
  BY <1>2
<1>4. CASE k \notin N
  <2>1. h \in [1..L -> 1..k]
    BY <1>2, <1>3
  <2>2. \A n \in 1..k : n \in N => \E i \in 1..L : h[i] = n
    BY <1>2, <1>4
  <2>3. Embeds(w, seq, N, k)
    BY <1>2, <2>1, <2>2 DEF Embeds, Picks
  <2> QED
    BY <1>4, <2>3 DEF PickStep
<1>5. CASE k \in N
  <2> DEFINE v == Append(w, seq[k])
             f == [i \in 1..(L + 1) |-> IF i = L + 1 THEN k ELSE h[i]]
  <2>1. /\ Len(v) = L + 1 /\ v[L + 1] = seq[k]
        /\ \A i \in 1..L : v[i] = w[i]
    BY AppendProperties
  <2> HIDE DEF v, L
  <2>2. \A i \in 1..(L + 1) : i = L + 1 \/ i \in 1..L
    BY <1>1
  <2>3. f[L + 1] = k /\ \A i \in 1..L : f[i] = h[i]
    BY <1>1
  <2>4. f \in [1..(L + 1) -> 1..k]
    BY <1>3, <2>2
  <2> HIDE DEF f
  <2>5. ASSUME NEW i \in 1..(L + 1), NEW j \in 1..(L + 1), i < j PROVE f[i] < f[j]
    <3>1. i \in 1..L
      BY <1>1, <2>5
    <3>2. CASE j = L + 1
      BY <1>3, <2>3, <3>1, <3>2
    <3>3. CASE j # L + 1
      <4>1. j \in 1..L
        BY <1>1, <3>3
      <4> QED
        BY <1>2, <2>3, <2>5, <3>1, <4>1
    <3> QED
      BY <3>2, <3>3
  <2>6. \A i \in 1..(L + 1) : f[i] \in N /\ v[i] = seq[f[i]]
    BY <1>2, <1>5, <2>1, <2>2, <2>3
  <2>7. ASSUME NEW n \in 1..k, n \in N PROVE \E i \in 1..(L + 1) : f[i] = n
    <3>1. CASE n = k
      BY <1>1, <2>3, <3>1, L + 1 \in 1..(L + 1)
    <3>2. CASE n # k
      <4>1. n \in 1..(k - 1)
        BY <3>2
      <4>2. PICK i \in 1..L : h[i] = n
        BY <1>2, <2>7, <4>1
      <4> QED
        BY <1>1, <2>3, <4>2, i \in 1..(L + 1)
    <3> QED
      BY <3>1, <3>2
  <2>8. Embeds(v, seq, N, k)
    <3>1. 1..Len(v) = 1..(L + 1)
      BY <2>1
    <3>2. Picks(v, 1..(L + 1), seq, N, k)
      BY <2>4, <2>5, <2>6, <2>7 DEF Picks
    <3> QED
      BY <3>1, <3>2 DEF Embeds
  <2> QED
    BY <1>5, <2>8 DEF PickStep, v
<1> QED
  BY <1>4, <1>5

\* What is picked out keeps its order.
LEMMA ThoseEmbeds ==
  ASSUME NEW S, NEW seq \in Seq(S), NEW N
  PROVE  Embeds(Those(seq, N), seq, N, Len(seq))
<1> DEFINE L == Len(seq)
<1>1. L \in Nat /\ \A k \in 1..L : seq[k] \in S
  OBVIOUS
<1>2. PICK g : /\ g[0] = << >>
               /\ \A k \in 1..L : g[k] = PickStep(seq, N, k, g[k - 1])
               /\ Those(seq, N) = g[L]
  BY <1>1, ThoseIsPick
<1>3. L \in 0..L
  BY <1>1
<1> HIDE DEF L
<1>4. \A k \in 0..L : g[k] \in Seq(S)
  BY <1>1, <1>2, PickTyped
<1> DEFINE P == {k \in 0..L : Embeds(g[k], seq, N, k)}
<1>5. Embeds(<< >>, seq, N, 0)
  <2> DEFINE h == [i \in 1..0 |-> 1]
  <2>1. h \in [1..0 -> 1..0] /\ \A i \in 1..0 : FALSE
    OBVIOUS
  <2> HIDE DEF h
  <2>2. Picks(<< >>, 1..0, seq, N, 0)
    BY <2>1 DEF Picks
  <2>3. 1..Len(<< >>) = 1..0
    OBVIOUS
  <2> QED
    BY <2>2, <2>3 DEF Embeds
<1>6. 0 \in P /\ P \subseteq 0..L
  BY <1>1, <1>2, <1>5
<1>7. ASSUME NEW k \in 1..L, k - 1 \in P PROVE k \in P
  <2> DEFINE w == g[k - 1]
  <2>1. k \in Nat \ {0} /\ w \in Seq(S) /\ seq[k] \in S /\ Embeds(w, seq, N, k - 1)
    BY <1>1, <1>4, <1>7
  <2> HIDE DEF w
  <2>2. Embeds(PickStep(seq, N, k, w), seq, N, k)
    BY <2>1, EmbedsMore
  <2>3. g[k] = PickStep(seq, N, k, w)
    BY <1>2 DEF w
  <2> QED
    BY <1>1, <2>2, <2>3
<1>8. \A k \in 0..L : k \in P
  <2> HIDE DEF P
  <2> QED
    BY <1>1, <1>6, <1>7, PickInduction
<1> QED
  BY <1>2, <1>3, <1>8 DEF L

\* The elements of s are some of those of seq, in the same order.
Follows(s, seq) ==
  \E h \in [1..Len(s) -> 1..Len(seq)] :
    /\ \A i, j \in 1..Len(s) : i < j => h[i] < h[j]
    /\ \A i \in 1..Len(s) : s[i] = seq[h[i]]

\* Leaving elements out.
LEMMA WithoutFacts ==
  ASSUME NEW S, NEW seq \in Seq(S), NEW X
  PROVE  /\ Without(seq, X) \in Seq(S)
         /\ Range(Without(seq, X)) = Range(seq) \ X
         /\ Follows(Without(seq, X), seq)
<1> DEFINE w == Without(seq, X)
           N == {n \in DOMAIN seq : seq[n] \notin X}
<1>1. w = Those(seq, N)
  BY DEF Without
<1>2. w \in Seq(S)
  BY <1>1, ThoseTyped
<1>3. Embeds(w, seq, N, Len(seq))
  BY <1>1, ThoseEmbeds
<1>4. DOMAIN seq = 1..Len(seq) /\ DOMAIN w = 1..Len(w)
  BY <1>2
<1> HIDE DEF w
<1>5. PICK h \in [1..Len(w) -> 1..Len(seq)] :
        /\ \A i, j \in 1..Len(w) : i < j => h[i] < h[j]
        /\ \A i \in 1..Len(w) : h[i] \in N /\ w[i] = seq[h[i]]
        /\ \A n \in 1..Len(seq) : n \in N => \E i \in 1..Len(w) : h[i] = n
  BY <1>3 DEF Embeds, Picks
<1>6. Follows(w, seq)
  BY <1>5 DEF Follows
<1>7. ASSUME NEW e \in Range(w) PROVE e \in Range(seq) \ X
  BY <1>4, <1>5 DEF Range
<1>8. ASSUME NEW e \in Range(seq) \ X PROVE e \in Range(w)
  <2>1. PICK n \in 1..Len(seq) : seq[n] = e
    BY <1>4 DEF Range
  <2>2. n \in N
    BY <1>4, <1>8, <2>1
  <2>3. PICK i \in 1..Len(w) : h[i] = n
    BY <1>5, <2>2
  <2>4. w[i] = e
    BY <1>5, <2>1, <2>3
  <2> QED
    BY <1>4, <2>4 DEF Range
<1> QED
  BY <1>2, <1>6, <1>7, <1>8 DEF w

\* What a sequence has in it, element by element.
LEMMA RangeFacts ==
  ASSUME NEW S, NEW s \in Seq(S)
  PROVE  /\ Range(s) \subseteq S
         /\ \A i \in 1..Len(s) : s[i] \in Range(s)
         /\ \A e \in Range(s) : \E i \in 1..Len(s) : s[i] = e
         /\ s = << >> <=> Range(s) = {}
         /\ DOMAIN s = 1..Len(s) /\ Len(s) \in Nat
<1>1. DOMAIN s = 1..Len(s) /\ Len(s) \in Nat /\ \A i \in 1..Len(s) : s[i] \in S
  OBVIOUS
<1>2. \A e \in Range(s) : \E i \in 1..Len(s) : s[i] = e
  BY <1>1 DEF Range
<1>3. \A i \in 1..Len(s) : s[i] \in Range(s)
  BY <1>1 DEF Range
<1>4. s = << >> => Range(s) = {}
  BY <1>2
<1>5. s # << >> => 1 \in 1..Len(s)
  OBVIOUS
<1> QED
  BY <1>1, <1>2, <1>3, <1>4, <1>5

LEMMA RangeAppend ==
  ASSUME NEW S, NEW s \in Seq(S), NEW e \in S
  PROVE  Range(Append(s, e)) = Range(s) \cup {e}
<1>1. /\ Len(Append(s, e)) = Len(s) + 1 /\ Len(s) \in Nat
      /\ Append(s, e)[Len(s) + 1] = e
      /\ \A i \in 1..Len(s) : Append(s, e)[i] = s[i]
      /\ DOMAIN s = 1..Len(s)
      /\ DOMAIN Append(s, e) = 1..(Len(s) + 1)
  BY AppendProperties
<1> DEFINE u == Append(s, e)
<1> HIDE DEF u
<1>2. \A i \in 1..(Len(s) + 1) : i = Len(s) + 1 \/ i \in 1..Len(s)
  BY <1>1
<1>3. 1..Len(s) \subseteq 1..(Len(s) + 1) /\ Len(s) + 1 \in 1..(Len(s) + 1)
  BY <1>1
<1>4. Range(u) = {u[i] : i \in 1..(Len(s) + 1)} /\ Range(s) = {s[i] : i \in 1..Len(s)}
  BY <1>1 DEF Range, u
<1>5. u[Len(s) + 1] = e /\ \A i \in 1..Len(s) : u[i] = s[i]
  BY <1>1 DEF u
<1>6. Range(u) = Range(s) \cup {e}
  BY <1>2, <1>3, <1>4, <1>5
<1> QED
  BY <1>6 DEF u

LEMMA RangeTail ==
  ASSUME NEW S, NEW s \in Seq(S), s # << >>
  PROVE  /\ Range(s) = Range(Tail(s)) \cup {Head(s)}
         /\ Tail(s) \in Seq(S) /\ Head(s) \in S
<1>1. /\ Len(Tail(s)) = Len(s) - 1 /\ Len(s) \in Nat \ {0} /\ Tail(s) \in Seq(S)
      /\ \A i \in 1..(Len(s) - 1) : Tail(s)[i] = s[i + 1]
      /\ Head(s) = s[1] /\ Head(s) \in S
      /\ DOMAIN s = 1..Len(s)
      /\ DOMAIN Tail(s) = 1..(Len(s) - 1)
  BY HeadTailProperties
<1> DEFINE u == Tail(s)
           L == Len(s)
<1>2. /\ L \in Nat \ {0} /\ Range(u) = {u[i] : i \in 1..(L - 1)}
      /\ Range(s) = {s[i] : i \in 1..L}
      /\ \A i \in 1..(L - 1) : u[i] = s[i + 1]
  BY <1>1 DEF Range
<1> HIDE DEF u, L
<1>3. \A i \in 1..L : i = 1 \/ i - 1 \in 1..(L - 1)
  BY <1>2
<1>4. \A i \in 1..(L - 1) : i + 1 \in 1..L
  BY <1>2
<1>5. 1 \in 1..L
  BY <1>2
<1>6. ASSUME NEW e \in Range(s) PROVE e \in Range(u) \cup {s[1]}
  <2>1. PICK i \in 1..L : s[i] = e
    BY <1>2
  <2>2. CASE i # 1
    <3>1. i - 1 \in 1..(L - 1) /\ (i - 1) + 1 = i
      BY <1>3, <2>2
    <3> QED
      BY <1>2, <2>1, <3>1
  <2> QED
    BY <2>1, <2>2
<1>7. ASSUME NEW e \in Range(u) \cup {s[1]} PROVE e \in Range(s)
  BY <1>2, <1>4, <1>5
<1>8. Range(s) = Range(u) \cup {s[1]}
  BY <1>6, <1>7
<1> QED
  BY <1>1, <1>8 DEF u

LEMMA RangeCat ==
  ASSUME NEW S, NEW s \in Seq(S), NEW t \in Seq(S)
  PROVE  Range(Cat(s, t)) = Range(s) \cup Range(t) /\ Cat(s, t) \in Seq(S)
<1>1. /\ s \o t \in Seq(S) /\ Len(s \o t) = Len(s) + Len(t) /\ Len(s) \in Nat /\ Len(t) \in Nat
      /\ \A i \in 1..Len(s) : (s \o t)[i] = s[i]
      /\ \A i \in 1..Len(t) : (s \o t)[Len(s) + i] = t[i]
      /\ DOMAIN s = 1..Len(s) /\ DOMAIN t = 1..Len(t)
      /\ DOMAIN (s \o t) = 1..(Len(s) + Len(t))
  BY ConcatProperties
<1> DEFINE u == s \o t
           K == Len(s)
           L == Len(t)
<1>2. /\ K \in Nat /\ L \in Nat
      /\ Range(u) = {u[i] : i \in 1..(K + L)}
      /\ Range(s) = {s[i] : i \in 1..K}
      /\ Range(t) = {t[i] : i \in 1..L}
      /\ \A i \in 1..K : u[i] = s[i]
      /\ \A i \in 1..L : u[K + i] = t[i]
  BY <1>1 DEF Range
<1> HIDE DEF u, K, L
<1>3. \A i \in 1..K : i \in 1..(K + L)
  BY <1>2
<1>4. \A i \in 1..L : K + i \in 1..(K + L)
  BY <1>2
<1>5. \A i \in 1..(K + L) : i \in 1..K \/ (i - K \in 1..L /\ K + (i - K) = i)
  BY <1>2
<1>6. ASSUME NEW e \in Range(u) PROVE e \in Range(s) \cup Range(t)
  <2>1. PICK i \in 1..(K + L) : u[i] = e
    BY <1>2
  <2>2. CASE i \in 1..K
    BY <1>2, <2>1, <2>2
  <2>3. CASE i - K \in 1..L /\ K + (i - K) = i
    BY <1>2, <2>1, <2>3
  <2> QED
    BY <1>5, <2>2, <2>3
<1>7. ASSUME NEW e \in Range(s) \cup Range(t) PROVE e \in Range(u)
  <2>1. CASE e \in Range(s)
    BY <1>2, <1>3, <2>1
  <2>2. CASE e \in Range(t)
    <3>1. PICK i \in 1..L : t[i] = e
      BY <1>2, <2>2
    <3>2. u[K + i] = e /\ K + i \in 1..(K + L)
      BY <1>2, <1>4, <3>1
    <3> QED
      BY <1>2, <3>2
  <2> QED
    BY <1>7, <2>1, <2>2
<1>8. Range(u) = Range(s) \cup Range(t)
  BY <1>6, <1>7
<1> QED
  BY <1>1, <1>8 DEF u, Cat

\* e is in s at most once.
Once(s, e) == \A i, j \in 1..Len(s) : s[i] = e /\ s[j] = e => i = j

LEMMA OnceFollows ==
  ASSUME NEW w, NEW seq, NEW e, Len(w) \in Nat, Len(seq) \in Nat,
         Follows(w, seq), Once(seq, e)
  PROVE  Once(w, e)
<1>1. PICK h \in [1..Len(w) -> 1..Len(seq)] :
        /\ \A i, j \in 1..Len(w) : i < j => h[i] < h[j]
        /\ \A i \in 1..Len(w) : w[i] = seq[h[i]]
  BY DEF Follows
<1>2. ASSUME NEW i \in 1..Len(w), NEW j \in 1..Len(w), w[i] = e, w[j] = e, i # j
      PROVE  FALSE
  <2>1. h[i] = h[j]
    BY <1>1, <1>2 DEF Once
  <2>2. i < j \/ j < i
    BY <1>2
  <2>3. h[i] < h[j] \/ h[j] < h[i]
    BY <1>1, <2>2
  <2>4. h[i] \in Nat /\ h[j] \in Nat
    BY <1>1
  <2> QED
    BY <2>1, <2>3, <2>4
<1> QED
  BY <1>2 DEF Once

LEMMA OnceAppend ==
  ASSUME NEW S, NEW s \in Seq(S), NEW x \in S, NEW e, Once(s, e), x = e => e \notin Range(s)
  PROVE  Once(Append(s, x), e)
<1> DEFINE u == Append(s, x)
           L == Len(s)
<1>1. /\ Len(u) = L + 1 /\ L \in Nat /\ u[L + 1] = x
      /\ \A i \in 1..L : u[i] = s[i]
  BY AppendProperties
<1>2. \A i \in 1..L : s[i] \in Range(s)
  BY RangeFacts
<1>3. \A i, j \in 1..L : s[i] = e /\ s[j] = e => i = j
  BY DEF Once
<1> HIDE DEF u, L
<1>4. \A i \in 1..(L + 1) : i = L + 1 \/ i \in 1..L
  BY <1>1
<1>5. \A i, j \in 1..(L + 1) : u[i] = e /\ u[j] = e => i = j
  BY <1>1, <1>2, <1>3, <1>4
<1>6. Once(u, e)
  BY <1>1, <1>5 DEF Once
<1> QED
  BY <1>6 DEF u

LEMMA OnceTail ==
  ASSUME NEW S, NEW s \in Seq(S), s # << >>, NEW e, Once(s, e)
  PROVE  Once(Tail(s), e) /\ (Head(s) = e => e \notin Range(Tail(s)))
<1> DEFINE u == Tail(s)
           L == Len(s)
<1>1. /\ Len(u) = L - 1 /\ L \in Nat \ {0} /\ Head(s) = s[1]
      /\ \A i \in 1..(L - 1) : u[i] = s[i + 1]
  BY HeadTailProperties
<1>2. \A i, j \in 1..L : s[i] = e /\ s[j] = e => i = j
  BY DEF Once
<1>3. \A x \in Range(u) : \E i \in 1..(L - 1) : u[i] = x
  <2>1. u \in Seq(S)
    BY RangeTail
  <2> HIDE DEF u
  <2> QED
    BY <1>1, <2>1, RangeFacts
<1> HIDE DEF u, L
<1>4. \A i \in 1..(L - 1) : i + 1 \in 1..L /\ i + 1 # 1
  BY <1>1
<1>5. ASSUME NEW i \in 1..(L - 1), NEW j \in 1..(L - 1), u[i] = e, u[j] = e PROVE i = j
  <2>1. i + 1 \in 1..L /\ j + 1 \in 1..L
    BY <1>4
  <2>2. s[i + 1] = e /\ s[j + 1] = e
    BY <1>1, <1>5
  <2>3. i + 1 = j + 1
    BY <1>2, <2>1, <2>2
  <2> QED
    BY <1>1, <2>3
<1>6. ASSUME s[1] = e, e \in Range(u) PROVE FALSE
  <2>1. PICK i \in 1..(L - 1) : u[i] = e
    BY <1>3, <1>6
  <2>2. 1 \in 1..L
    BY <1>1
  <2> QED
    BY <1>1, <1>2, <1>4, <1>6, <2>1, <2>2
<1>7. Once(u, e)
  BY <1>1, <1>5 DEF Once
<1> QED
  BY <1>1, <1>6, <1>7 DEF u

LEMMA OnceCat ==
  ASSUME NEW S, NEW s \in Seq(S), NEW t \in Seq(S), NEW e, Once(s, e), e \notin Range(t)
  PROVE  Once(Cat(s, t), e)
<1> DEFINE u == s \o t
           K == Len(s)
           L == Len(t)
<1>1. /\ Len(u) = K + L /\ K \in Nat /\ L \in Nat
      /\ \A i \in 1..K : u[i] = s[i]
      /\ \A i \in 1..L : u[K + i] = t[i]
  BY ConcatProperties
<1>2. \A i \in 1..L : t[i] # e
  BY RangeFacts
<1>3. \A i, j \in 1..K : s[i] = e /\ s[j] = e => i = j
  BY DEF Once
<1> HIDE DEF u, K, L
<1>4. \A i \in 1..(K + L) : i \in 1..K \/ (i - K \in 1..L /\ K + (i - K) = i)
  BY <1>1
<1>5. \A i \in 1..(K + L) : u[i] = e => i \in 1..K
  BY <1>1, <1>2, <1>4
<1>6. Once(u, e)
  BY <1>1, <1>3, <1>5 DEF Once
<1> QED
  BY <1>6 DEF u, Cat

\* The times of the timers in s do not go down.
Ordered(s, left) == \A i, j \in 1..Len(s) : i < j => left[s[i]] <= left[s[j]]

LEMMA OrderedFollows ==
  ASSUME NEW S, NEW w \in Seq(S), NEW s \in Seq(S), NEW left, NEW left2, Follows(w, s),
         Ordered(s, left), \A e \in Range(w) : left2[e] = left[e]
  PROVE  Ordered(w, left2)
<1>1. PICK h \in [1..Len(w) -> 1..Len(s)] :
        /\ \A i, j \in 1..Len(w) : i < j => h[i] < h[j]
        /\ \A i \in 1..Len(w) : w[i] = s[h[i]]
  BY DEF Follows
<1>2. \A i \in 1..Len(w) : left2[w[i]] = left[s[h[i]]]
  BY <1>1, RangeFacts
<1>3. \A i, j \in 1..Len(w) : i < j => left[s[h[i]]] <= left[s[h[j]]]
  BY <1>1 DEF Ordered
<1> QED
  BY <1>2, <1>3 DEF Ordered

\* InsertAt, place by place.
LEMMA InsertFacts ==
  ASSUME NEW S, NEW s \in Seq(S), NEW n \in 1..(Len(s) + 1), NEW x \in S
  PROVE  /\ InsertAt(s, n, x) \in Seq(S)
         /\ Len(InsertAt(s, n, x)) = Len(s) + 1
         /\ \A i \in 1..(n - 1) : InsertAt(s, n, x)[i] = s[i]
         /\ InsertAt(s, n, x)[n] = x
         /\ \A i \in (n + 1)..(Len(s) + 1) : InsertAt(s, n, x)[i] = s[i - 1]
         /\ Range(InsertAt(s, n, x)) = Range(s) \cup {x}
<1> DEFINE a == SubSeq(s, 1, n - 1)
           b == <<x>>
           c == SubSeq(s, n, Len(s))
           L == Len(s)
<1>1. L \in Nat /\ n \in Nat \ {0} /\ n <= L + 1
  OBVIOUS
<1>2. a \in Seq(S) /\ Len(a) = n - 1 /\ \A i \in 1..(n - 1) : a[i] = s[i]
  BY SubSeqProperties
<1>3. b \in Seq(S) /\ Len(b) = 1 /\ b[1] = x
  OBVIOUS
<1>4. /\ c \in Seq(S) /\ Len(c) = (L + 1) - n
      /\ \A i \in 1..((L + 1) - n) : c[i] = s[(n - 1) + i]
  BY SubSeqProperties
<1>5. InsertAt(s, n, x) = Cat(Cat(a, b), c)
  BY DEF InsertAt, Cat
<1> HIDE DEF a, b, c
<1> DEFINE d == Cat(a, b)
<1>6. /\ d \in Seq(S) /\ Len(d) = n /\ d[n] = x
      /\ \A i \in 1..(n - 1) : d[i] = a[i]
  <2>1. /\ d \in Seq(S) /\ Len(d) = Len(a) + Len(b)
        /\ \A i \in 1..Len(a) : d[i] = a[i]
        /\ \A i \in 1..Len(b) : d[Len(a) + i] = b[i]
    <3>1. a \in Seq(S) /\ b \in Seq(S)
      BY <1>2, <1>3
    <3>2. d \in Seq(S)
      BY <3>1, CatFacts
    <3>3. Len(d) = Len(a) + Len(b)
      BY <3>1, CatFacts
    <3>4. \A i \in 1..Len(a) : d[i] = a[i]
      BY <3>1, CatFacts
    <3>5. \A i \in 1..Len(b) : d[Len(a) + i] = b[i]
      BY <3>1, CatFacts
    <3> QED
      BY <3>2, <3>3, <3>4, <3>5
  <2> HIDE DEF d
  <2>2. Len(d) = n /\ (n - 1) + 1 = n /\ Len(a) = n - 1 /\ 1 \in 1..Len(b)
    <3>1. Len(a) = n - 1 /\ Len(b) = 1 /\ Len(d) = Len(a) + Len(b)
      BY <1>2, <1>3, <2>1
    <3> QED
      BY <1>1, <3>1
  <2>3. d[Len(a) + 1] = b[1]
    BY <2>1, <2>2
  <2>4. d[n] = x
    BY <1>3, <2>2, <2>3
  <2>5. \A i \in 1..(n - 1) : d[i] = a[i]
    BY <2>1, <2>2
  <2> QED
    BY <2>1, <2>2, <2>4, <2>5
<1>7. Range(d) = Range(a) \cup Range(b)
  BY <1>2, <1>3, RangeCat
<1> HIDE DEF d
<1> DEFINE u == Cat(d, c)
<1>8. /\ u \in Seq(S) /\ Len(u) = L + 1
      /\ \A i \in 1..n : u[i] = d[i]
      /\ \A i \in 1..((L + 1) - n) : u[n + i] = c[i]
  BY <1>1, <1>4, <1>6, ConcatProperties DEF Cat
<1>9. Range(u) = Range(d) \cup Range(c)
  BY <1>4, <1>6, RangeCat
<1> HIDE DEF u
<1>10. \A i \in 1..(n - 1) : i \in 1..n
  BY <1>1
<1>11. \A i \in 1..(n - 1) : u[i] = s[i]
  BY <1>2, <1>6, <1>8, <1>10
<1>12. u[n] = x
  BY <1>1, <1>6, <1>8
<1>13. ASSUME NEW i \in (n + 1)..(L + 1) PROVE u[i] = s[i - 1]
  <2>1. PICK j \in 1..((L + 1) - n) : n + j = i /\ (n - 1) + j = i - 1
    <3> DEFINE j == i - n
    <3>1. j \in 1..((L + 1) - n) /\ n + j = i /\ (n - 1) + j = i - 1
      BY <1>1
    <3> HIDE DEF j
    <3> QED
      BY <3>1
  <2>2. u[n + j] = c[j] /\ c[j] = s[(n - 1) + j]
    BY <1>4, <1>8
  <2> QED
    BY <2>1, <2>2
<1>14. Range(s) = Range(a) \cup Range(c)
  <2>1. Range(s) = Range(Cat(a, c))
    <3>1. s = Cat(a, c)
      <4> DEFINE v == Cat(a, c)
      <4>1. /\ v \in Seq(S) /\ Len(v) = L
            /\ \A i \in 1..(n - 1) : v[i] = a[i]
            /\ \A i \in 1..((L + 1) - n) : v[(n - 1) + i] = c[i]
        BY <1>1, <1>2, <1>4, ConcatProperties DEF Cat
      <4> HIDE DEF v
      <4>2. ASSUME NEW i \in 1..L PROVE v[i] = s[i]
        <5>1. CASE i \in 1..(n - 1)
          BY <1>2, <4>1, <5>1
        <5>2. CASE i \notin 1..(n - 1)
          <6>1. i - (n - 1) \in 1..((L + 1) - n) /\ (n - 1) + (i - (n - 1)) = i
            BY <1>1, <5>2
          <6> QED
            BY <1>4, <4>1, <6>1
        <5> QED
          BY <5>1, <5>2
      <4>3. v = s
        BY <4>1, <4>2, SeqEqual
      <4> QED
        BY <4>3 DEF v
    <3> QED
      BY <3>1
  <2>2. Range(Cat(a, c)) = Range(a) \cup Range(c)
    BY <1>2, <1>4, RangeCat
  <2> QED
    BY <2>1, <2>2
<1>15. Range(b) = {x}
  BY DEF Range, b
<1> QED
  BY <1>5, <1>7, <1>8, <1>9, <1>11, <1>12, <1>13, <1>14, <1>15 DEF u, d

\* A timer that is put before the first one that is not earlier.
LEMMA InsertOrdered ==
  ASSUME NEW S, NEW s \in Seq(S), NEW t \in S, NEW left, NEW left2, NEW d \in Nat,
         \A e \in S : left[e] \in Nat,
         t \notin Range(s), left2[t] = d, \A e \in Range(s) : left2[e] = left[e],
         NEW n \in 1..(Len(s) + 1),
         \A i \in 1..(n - 1) : left[s[i]] < d,
         n \in 1..Len(s) => d <= left[s[n]],
         Ordered(s, left)
  PROVE  Ordered(InsertAt(s, n, t), left2)
<1> DEFINE u == InsertAt(s, n, t)
           L == Len(s)
<1>1. /\ Len(u) = L + 1 /\ L \in Nat
      /\ \A i \in 1..(n - 1) : u[i] = s[i]
      /\ u[n] = t
      /\ \A i \in (n + 1)..(L + 1) : u[i] = s[i - 1]
  BY InsertFacts
<1>2. \A i \in 1..L : left2[s[i]] = left[s[i]] /\ left[s[i]] \in Nat
  BY RangeFacts
<1>3. \A i, j \in 1..L : i <= j => left[s[i]] <= left[s[j]]
  <2> SUFFICES ASSUME NEW i \in 1..L, NEW j \in 1..L, i <= j
               PROVE  left[s[i]] <= left[s[j]]
    OBVIOUS
  <2>1. CASE i = j
    BY <1>2, <2>1
  <2>2. CASE i < j
    BY <2>2 DEF Ordered
  <2> QED
    BY <1>1, <2>1, <2>2
<1>4. n \in 1..(L + 1) /\ (n \in 1..L => d <= left[s[n]])
  OBVIOUS
<1> HIDE DEF u, L
<1>5. \A i \in 1..(n - 1) : i \in 1..L /\ left2[u[i]] = left[s[i]] /\ left[s[i]] < d
  BY <1>1, <1>2, <1>4
<1>6. ASSUME NEW i \in (n + 1)..(L + 1)
      PROVE  i - 1 \in 1..L /\ left2[u[i]] = left[s[i - 1]] /\ d <= left[s[i - 1]]
  <2>1. i - 1 \in 1..L /\ n \in 1..L /\ n <= i - 1
    BY <1>1, <1>4
  <2>2. d <= left[s[n]] /\ left[s[n]] <= left[s[i - 1]]
    BY <1>3, <1>4, <2>1
  <2>3. left[s[n]] \in Nat /\ left[s[i - 1]] \in Nat
    BY <1>2, <2>1
  <2> QED
    BY <1>1, <1>2, <2>1, <2>2, <2>3
<1>7. ASSUME NEW i \in 1..(L + 1), NEW j \in 1..(L + 1), i < j
      PROVE  left2[u[i]] <= left2[u[j]]
  <2>1. CASE i \in 1..(n - 1) /\ j \in 1..(n - 1)
    <3>1. left[s[i]] <= left[s[j]]
      BY <1>3, <1>5, <1>7, <2>1
    <3> QED
      BY <1>5, <2>1, <3>1
  <2>2. CASE i \in 1..(n - 1) /\ j = n
    <3>1. left[s[i]] \in Nat /\ left[s[i]] < d /\ left2[u[i]] = left[s[i]]
      BY <1>2, <1>5, <2>2
    <3> QED
      BY <1>1, <2>2, <3>1
  <2>3. CASE i \in 1..(n - 1) /\ j \in (n + 1)..(L + 1)
    <3>1. i \in 1..L /\ j - 1 \in 1..L /\ i <= j - 1
      BY <1>4, <1>5, <1>6, <2>3
    <3>2. left[s[i]] <= left[s[j - 1]]
      BY <1>3, <3>1
    <3> QED
      BY <1>5, <1>6, <2>3, <3>2
  <2>4. CASE i = n /\ j \in (n + 1)..(L + 1)
    BY <1>1, <1>6, <2>4
  <2>5. CASE i \in (n + 1)..(L + 1) /\ j \in (n + 1)..(L + 1)
    <3>1. left[s[i - 1]] <= left[s[j - 1]]
      <4>1. i - 1 \in 1..L /\ j - 1 \in 1..L
        BY <1>6, <2>5
      <4>2. i - 1 <= j - 1
        BY <1>7
      <4> QED
        BY <1>3, <4>1, <4>2
    <3> QED
      BY <1>6, <2>5, <3>1
  <2> QED
    BY <1>1, <1>4, <1>7, <2>1, <2>2, <2>3, <2>4, <2>5
<1>8. Ordered(u, left2)
  BY <1>1, <1>7 DEF Ordered
<1> QED
  BY <1>8 DEF u

\* The place of the first timer that is not earlier.
LEMMA BeforeFacts ==
  ASSUME NEW m, NEW S, m.timer \in Seq(S), \A e \in S : m.left[e] \in Nat, NEW d \in Nat
  PROVE  /\ Before(m, d) \in 1..(Len(m.timer) + 1)
         /\ \A i \in 1..(Before(m, d) - 1) : m.left[m.timer[i]] < d
         /\ Before(m, d) \in 1..Len(m.timer) => d <= m.left[m.timer[Before(m, d)]]
<1> DEFINE s == m.timer
           left == m.left
           L == Len(s)
           N == {n \in DOMAIN s : d <= left[s[n]]} \cup {L + 1}
<1>1. L \in Nat /\ DOMAIN s = 1..L /\ \A i \in 1..L : s[i] \in S /\ left[s[i]] \in Nat
  OBVIOUS
<1>2. Before(m, d) = Min(N)
  BY DEF Before
<1> HIDE DEF s, left, L
<1>3. N \in SUBSET Nat /\ N # {}
  BY <1>1
<1>4. \E k \in N : \A n \in N : k <= n
  <2> HIDE DEF N
  <2> QED
    BY <1>3, Least
<1>5. Min(N) \in N /\ \A n \in N : Min(N) <= n
  BY <1>4 DEF Min
<1> DEFINE k == Min(N)
<1>6. k \in N /\ \A n \in N : k <= n
  BY <1>5
<1> HIDE DEF k
<1>7. k \in 1..(L + 1) /\ (k \in 1..L => d <= left[s[k]])
  BY <1>1, <1>6
<1>8. ASSUME NEW i \in 1..(k - 1) PROVE left[s[i]] < d
  <2>1. i \in 1..L /\ ~(k <= i)
    BY <1>1, <1>7
  <2>2. i \notin N
    BY <1>6, <2>1
  <2>3. ~(d <= left[s[i]])
    BY <1>1, <2>1, <2>2
  <2> QED
    BY <1>1, <2>1, <2>3
<1> QED
  BY <1>2, <1>7, <1>8 DEF k, s, left, L

-----------------------------------------------------------------------------
(* struct thread_master.                                                   *)

Opened(c) == [func |-> "opened", arg |-> c]
Stop(c) == [func |-> "stop", arg |-> c]
EventThread == [func : Event, arg : Conn]

\* Threads of different kinds, peers and timers are different.
LEMMA Threads ==
  /\ None \notin Thread /\ None \notin Conn /\ None \notin Message
  /\ EventThread \subseteq Thread
  /\ \A c \in Conn : /\ Read(c) \in Thread /\ Write(c) \in Thread
                     /\ Opened(c) \in EventThread /\ Stop(c) \in EventThread
                     /\ Read(c) \notin EventThread /\ Write(c) \notin EventThread
  /\ \A c, d \in Conn : /\ Read(c) = Read(d) => c = d
                        /\ Opened(c) = Opened(d) => c = d
                        /\ Stop(c) # Opened(d)
                        /\ Read(c) # Write(d) /\ Read(c) # Opened(d) /\ Read(c) # Stop(d)
  /\ \A t \in Timer : /\ TimerThread(t) \in Thread /\ TimerThread(t) \notin EventThread
                      /\ \A c \in Conn : TimerThread(t) # Read(c)
<1>1. None \notin Thread /\ None \notin Conn /\ None \notin Message
  BY NoneAssumption
<1>2. EventThread \subseteq Thread
  BY DEF EventThread, Thread, Event
<1>3. \A c \in Conn : /\ Read(c) \in Thread /\ Write(c) \in Thread
                      /\ Opened(c) \in EventThread /\ Stop(c) \in EventThread
                      /\ Read(c) \notin EventThread /\ Write(c) \notin EventThread
  BY DEF Read, Write, Opened, Stop, EventThread, Event, Thread
<1>4. \A c, d \in Conn : /\ Read(c) = Read(d) => c = d
                         /\ Opened(c) = Opened(d) => c = d
                         /\ Stop(c) # Opened(d)
                         /\ Read(c) # Write(d) /\ Read(c) # Opened(d) /\ Read(c) # Stop(d)
  BY DEF Read, Write, Opened, Stop
<1>5. \A t \in Timer : /\ TimerThread(t) \in Thread /\ TimerThread(t) \notin EventThread
                       /\ \A c \in Conn : TimerThread(t) # Read(c)
  BY DEF TimerThread, Read, Thread, EventThread, Event
<1> QED
  BY <1>1, <1>2, <1>3, <1>4, <1>5

\* A read thread is in one place.
ReadOnce(m, c) ==
  /\ Once(m.ready, Read(c))
  /\ m.fetched = Read(c) => Read(c) \notin Range(m.ready)
  /\ On(m, Read(c)) => c \notin m.read

\* The timers are in the order of their times, only the function of a timer is
\* called after it was cancelled, and only the list of events has threads of events.
MasterOK(m) ==
  /\ m \in MasterType
  /\ Ordered(m.timer, m.left)
  /\ m.freed => \E t \in Timer : m.fetched = TimerThread(t)
  /\ Range(m.event) \subseteq EventThread
  /\ Range(m.ready) \cap EventThread = {}
  /\ \A c \in Conn : ReadOnce(m, c)

\* What no handler and no command changes, except for a connection it opens,
\* reads or closes.
Kept(m, m2) ==
  /\ m2.fetched = m.fetched
  /\ m2.read = m.read
  /\ \A c \in Conn :
       /\ On(m2, Read(c)) <=> On(m, Read(c))
       /\ Opened(c) \in Range(m2.event) <=> Opened(c) \in Range(m.event)
       /\ Stop(c) \in Range(m.event) => Stop(c) \in Range(m2.event)

LEMMA KeptTwice ==
  ASSUME NEW m, NEW m2, NEW m3, Kept(m, m2), Kept(m2, m3)
  PROVE  Kept(m, m3)
BY DEF Kept

\* The fields of a master.
LEMMA Fields ==
  ASSUME NEW m \in MasterType
  PROVE  /\ m.read \subseteq Conn
         /\ m.ready \in Seq(Thread)
         /\ m.timer \in Seq(Timer)
         /\ m.left \in [Timer -> Nat]
         /\ m.event \in Seq(Thread)
         /\ m.fetched \in Thread \cup {None}
         /\ m.freed \in BOOLEAN
BY DEF MasterType

\* A master with one field changed.
LEMMA ReadyFields ==
  ASSUME NEW m \in MasterType, NEW x \in Seq(Thread)
  PROVE  LET m2 == [m EXCEPT !.ready = x]
         IN  /\ m2 \in MasterType /\ m2.ready = x
             /\ m2.read = m.read /\ m2.timer = m.timer /\ m2.left = m.left
             /\ m2.event = m.event /\ m2.fetched = m.fetched /\ m2.freed = m.freed
BY DEF MasterType

LEMMA EventFields ==
  ASSUME NEW m \in MasterType, NEW x \in Seq(Thread)
  PROVE  LET m2 == [m EXCEPT !.event = x]
         IN  /\ m2 \in MasterType /\ m2.event = x
             /\ m2.read = m.read /\ m2.timer = m.timer /\ m2.left = m.left
             /\ m2.ready = m.ready /\ m2.fetched = m.fetched /\ m2.freed = m.freed
BY DEF MasterType

LEMMA FetchFields ==
  ASSUME NEW m \in MasterType, NEW x \in Thread \cup {None}
  PROVE  LET m2 == Fetch(m, x)
         IN  /\ m2 \in MasterType /\ m2.fetched = x /\ m2.freed = FALSE
             /\ m2.read = m.read /\ m2.timer = m.timer /\ m2.left = m.left
             /\ m2.ready = m.ready /\ m2.event = m.event
BY DEF MasterType, Fetch

\* BGP_WRITE_ON
LEMMA WriteOnOK ==
  ASSUME NEW m, MasterOK(m), NEW c \in Conn
  PROVE  MasterOK(WriteOn(m, c)) /\ Kept(m, WriteOn(m, c))
<1> DEFINE x == Append(m.ready, Write(c))
           m2 == [m EXCEPT !.ready = x]
<1>1. CASE On(m, Write(c))
  BY <1>1 DEF WriteOn, Kept
<1>2. CASE ~On(m, Write(c))
  <2>1. m \in MasterType /\ m.ready \in Seq(Thread) /\ Write(c) \in Thread
    BY Fields, Threads DEF MasterOK
  <2>2. x \in Seq(Thread) /\ Range(x) = Range(m.ready) \cup {Write(c)}
    BY <2>1, RangeAppend, AppendProperties
  <2>3. ASSUME NEW d \in Conn, Once(m.ready, Read(d)) PROVE Once(x, Read(d))
    BY <2>1, <2>3, Threads, OnceAppend
  <2> HIDE DEF x
  <2>4. /\ m2 \in MasterType /\ m2.ready = x
        /\ m2.read = m.read /\ m2.timer = m.timer /\ m2.left = m.left
        /\ m2.event = m.event /\ m2.fetched = m.fetched /\ m2.freed = m.freed
    BY <2>1, <2>2, ReadyFields
  <2> HIDE DEF m2
  <2>5. \A d \in Conn : Read(d) \in Range(x) <=> Read(d) \in Range(m.ready)
    BY <2>2, Threads
  <2>6. MasterOK(m2)
    BY <2>2, <2>3, <2>4, <2>5, Threads DEF MasterOK, ReadOnce, On, IsFetched
  <2>7. Kept(m, m2)
    BY <2>4, <2>5 DEF Kept, On, IsFetched
  <2>8. WriteOn(m, c) = m2
    BY <1>2 DEF WriteOn, m2, x
  <2> QED
    BY <2>6, <2>7, <2>8
<1> QED
  BY <1>1, <1>2

\* BGP_EVENT_ADD, also of an event that opens a session
LEMMA EventAddFacts ==
  ASSUME NEW m, MasterOK(m), NEW c \in Conn, NEW e \in Event
  PROVE  LET th == [func |-> e, arg |-> c]
             m2 == EventAdd(m, c, e)
         IN  /\ MasterOK(m2)
             /\ m2.fetched = m.fetched /\ m2.read = m.read
             /\ \A d \in Conn : On(m2, Read(d)) <=> On(m, Read(d))
             /\ Range(m2.event) = Range(m.event) \cup {th}
             /\ m2.timer = m.timer /\ m2.left = m.left /\ m2.freed = m.freed
<1> DEFINE th == [func |-> e, arg |-> c]
           x == Append(m.event, th)
           m2 == [m EXCEPT !.event = x]
<1>1. m \in MasterType /\ m.event \in Seq(Thread) /\ th \in EventThread /\ th \in Thread
  BY Fields, Threads DEF MasterOK, EventThread
<1>2. EventAdd(m, c, e) = m2
  BY DEF EventAdd
<1> HIDE DEF th
<1>3. x \in Seq(Thread) /\ Range(x) = Range(m.event) \cup {th}
  BY <1>1, RangeAppend, AppendProperties
<1> HIDE DEF x
<1>4. /\ m2 \in MasterType /\ m2.event = x
      /\ m2.read = m.read /\ m2.timer = m.timer /\ m2.left = m.left
      /\ m2.ready = m.ready /\ m2.fetched = m.fetched /\ m2.freed = m.freed
  BY <1>1, <1>3, EventFields
<1> HIDE DEF m2
<1>5. MasterOK(m2)
  BY <1>1, <1>3, <1>4 DEF MasterOK, ReadOnce, On, IsFetched
<1>6. \A d \in Conn : On(m2, Read(d)) <=> On(m, Read(d))
  BY <1>4 DEF On, IsFetched
<1> QED
  BY <1>2, <1>3, <1>4, <1>5, <1>6 DEF th

LEMMA EventAddOK ==
  ASSUME NEW m, MasterOK(m), NEW c \in Conn, NEW e \in {"stop", "other"}
  PROVE  MasterOK(EventAdd(m, c, e)) /\ Kept(m, EventAdd(m, c, e))
<1> DEFINE th == [func |-> e, arg |-> c]
           m2 == EventAdd(m, c, e)
<1>1. e \in Event
  BY DEF Event
<1>2. /\ MasterOK(m2)
      /\ m2.fetched = m.fetched /\ m2.read = m.read
      /\ \A d \in Conn : On(m2, Read(d)) <=> On(m, Read(d))
      /\ Range(m2.event) = Range(m.event) \cup {th}
  BY <1>1, EventAddFacts
<1>3. \A d \in Conn : Opened(d) # th
  BY DEF Opened
<1> HIDE DEF m2, th
<1> QED
  BY <1>2, <1>3 DEF Kept, m2

\* Other timers in their order, and nothing else.
LEMMA TimersOnly ==
  ASSUME NEW m, MasterOK(m), NEW m2 \in MasterType,
         Ordered(m2.timer, m2.left),
         m2.read = m.read, m2.ready = m.ready, m2.event = m.event,
         m2.fetched = m.fetched, m2.freed = m.freed
  PROVE  MasterOK(m2) /\ Kept(m, m2)
<1>1. MasterOK(m2)
  BY DEF MasterOK, ReadOnce, On, IsFetched
<1>2. Kept(m, m2)
  BY DEF Kept, On, IsFetched
<1> QED
  BY <1>1, <1>2

\* BGP_TIMER_ON
LEMMA TimerOnOK ==
  ASSUME NEW m, MasterOK(m), NEW t \in Timer, NEW d \in Nat
  PROVE  MasterOK(TimerOn(m, t, d)) /\ Kept(m, TimerOn(m, t, d))
<1>1. CASE t \in Range(m.timer) \/ On(m, TimerThread(t))
  BY <1>1 DEF TimerOn, Kept
<1>2. CASE ~(t \in Range(m.timer) \/ On(m, TimerThread(t)))
  <2> DEFINE n == Before(m, d)
             x == InsertAt(m.timer, n, t)
             l == [m.left EXCEPT ![t] = d]
             m2 == [m EXCEPT !.timer = x, !.left = l]
  <2>1. m \in MasterType /\ m.timer \in Seq(Timer) /\ m.left \in [Timer -> Nat]
    BY Fields DEF MasterOK
  <2>2. \A e \in Timer : m.left[e] \in Nat
    BY <2>1
  <2>3. /\ n \in 1..(Len(m.timer) + 1)
        /\ \A i \in 1..(n - 1) : m.left[m.timer[i]] < d
        /\ n \in 1..Len(m.timer) => d <= m.left[m.timer[n]]
    BY <2>1, <2>2, BeforeFacts
  <2>4. l \in [Timer -> Nat] /\ l[t] = d /\ \A e \in Range(m.timer) : l[e] = m.left[e]
    <3>1. Range(m.timer) \subseteq Timer
      BY <2>1, RangeFacts
    <3> QED
      BY <1>2, <2>1, <3>1
  <2>5. Ordered(m.timer, m.left)
    BY DEF MasterOK
  <2>6. TimerOn(m, t, d) = m2
    BY <1>2 DEF TimerOn
  <2> HIDE DEF n, l
  <2>7. Ordered(x, l) /\ x \in Seq(Timer)
    <3>1. Ordered(x, l)
      BY <1>2, <2>1, <2>2, <2>3, <2>4, <2>5, InsertOrdered
    <3>2. x \in Seq(Timer)
      BY <2>1, <2>3, InsertFacts
    <3> QED
      BY <3>1, <3>2
  <2> HIDE DEF x
  <2>8. /\ m2 \in MasterType /\ m2.timer = x /\ m2.left = l
        /\ m2.read = m.read /\ m2.ready = m.ready
        /\ m2.event = m.event /\ m2.fetched = m.fetched /\ m2.freed = m.freed
    BY <2>1, <2>4, <2>7 DEF MasterType
  <2> HIDE DEF m2
  <2>9. MasterOK(m2) /\ Kept(m, m2)
    BY <2>7, <2>8, TimersOnly
  <2> QED
    BY <2>6, <2>9
<1> QED
  BY <1>1, <1>2

\* A master without the threads X among those that are ready.
LEMMA ReadyWithout ==
  ASSUME NEW m, MasterOK(m), NEW m2 \in MasterType, NEW X,
         m2.ready = Without(m.ready, X),
         Ordered(m2.timer, m2.left),
         m2.read \subseteq m.read, Range(m2.event) \subseteq Range(m.event),
         m2.fetched = m.fetched,
         m2.freed => m.freed \/ \E t \in Timer : m.fetched = TimerThread(t)
  PROVE  /\ MasterOK(m2)
         /\ \A c \in Conn : On(m2, Read(c)) => On(m, Read(c))
         /\ \A c \in Conn : On(m, Read(c)) /\ Read(c) \notin X => On(m2, Read(c))
<1>1. m \in MasterType /\ m.ready \in Seq(Thread) /\ m2.ready \in Seq(Thread)
  BY Fields DEF MasterOK
<1>2. Range(m2.ready) = Range(m.ready) \ X /\ Follows(m2.ready, m.ready)
  BY <1>1, WithoutFacts
<1>3. \A c \in Conn : Once(m2.ready, Read(c))
  <2> TAKE c \in Conn
  <2>1. Once(m.ready, Read(c))
    BY DEF MasterOK, ReadOnce
  <2>2. Len(m.ready) \in Nat /\ Len(m2.ready) \in Nat
    BY <1>1
  <2> QED
    BY <1>2, <2>1, <2>2, OnceFollows
<1>4. \A t \in Timer : \A c \in Conn : TimerThread(t) # Read(c)
  BY Threads
<1>5. /\ m2.freed => \E t \in Timer : m2.fetched = TimerThread(t)
      /\ m.freed => \E t \in Timer : m.fetched = TimerThread(t)
  BY DEF MasterOK
<1>6. \A c \in Conn : IsFetched(m2, Read(c)) <=> IsFetched(m, Read(c))
  BY <1>4, <1>5 DEF IsFetched
<1>7. \A c \in Conn : On(m2, Read(c)) => On(m, Read(c))
  BY <1>2, <1>6 DEF On
<1>8. \A c \in Conn : On(m, Read(c)) /\ Read(c) \notin X => On(m2, Read(c))
  BY <1>2, <1>6 DEF On
<1>9. MasterOK(m2)
  BY <1>2, <1>3, <1>5, <1>7 DEF MasterOK, ReadOnce
<1> QED
  BY <1>7, <1>8, <1>9

\* BGP_TIMER_OFF, of any set of timers
LEMMA TimersOffOK ==
  ASSUME NEW m, MasterOK(m), NEW off \in SUBSET Timer
  PROVE  MasterOK(TimersOff(m, off)) /\ Kept(m, TimersOff(m, off))
<1> DEFINE x == Without(m.timer, off)
           l == [t \in Timer |-> IF t \in off THEN 0 ELSE m.left[t]]
           X == {TimerThread(t) : t \in off}
           y == Without(m.ready, X)
           f == m.freed \/ \E t \in off : m.fetched = TimerThread(t)
           m2 == TimersOff(m, off)
<1>1. /\ m \in MasterType /\ m.timer \in Seq(Timer) /\ m.left \in [Timer -> Nat]
      /\ m.ready \in Seq(Thread) /\ m.freed \in BOOLEAN
  BY Fields DEF MasterOK
<1>2. x \in Seq(Timer) /\ Range(x) = Range(m.timer) \ off /\ Follows(x, m.timer)
  BY <1>1, WithoutFacts
<1>3. l \in [Timer -> Nat] /\ \A e \in Range(x) : l[e] = m.left[e]
  <2>1. Range(m.timer) \subseteq Timer
    BY <1>1, RangeFacts
  <2> QED
    BY <1>1, <1>2, <2>1
<1>4. y \in Seq(Thread)
  BY <1>1, WithoutFacts
<1>5. f \in BOOLEAN
  BY <1>1
<1>6. m2 = [m EXCEPT !.timer = x, !.left = l, !.ready = y, !.freed = f]
  BY DEF TimersOff
<1>7. Ordered(x, l)
  <2>1. Ordered(m.timer, m.left)
    BY DEF MasterOK
  <2> DEFINE s == m.timer
             k == m.left
  <2>2. /\ x \in Seq(Timer) /\ s \in Seq(Timer) /\ Follows(x, s) /\ Ordered(s, k)
        /\ \A e \in Range(x) : l[e] = k[e]
    BY <1>1, <1>2, <1>3, <2>1
  <2> HIDE DEF x, l, s, k
  <2> QED
    BY <2>2, OrderedFollows
<1>8. /\ m2 \in MasterType /\ m2.timer = x /\ m2.left = l /\ m2.ready = y
      /\ m2.read = m.read /\ m2.event = m.event /\ m2.fetched = m.fetched /\ m2.freed = f
  <2> HIDE DEF x, l, y, f, m2
  <2> QED
    BY <1>1, <1>2, <1>3, <1>4, <1>5, <1>6 DEF MasterType
<1>9. m2.freed => m.freed \/ \E t \in Timer : m.fetched = TimerThread(t)
  BY <1>8
<1>10. m2.ready = Without(m.ready, X)
  BY <1>8
<1>11. Ordered(m2.timer, m2.left)
  BY <1>7, <1>8
<1>12. \A c \in Conn : Read(c) \notin X
  BY Threads
<1> HIDE DEF m2, X
<1>13. /\ MasterOK(m2)
       /\ \A c \in Conn : On(m2, Read(c)) => On(m, Read(c))
       /\ \A c \in Conn : On(m, Read(c)) /\ Read(c) \notin X => On(m2, Read(c))
  BY <1>8, <1>9, <1>10, <1>11, ReadyWithout
<1>14. Kept(m, m2)
  BY <1>8, <1>12, <1>13 DEF Kept
<1> QED
  BY <1>13, <1>14 DEF m2

\* Whatever a handler or a command may do, and what happens after it.
LEMMA EffectsOK ==
  ASSUME NEW m, MasterOK(m), NEW m2 \in Effects(m)
  PROVE  MasterOK(m2) /\ Kept(m, m2)
<1>1. ASSUME NEW c \in Conn, m2 = WriteOn(m, c) PROVE MasterOK(m2) /\ Kept(m, m2)
  BY <1>1, WriteOnOK
<1>2. ASSUME NEW c \in Conn, NEW e \in {"stop", "other"}, m2 = EventAdd(m, c, e)
      PROVE  MasterOK(m2) /\ Kept(m, m2)
  BY <1>2, EventAddOK
<1>3. ASSUME NEW t \in Timer, NEW d \in Wait, m2 = TimerOn(m, t, d)
      PROVE  MasterOK(m2) /\ Kept(m, m2)
  <2>1. d \in Nat
    BY TimerAssumption
  <2> QED
    BY <1>3, <2>1, TimerOnOK
<1>4. ASSUME NEW t \in Timer, m2 = TimersOff(m, {t}) PROVE MasterOK(m2) /\ Kept(m, m2)
  <2>1. {t} \in SUBSET Timer
    OBVIOUS
  <2> QED
    BY <1>4, <2>1, TimersOffOK
<1>5. \/ \E c \in Conn : m2 = WriteOn(m, c)
      \/ \E c \in Conn, e \in {"stop", "other"} : m2 = EventAdd(m, c, e)
      \/ \E t \in Timer, d \in Wait : m2 = TimerOn(m, t, d)
      \/ \E t \in Timer : m2 = TimersOff(m, {t})
  BY DEF Effects
<1> QED
  BY <1>1, <1>2, <1>3, <1>4, <1>5

LEMMA AffectedOK ==
  ASSUME NEW m, MasterOK(m), NEW m2, Affected(m, m2), effects \in 0..MaxEffects
  PROVE  MasterOK(m2) /\ Kept(m, m2) /\ effects' \in 0..MaxEffects
<1>1. CASE m2 = m /\ UNCHANGED effects
  BY <1>1 DEF Kept
<1>2. CASE effects < MaxEffects /\ m2 \in Effects(m) /\ effects' = effects + 1
  <2>1. MasterOK(m2) /\ Kept(m, m2)
    BY <1>2, EffectsOK
  <2>2. effects' \in 0..MaxEffects
    BY <1>2, BoundAssumption
  <2> QED
    BY <2>1, <2>2
<1> QED
  BY <1>1, <1>2 DEF Affected

\* A pointer to a read thread is set as long as the thread is somewhere.
LEMMA OnIs ==
  ASSUME NEW m, MasterOK(m), NEW c \in Conn
  PROVE  On(m, Read(c)) <=> Read(c) \in Range(m.ready) \/ m.fetched = Read(c)
<1>1. m.freed => \E t \in Timer : m.fetched = TimerThread(t)
  BY DEF MasterOK
<1>2. \A t \in Timer : TimerThread(t) # Read(c)
  BY Threads
<1> QED
  BY <1>1, <1>2 DEF On, IsFetched

\* BGP_READ_ON
LEMMA ReadOnFacts ==
  ASSUME NEW m, MasterOK(m), NEW c \in Conn
  PROVE  LET m2 == ReadOn(m, c)
         IN  /\ MasterOK(m2)
             /\ m2.fetched = m.fetched /\ m2.event = m.event
             /\ \A d \in Conn : On(m2, Read(d)) <=> On(m, Read(d))
             /\ c \in m2.read \/ On(m2, Read(c))
             /\ \A d \in Conn : d # c => (d \in m2.read <=> d \in m.read)
<1>1. CASE On(m, Read(c))
  BY <1>1 DEF ReadOn
<1>2. CASE ~On(m, Read(c))
  <2> DEFINE m2 == [m EXCEPT !.read = @ \cup {c}]
  <2>1. m \in MasterType /\ m.read \subseteq Conn
    BY Fields DEF MasterOK
  <2>2. /\ m2 \in MasterType /\ m2.read = m.read \cup {c}
        /\ m2.ready = m.ready /\ m2.timer = m.timer /\ m2.left = m.left
        /\ m2.event = m.event /\ m2.fetched = m.fetched /\ m2.freed = m.freed
    BY <2>1 DEF MasterType
  <2>3. ReadOn(m, c) = m2
    BY <1>2 DEF ReadOn
  <2> HIDE DEF m2
  <2>4. \A th : On(m2, th) <=> On(m, th)
    BY <2>2 DEF On, IsFetched
  <2>5. MasterOK(m2)
    BY <1>2, <2>2, <2>4 DEF MasterOK, ReadOnce
  <2> QED
    BY <2>2, <2>3, <2>4, <2>5
<1> QED
  BY <1>1, <1>2

\* BGP_READ_OFF, while no thread runs
LEMMA ReadOffFacts ==
  ASSUME NEW m, MasterOK(m), m.fetched = None, NEW c \in Conn
  PROVE  LET m2 == ReadOff(m, c)
         IN  /\ MasterOK(m2)
             /\ m2.fetched = None /\ m2.event = m.event
             /\ \A d \in Conn : On(m2, Read(d)) <=> d # c /\ On(m, Read(d))
             /\ m2.read = m.read \ {c}
<1> DEFINE m2 == ReadOff(m, c)
           y == Without(m.ready, {Read(c)})
<1>1. m \in MasterType /\ m.ready \in Seq(Thread)
  BY Fields DEF MasterOK
<1>2. y \in Seq(Thread) /\ Range(y) = Range(m.ready) \ {Read(c)}
  BY <1>1, WithoutFacts
<1>3. m.fetched # Read(c)
  BY Threads
<1>4. m2 = [m EXCEPT !.read = @ \ {c}, !.ready = y, !.freed = @ \/ m.fetched = Read(c)]
  BY DEF ReadOff
<1>5. /\ m2 \in MasterType /\ m2.read = m.read \ {c} /\ m2.ready = y
      /\ m2.timer = m.timer /\ m2.left = m.left
      /\ m2.event = m.event /\ m2.fetched = m.fetched /\ (m2.freed => m.freed)
  <2> HIDE DEF m2, y
  <2> QED
    BY <1>1, <1>2, <1>3, <1>4 DEF MasterType
<1>6. m2.ready = Without(m.ready, {Read(c)}) /\ m2.freed => m.freed
  BY <1>5
<1>7. m2.ready = Without(m.ready, {Read(c)})
  BY <1>5
<1> HIDE DEF m2
<1>8. Ordered(m2.timer, m2.left)
  BY <1>5 DEF MasterOK
<1>9. /\ MasterOK(m2)
      /\ \A d \in Conn : On(m2, Read(d)) => On(m, Read(d))
      /\ \A d \in Conn : On(m, Read(d)) /\ Read(d) \notin {Read(c)} => On(m2, Read(d))
  BY <1>5, <1>7, <1>8, ReadyWithout
<1>10. \A d \in Conn : d # c => Read(d) \notin {Read(c)}
  BY Threads
<1>11. ~On(m2, Read(c))
  <2>1. Read(c) \notin Range(m2.ready) /\ m2.fetched # Read(c)
    BY <1>2, <1>3, <1>5
  <2> QED
    BY <2>1 DEF On, IsFetched
<1> QED
  BY <1>5, <1>9, <1>10, <1>11 DEF m2

\* thread_cancel_event
LEMMA EventDeleteFacts ==
  ASSUME NEW m, MasterOK(m), NEW c \in Conn
  PROVE  LET m2 == EventDelete(m, c)
         IN  /\ MasterOK(m2)
             /\ m2.fetched = m.fetched /\ m2.read = m.read
             /\ \A d \in Conn : On(m2, Read(d)) <=> On(m, Read(d))
             /\ Opened(c) \notin Range(m2.event)
             /\ \A d \in Conn : d # c =>
                  /\ Opened(d) \in Range(m2.event) <=> Opened(d) \in Range(m.event)
                  /\ Stop(d) \in Range(m2.event) <=> Stop(d) \in Range(m.event)
<1> DEFINE X == [func : Event, arg : {c}]
           x == Without(m.event, X)
           m2 == EventDelete(m, c)
<1>1. m \in MasterType /\ m.event \in Seq(Thread)
  BY Fields DEF MasterOK
<1>2. m2 = [m EXCEPT !.event = x]
  BY DEF EventDelete
<1>3. Opened(c) \in X /\ \A d \in Conn : d # c => Opened(d) \notin X /\ Stop(d) \notin X
  BY DEF Opened, Stop, Event
<1> HIDE DEF X
<1>4. x \in Seq(Thread) /\ Range(x) = Range(m.event) \ X
  BY <1>1, WithoutFacts
<1> HIDE DEF x
<1>5. /\ m2 \in MasterType /\ m2.event = x
      /\ m2.read = m.read /\ m2.timer = m.timer /\ m2.left = m.left
      /\ m2.ready = m.ready /\ m2.fetched = m.fetched /\ m2.freed = m.freed
  BY <1>1, <1>4, <1>2, EventFields
<1> HIDE DEF m2
<1>6. MasterOK(m2)
  BY <1>4, <1>5 DEF MasterOK, ReadOnce, On, IsFetched
<1>7. \A d \in Conn : On(m2, Read(d)) <=> On(m, Read(d))
  BY <1>5 DEF On, IsFetched
<1> QED
  BY <1>4, <1>3, <1>5, <1>6, <1>7 DEF m2

\* The fetched thread runs: it is on no list any more.
LEMMA RunningFacts ==
  ASSUME NEW m, MasterOK(m)
  PROVE  LET r == Fetch(m, None)
         IN  /\ MasterOK(r)
             /\ r.fetched = None /\ r.read = m.read /\ r.event = m.event
             /\ r.timer = m.timer /\ r.left = m.left
             /\ \A c \in Conn :
                  On(r, Read(c)) <=> On(m, Read(c)) /\ m.fetched # Read(c)
<1> DEFINE r == Fetch(m, None)
<1>1. m \in MasterType
  BY DEF MasterOK
<1>2. /\ r \in MasterType /\ r.fetched = None /\ r.freed = FALSE
      /\ r.read = m.read /\ r.timer = m.timer /\ r.left = m.left
      /\ r.ready = m.ready /\ r.event = m.event
  BY <1>1, FetchFields
<1> HIDE DEF r
<1>3. \A c \in Conn : Read(c) # None
  BY Threads
<1>4. \A c \in Conn : On(r, Read(c)) <=> Read(c) \in Range(m.ready)
  BY <1>2, <1>3 DEF On, IsFetched
<1>5. \A c \in Conn :
        /\ On(m, Read(c)) <=> Read(c) \in Range(m.ready) \/ m.fetched = Read(c)
        /\ m.fetched = Read(c) => Read(c) \notin Range(m.ready)
  BY OnIs DEF MasterOK, ReadOnce
<1>6. MasterOK(r)
  BY <1>2, <1>3, <1>4, <1>5 DEF MasterOK, ReadOnce
<1> QED
  BY <1>2, <1>4, <1>5, <1>6 DEF r

\* The first event is fetched.
LEMMA TakeEvent ==
  ASSUME NEW m, MasterOK(m), m.fetched = None, m.event # << >>
  PROVE  LET m2 == [Fetch(m, Head(m.event)) EXCEPT !.event = Tail(@)]
         IN  /\ MasterOK(m2)
             /\ m2.fetched \in EventThread /\ m2.read = m.read
             /\ Range(m.event) = Range(m2.event) \cup {m2.fetched}
             /\ \A c \in Conn : On(m2, Read(c)) <=> On(m, Read(c))
<1> DEFINE h == Head(m.event)
           x == Tail(m.event)
           f == Fetch(m, h)
           m2 == [f EXCEPT !.event = Tail(@)]
<1>1. m \in MasterType /\ m.event \in Seq(Thread) /\ Range(m.event) \subseteq EventThread
  BY Fields DEF MasterOK
<1>2. /\ x \in Seq(Thread) /\ h \in Thread
      /\ Range(m.event) = Range(x) \cup {h}
  BY <1>1, RangeTail
<1> HIDE DEF h
<1>3. /\ f \in MasterType /\ f.fetched = h /\ f.freed = FALSE
      /\ f.read = m.read /\ f.timer = m.timer /\ f.left = m.left
      /\ f.ready = m.ready /\ f.event = m.event
  BY <1>1, <1>2, FetchFields
<1>4. m2 = [f EXCEPT !.event = x]
  BY <1>3
<1> HIDE DEF f, x, m2
<1>5. /\ m2 \in MasterType /\ m2.event = x
      /\ m2.read = m.read /\ m2.timer = m.timer /\ m2.left = m.left
      /\ m2.ready = m.ready /\ m2.fetched = h /\ m2.freed = FALSE
  BY <1>2, <1>3, <1>4 DEF MasterType
<1>6. \A c \in Conn : Read(c) # None /\ Read(c) # h
  BY <1>1, <1>2, Threads
<1>7. \A c \in Conn : On(m2, Read(c)) <=> On(m, Read(c))
  BY <1>5, <1>6 DEF On, IsFetched
<1>8. MasterOK(m2)
  BY <1>1, <1>2, <1>5, <1>6, <1>7 DEF MasterOK, ReadOnce
<1> QED
  BY <1>1, <1>2, <1>5, <1>7, <1>8 DEF m2, f, h

\* The first thread that is ready is fetched.
LEMMA TakeReady ==
  ASSUME NEW m, MasterOK(m), m.fetched = None, m.ready # << >>,
         NEW m2, m2 = [Fetch(m, Head(m.ready)) EXCEPT !.ready = Tail(@)]
  PROVE  /\ MasterOK(m2)
         /\ m2.fetched \in Thread /\ m2.fetched \notin EventThread
         /\ m2.read = m.read /\ m2.event = m.event
         /\ m2.timer = m.timer /\ m2.left = m.left
         /\ \A c \in Conn : On(m2, Read(c)) <=> On(m, Read(c))
<1> DEFINE h == Head(m.ready)
           x == Tail(m.ready)
           f == Fetch(m, h)
<1>1. m \in MasterType /\ m.ready \in Seq(Thread)
  BY Fields DEF MasterOK
<1>2. /\ x \in Seq(Thread) /\ h \in Thread
      /\ Range(m.ready) = Range(x) \cup {h}
  BY <1>1, RangeTail
<1>3. \A c \in Conn : Once(x, Read(c)) /\ (h = Read(c) => Read(c) \notin Range(x))
  BY <1>1, OnceTail DEF MasterOK, ReadOnce
<1>0. m2 = [f EXCEPT !.ready = Tail(@)]
  OBVIOUS
<1> HIDE DEF h
<1>4. /\ f \in MasterType /\ f.fetched = h /\ f.freed = FALSE
      /\ f.read = m.read /\ f.timer = m.timer /\ f.left = m.left
      /\ f.ready = m.ready /\ f.event = m.event
  BY <1>1, <1>2, FetchFields
<1>5. m2 = [f EXCEPT !.ready = x]
  BY <1>0, <1>4
<1> HIDE DEF f, x
<1>6. /\ m2 \in MasterType /\ m2.ready = x
      /\ m2.read = m.read /\ m2.timer = m.timer /\ m2.left = m.left
      /\ m2.event = m.event /\ m2.fetched = h /\ m2.freed = FALSE
  BY <1>2, <1>4, <1>5 DEF MasterType
<1>7. \A c \in Conn : Read(c) # None
  BY Threads
<1>8. \A c \in Conn : On(m2, Read(c)) <=> On(m, Read(c))
  BY <1>2, <1>6, <1>7 DEF On, IsFetched
<1>9. MasterOK(m2)
  BY <1>2, <1>3, <1>6, <1>8 DEF MasterOK, ReadOnce
<1>10. h \notin EventThread
  BY <1>2 DEF MasterOK
<1> QED
  BY <1>2, <1>6, <1>8, <1>9, <1>10

\* Who listens to the agent becomes ready.
LEMMA HeardFacts ==
  ASSUME NEW m, MasterOK(m), m.fetched = None
  PROVE  LET m2 == Heard(m)
         IN  /\ MasterOK(m2)
             /\ m2.fetched = None /\ m2.event = m.event
             /\ m2.timer = m.timer /\ m2.left = m.left
             /\ m2.read = m.read \ {InterruptAgent}
             /\ \A c \in Conn : On(m2, Read(c)) <=>
                  On(m, Read(c)) \/ (c = InterruptAgent /\ c \in m.read)
<1> DEFINE m2 == Heard(m)
<1>1. CASE InterruptAgent \notin m.read
  BY <1>1 DEF Heard
<1>2. CASE InterruptAgent \in m.read
  <2> DEFINE a == InterruptAgent
             x == Append(m.ready, Read(a))
  <2>1. m \in MasterType /\ m.read \subseteq Conn /\ m.ready \in Seq(Thread)
    BY Fields DEF MasterOK
  <2>2. a \in Conn /\ Read(a) \in Thread
    BY <1>2, <2>1, Threads
  <2>3. ~On(m, Read(a))
    BY <1>2, <2>2 DEF MasterOK, ReadOnce
  <2>4. Read(a) \notin Range(m.ready)
    BY <2>3 DEF On
  <2>5. x \in Seq(Thread) /\ Range(x) = Range(m.ready) \cup {Read(a)}
    BY <2>1, <2>2, RangeAppend, AppendProperties
  <2>6. ASSUME NEW c \in Conn PROVE Once(x, Read(c))
    <3>1. Once(m.ready, Read(c))
      BY DEF MasterOK, ReadOnce
    <3>2. Read(a) = Read(c) => Read(c) \notin Range(m.ready)
      BY <2>4
    <3> QED
      BY <2>1, <2>2, <3>1, <3>2, OnceAppend
  <2>7. m2 = [m EXCEPT !.read = @ \ {a}, !.ready = x]
    BY <1>2 DEF Heard
  <2> HIDE DEF x
  <2>8. /\ m2 \in MasterType /\ m2.ready = x /\ m2.read = m.read \ {a}
        /\ m2.timer = m.timer /\ m2.left = m.left
        /\ m2.event = m.event /\ m2.fetched = m.fetched /\ m2.freed = m.freed
    <3> HIDE DEF m2
    <3> QED
      BY <2>1, <2>5, <2>7 DEF MasterType
  <2> HIDE DEF m2
  <2>9. \A c \in Conn : Read(c) # None /\ (Read(c) = Read(a) <=> c = a)
    BY <2>2, Threads
  <2>10. \A c \in Conn : On(m2, Read(c)) <=> On(m, Read(c)) \/ c = a
    BY <2>5, <2>8, <2>9 DEF On, IsFetched
  <2>11. MasterOK(m2)
    BY <2>2, <2>5, <2>6, <2>8, <2>9, <2>10, Threads DEF MasterOK, ReadOnce
  <2> QED
    BY <1>2, <2>8, <2>10, <2>11 DEF m2
<1> QED
  BY <1>1, <1>2

\* The timers that are due become ready.
LEMMA DueFacts ==
  ASSUME NEW m, MasterOK(m), m.fetched = None
  PROVE  LET m2 == Due(m)
         IN  /\ MasterOK(m2)
             /\ m2.fetched = None /\ m2.event = m.event /\ m2.read = m.read
             /\ m2.left = m.left /\ Range(m2.timer) \subseteq Range(m.timer)
             /\ \A c \in Conn : On(m2, Read(c)) <=> On(m, Read(c))
<1> DEFINE due == {t \in Timer : m.left[t] = 0}
           late == Without(m.timer, Timer \ due)
           x == Without(m.timer, due)
           ths == [i \in 1..Len(late) |-> TimerThread(late[i])]
           y == Cat(m.ready, ths)
           m2 == Due(m)
<1>1. /\ m \in MasterType /\ m.ready \in Seq(Thread) /\ m.timer \in Seq(Timer)
      /\ m.left \in [Timer -> Nat]
  BY Fields DEF MasterOK
<1>2. late \in Seq(Timer)
  BY <1>1, WithoutFacts
<1>3. x \in Seq(Timer) /\ Range(x) = Range(m.timer) \ due /\ Follows(x, m.timer)
  BY <1>1, WithoutFacts
<1> HIDE DEF due, late, x
<1>4. ths \in Seq(Thread) /\ \A th \in Range(ths) : \E t \in Timer : th = TimerThread(t)
  <2>1. Len(late) \in Nat /\ \A i \in 1..Len(late) : late[i] \in Timer
    BY <1>2
  <2>2. \A i \in 1..Len(late) : TimerThread(late[i]) \in Thread
    BY <2>1, Threads
  <2>3. ths \in Seq(Thread)
    BY <2>1, <2>2
  <2>4. \A th \in Range(ths) : \E i \in 1..Len(late) : th = TimerThread(late[i])
    BY DEF Range
  <2> QED
    BY <2>1, <2>3, <2>4
<1>5. m2 = [m EXCEPT !.timer = x, !.ready = y]
  BY DEF Due, due, late, x, Cat
<1> HIDE DEF ths
<1>6. y \in Seq(Thread) /\ Range(y) = Range(m.ready) \cup Range(ths)
  BY <1>1, <1>4, RangeCat
<1>7. \A c \in Conn : Read(c) \notin Range(ths)
  BY <1>4, Threads
<1>8. ASSUME NEW c \in Conn PROVE Once(y, Read(c))
  <2>1. Once(m.ready, Read(c))
    BY DEF MasterOK, ReadOnce
  <2> QED
    BY <1>1, <1>4, <1>7, <2>1, OnceCat
<1> HIDE DEF y
<1>9. /\ m2 \in MasterType /\ m2.ready = y /\ m2.timer = x
      /\ m2.read = m.read /\ m2.left = m.left
      /\ m2.event = m.event /\ m2.fetched = m.fetched /\ m2.freed = m.freed
  <2> HIDE DEF m2
  <2> QED
    BY <1>1, <1>3, <1>5, <1>6 DEF MasterType
<1> HIDE DEF m2
<1>10. Ordered(x, m.left)
  <2> DEFINE s == m.timer
             l == m.left
  <2>1. s \in Seq(Timer) /\ Ordered(s, l) /\ Follows(x, s)
    BY <1>1, <1>3 DEF MasterOK
  <2> HIDE DEF s, l
  <2>2. Ordered(x, l)
    BY <1>3, <2>1, OrderedFollows
  <2> QED
    BY <2>2 DEF l
<1>11. \A c \in Conn : On(m2, Read(c)) <=> On(m, Read(c))
  BY <1>6, <1>7, <1>9 DEF On, IsFetched
<1>12. Range(y) \cap EventThread = {}
  BY <1>4, <1>6, Threads DEF MasterOK
<1>13. MasterOK(m2)
  BY <1>12, <1>6, <1>7, <1>8, <1>9, <1>10, <1>11 DEF MasterOK, ReadOnce
<1> QED
  BY <1>3, <1>9, <1>11, <1>13 DEF m2

\* Time goes on.
LEMMA TickFacts ==
  ASSUME NEW m, MasterOK(m)
  PROVE  LET m2 == [m EXCEPT !.left = [t \in Timer |-> IF @[t] = 0 THEN 0 ELSE @[t] - 1]]
         IN  /\ MasterOK(m2) /\ Kept(m, m2)
             /\ m2.timer = m.timer /\ m2.event = m.event /\ m2.ready = m.ready
             /\ \A t \in Timer : m2.left[t] = IF m.left[t] = 0 THEN 0 ELSE m.left[t] - 1
<1> DEFINE l == [t \in Timer |-> IF m.left[t] = 0 THEN 0 ELSE m.left[t] - 1]
           m2 == [m EXCEPT !.left = l]
<1>1. m \in MasterType /\ m.timer \in Seq(Timer) /\ m.left \in [Timer -> Nat]
  BY Fields DEF MasterOK
<1>2. \A t \in Timer : m.left[t] \in Nat
  BY <1>1
<1>3. l \in [Timer -> Nat] /\ \A t \in Timer : l[t] = IF m.left[t] = 0 THEN 0 ELSE m.left[t] - 1
  BY <1>2
<1> HIDE DEF l
<1>4. /\ m2 \in MasterType /\ m2.left = l
      /\ m2.read = m.read /\ m2.timer = m.timer /\ m2.ready = m.ready
      /\ m2.event = m.event /\ m2.fetched = m.fetched /\ m2.freed = m.freed
  BY <1>1, <1>3 DEF MasterType
<1>5. Ordered(m.timer, l)
  <2>1. \A i \in 1..Len(m.timer) : m.timer[i] \in Timer
    BY <1>1
  <2>2. ASSUME NEW i \in 1..Len(m.timer), NEW j \in 1..Len(m.timer), i < j
        PROVE  l[m.timer[i]] <= l[m.timer[j]]
    <3>1. m.left[m.timer[i]] <= m.left[m.timer[j]]
      BY <2>2 DEF MasterOK, Ordered
    <3>2. /\ m.left[m.timer[i]] \in Nat /\ m.left[m.timer[j]] \in Nat
          /\ l[m.timer[i]] = IF m.left[m.timer[i]] = 0 THEN 0 ELSE m.left[m.timer[i]] - 1
          /\ l[m.timer[j]] = IF m.left[m.timer[j]] = 0 THEN 0 ELSE m.left[m.timer[j]] - 1
      BY <1>2, <1>3, <2>1
    <3> QED
      BY <3>1, <3>2
  <2> QED
    BY <2>2 DEF Ordered
<1> HIDE DEF m2
<1>6. MasterOK(m2) /\ Kept(m, m2)
  BY <1>4, <1>5, TimersOnly
<1>7. m2 = [m EXCEPT !.left = [t \in Timer |-> IF @[t] = 0 THEN 0 ELSE @[t] - 1]]
  BY DEF m2, l
<1> QED
  BY <1>3, <1>4, <1>6, <1>7

-----------------------------------------------------------------------------
(* Bytes and messages.                                                     *)

\* Messages that come with bytes.
Sized(msgs) == \A i \in 1..Len(msgs) : msgs[i].size \in Nat \ {0}

\* g has the bytes of the first messages, up to n of them.
IsSum(g, msgs, n) == g = [k \in 0..n |-> IF k = 0 THEN 0 ELSE g[k - 1] + msgs[k].size]

\* There is such a function, by induction on n.
LEMMA SumExists ==
  ASSUME NEW msgs, NEW n \in Nat
  PROVE  \E g : IsSum(g, msgs, n)
<1> DEFINE Not == {k \in Nat : ~\E g : IsSum(g, msgs, k)}
<1>1. ASSUME Not # {} PROVE FALSE
  <2>1. Not \in SUBSET Nat
    OBVIOUS
  <2>2. PICK m \in Not : \A k \in Not : m <= k
    <3> HIDE DEF Not
    <3> QED
      BY <1>1, <2>1, Least
  <2>3. CASE m = 0
    <3> DEFINE g == [k \in 0..0 |-> 0]
    <3>1. IsSum(g, msgs, 0)
      BY DEF IsSum
    <3> QED
      BY <2>2, <2>3, <3>1
  <2>4. CASE m # 0
    <3>1. m - 1 \in Nat /\ m - 1 \notin Not
      BY <2>2, <2>4
    <3>2. PICK g : IsSum(g, msgs, m - 1)
      BY <3>1
    <3> DEFINE h == [k \in 0..m |-> IF k = m THEN g[m - 1] + msgs[m].size ELSE g[k]]
    <3>3. \A k \in 0..(m - 1) : g[k] = IF k = 0 THEN 0 ELSE g[k - 1] + msgs[k].size
      BY <3>2 DEF IsSum
    <3>4. \A k \in 0..m : h[k] = IF k = 0 THEN 0 ELSE h[k - 1] + msgs[k].size
      <4> TAKE k \in 0..m
      <4>1. CASE k = m
        BY <2>2, <2>4, <4>1
      <4>2. CASE k # m
        <5>1. k \in 0..(m - 1) /\ h[k] = g[k] /\ (k # 0 => h[k - 1] = g[k - 1])
          BY <2>2, <2>4, <4>2
        <5> HIDE DEF h
        <5> QED
          BY <3>3, <5>1
      <4> QED
        BY <4>1, <4>2
    <3>5. h = [k \in 0..m |-> h[k]]
      OBVIOUS
    <3> HIDE DEF h
    <3>6. IsSum(h, msgs, m)
      BY <3>4, <3>5 DEF IsSum
    <3> QED
      BY <2>2, <3>6
  <2> QED
    BY <2>3, <2>4
<1> QED
  BY <1>1

\* Message by message.
LEMMA BytesStep ==
  ASSUME NEW msgs, Len(msgs) \in Nat
  PROVE  /\ Bytes(msgs, 0) = 0
         /\ \A k \in 1..Len(msgs) : Bytes(msgs, k) = Bytes(msgs, k - 1) + msgs[k].size
<1> DEFINE sum[n \in 0..Len(msgs)] == IF n = 0 THEN 0 ELSE sum[n - 1] + msgs[n].size
<1>0. \E g : IsSum(g, msgs, Len(msgs))
  BY SumExists
<1>1. \E g : g = [n \in 0..Len(msgs) |-> IF n = 0 THEN 0 ELSE g[n - 1] + msgs[n].size]
  BY <1>0 DEF IsSum
<1>2. sum = [n \in 0..Len(msgs) |-> IF n = 0 THEN 0 ELSE sum[n - 1] + msgs[n].size]
  BY <1>1
<1>3. \A k : Bytes(msgs, k) = sum[k]
  BY DEF Bytes
<1> HIDE DEF sum
<1>4. sum[0] = 0
  BY <1>2
<1>5. ASSUME NEW k \in 1..Len(msgs) PROVE sum[k] = sum[k - 1] + msgs[k].size
  <2>1. k \in 0..Len(msgs) /\ k # 0
    OBVIOUS
  <2> QED
    BY <1>2, <2>1
<1> QED
  BY <1>3, <1>4, <1>5

\* The bytes are numbers, and more messages have more bytes.
LEMMA BytesGrow ==
  ASSUME NEW msgs, Len(msgs) \in Nat, Sized(msgs)
  PROVE  /\ \A k \in 0..Len(msgs) : Bytes(msgs, k) \in Nat
         /\ \A j, k \in 0..Len(msgs) : j < k => Bytes(msgs, j) < Bytes(msgs, k)
<1> DEFINE L == Len(msgs)
<1>1. /\ Bytes(msgs, 0) = 0
      /\ \A k \in 1..L : Bytes(msgs, k) = Bytes(msgs, k - 1) + msgs[k].size
      /\ \A k \in 1..L : msgs[k].size \in Nat \ {0}
      /\ L \in Nat
  BY BytesStep DEF Sized
<1> HIDE DEF L
<1> DEFINE P == {k \in 0..L : Bytes(msgs, k) \in Nat}
<1>2. P \subseteq 0..L /\ 0 \in P
  BY <1>1
<1>3. ASSUME NEW k \in 1..L, k - 1 \in P PROVE k \in P
  <2>1. Bytes(msgs, k - 1) \in Nat /\ msgs[k].size \in Nat
    BY <1>1, <1>3
  <2>2. Bytes(msgs, k) = Bytes(msgs, k - 1) + msgs[k].size
    BY <1>1
  <2>3. Bytes(msgs, k) \in Nat
    BY <2>1, <2>2
  <2> QED
    BY <1>1, <2>3
<1>4. \A k \in 0..L : k \in P
  <2> HIDE DEF P
  <2> QED
    BY <1>1, <1>2, <1>3, PickInduction
<1>5. \A k \in 0..L : Bytes(msgs, k) \in Nat
  BY <1>4
<1> DEFINE Q == {k \in 0..L : \A j \in 0..L : j < k => Bytes(msgs, j) < Bytes(msgs, k)}
<1>6. Q \subseteq 0..L /\ 0 \in Q
  BY <1>1
<1>7. ASSUME NEW k \in 1..L, k - 1 \in Q PROVE k \in Q
  <2>1. ASSUME NEW j \in 0..L, j < k PROVE Bytes(msgs, j) < Bytes(msgs, k)
    <3>1. /\ Bytes(msgs, k) = Bytes(msgs, k - 1) + msgs[k].size
          /\ msgs[k].size \in Nat \ {0}
          /\ Bytes(msgs, k - 1) \in Nat /\ Bytes(msgs, j) \in Nat
      BY <1>1, <1>5
    <3>2. j = k - 1 \/ j < k - 1
      BY <2>1
    <3>3. j < k - 1 => Bytes(msgs, j) < Bytes(msgs, k - 1)
      BY <1>7
    <3> QED
      BY <3>1, <3>2, <3>3
  <2> QED
    BY <1>1, <2>1
<1>8. \A k \in 0..L : k \in Q
  <2> HIDE DEF Q
  <2> QED
    BY <1>1, <1>6, <1>7, PickInduction
<1>9. \A j, k \in 0..L : j < k => Bytes(msgs, j) < Bytes(msgs, k)
  BY <1>8
<1> QED
  BY <1>5, <1>9 DEF L

\* Only the messages that are counted matter.
LEMMA BytesSame ==
  ASSUME NEW msgs, NEW ms2, NEW n \in Nat, Len(msgs) \in Nat, Len(ms2) \in Nat,
         n <= Len(msgs), n <= Len(ms2), \A i \in 1..n : msgs[i] = ms2[i]
  PROVE  \A k \in 0..n : Bytes(msgs, k) = Bytes(ms2, k)
<1> DEFINE P == {k \in 0..n : Bytes(msgs, k) = Bytes(ms2, k)}
<1>1. P \subseteq 0..n /\ 0 \in P
  BY BytesStep
<1>2. ASSUME NEW k \in 1..n, k - 1 \in P PROVE k \in P
  <2>1. k \in 1..Len(msgs) /\ k \in 1..Len(ms2)
    OBVIOUS
  <2>2. /\ Bytes(msgs, k) = Bytes(msgs, k - 1) + msgs[k].size
        /\ Bytes(ms2, k) = Bytes(ms2, k - 1) + ms2[k].size
    BY <2>1, BytesStep
  <2> QED
    BY <1>2, <2>2
<1>3. \A k \in 0..n : k \in P
  <2> HIDE DEF P
  <2> QED
    BY <1>1, <1>2, PickInduction
<1> QED
  BY <1>3

\* One message more.
LEMMA BytesAppend ==
  ASSUME NEW S, NEW msgs \in Seq(S), NEW m \in S
  PROVE  LET ms2 == Append(msgs, m)
         IN  Bytes(ms2, Len(ms2)) = Bytes(msgs, Len(msgs)) + m.size
<1> DEFINE ms2 == Append(msgs, m)
           L == Len(msgs)
<1>1. /\ Len(ms2) = L + 1 /\ L \in Nat /\ ms2[L + 1] = m
      /\ \A i \in 1..L : ms2[i] = msgs[i]
  BY AppendProperties
<1> HIDE DEF ms2
<1>2. L \in Nat /\ Len(msgs) \in Nat /\ Len(ms2) \in Nat /\ L <= Len(msgs) /\ L <= Len(ms2)
  BY <1>1
<1>3. \A i \in 1..L : msgs[i] = ms2[i]
  BY <1>1
<1> HIDE DEF L
<1>4. \A k \in 0..L : Bytes(msgs, k) = Bytes(ms2, k)
  BY <1>2, <1>3, BytesSame
<1>5. L + 1 \in 1..Len(ms2) /\ (L + 1) - 1 = L /\ L \in 0..L
  BY <1>1
<1>6. Bytes(ms2, L + 1) = Bytes(ms2, L) + m.size
  BY <1>1, <1>2, <1>5, BytesStep
<1> QED
  BY <1>1, <1>4, <1>5, <1>6 DEF L, ms2

\* The messages after the k-th one.
Rest(msgs, k) == SubSeq(msgs, k + 1, Len(msgs))

LEMMA RestFacts ==
  ASSUME NEW S, NEW msgs \in Seq(S), NEW k \in 0..Len(msgs)
  PROVE  /\ Rest(msgs, k) \in Seq(S)
         /\ Len(Rest(msgs, k)) = Len(msgs) - k
         /\ \A i \in 1..(Len(msgs) - k) : Rest(msgs, k)[i] = msgs[k + i]
         /\ Len(msgs) \in Nat
<1> DEFINE L == Len(msgs)
           r == Rest(msgs, k)
<1>1. L \in Nat /\ \A i \in 1..L : msgs[i] \in S
  OBVIOUS
<1>2. \A i \in (k + 1)..L : msgs[i] \in S
  BY <1>1
<1>3. /\ r \in Seq(S)
      /\ Len(r) = IF k + 1 <= L THEN L - (k + 1) + 1 ELSE 0
      /\ \A i \in 1..(L - (k + 1) + 1) : r[i] = msgs[(k + 1) + i - 1]
  BY <1>1, <1>2, SubSeqProperties DEF Rest
<1> HIDE DEF r
<1>4. k \in 0..L
  OBVIOUS
<1> HIDE DEF L
<1>5. Len(r) = L - k
  BY <1>1, <1>3, <1>4
<1>6. ASSUME NEW i \in 1..(L - k) PROVE r[i] = msgs[k + i]
  <2>1. i \in 1..(L - (k + 1) + 1) /\ (k + 1) + i - 1 = k + i
    BY <1>1, <1>4
  <2> QED
    BY <1>3, <2>1
<1> QED
  BY <1>1, <1>3, <1>5, <1>6 DEF r, L

LEMMA BytesRest ==
  ASSUME NEW S, NEW msgs \in Seq(S), Sized(msgs), NEW k \in 0..Len(msgs)
  PROVE  /\ Sized(Rest(msgs, k))
         /\ \A j \in 0..(Len(msgs) - k) :
              Bytes(msgs, k + j) = Bytes(msgs, k) + Bytes(Rest(msgs, k), j)
<1> DEFINE L == Len(msgs)
           r == Rest(msgs, k)
           n == L - k
<1>1. /\ r \in Seq(S) /\ Len(r) = n /\ L \in Nat
      /\ \A i \in 1..n : r[i] = msgs[k + i]
  BY RestFacts
<1>2. k \in 0..L
  OBVIOUS
<1>3. \A i \in 1..L : msgs[i].size \in Nat \ {0}
  BY DEF Sized
<1>4. \A i \in 0..L : Bytes(msgs, i) \in Nat
  BY <1>1, BytesGrow
<1>5. \A i \in 1..L : Bytes(msgs, i) = Bytes(msgs, i - 1) + msgs[i].size
  BY <1>1, BytesStep
<1> HIDE DEF L, r
<1>6. n \in Nat /\ \A i \in 1..n : k + i \in 1..L /\ (k + i) - 1 = k + (i - 1)
  BY <1>1, <1>2
<1>7. Sized(r)
  BY <1>1, <1>3, <1>6 DEF Sized
<1>8. Len(r) \in Nat
  BY <1>1, <1>6
<1>9. /\ Bytes(r, 0) = 0
      /\ \A i \in 1..n : Bytes(r, i) = Bytes(r, i - 1) + r[i].size
      /\ \A i \in 0..n : Bytes(r, i) \in Nat
  BY <1>1, <1>7, <1>8, BytesStep, BytesGrow
<1> HIDE DEF n
<1> DEFINE P == {j \in 0..n : Bytes(msgs, k + j) = Bytes(msgs, k) + Bytes(r, j)}
<1>10. P \subseteq 0..n /\ 0 \in P
  <2>1. k + 0 = k /\ Bytes(msgs, k) \in Nat /\ 0 \in 0..n
    BY <1>2, <1>4, <1>6
  <2> QED
    BY <1>9, <2>1
<1>11. ASSUME NEW j \in 1..n, j - 1 \in P PROVE j \in P
  <2>1. Bytes(msgs, k + j) = Bytes(msgs, k + (j - 1)) + msgs[k + j].size
    BY <1>5, <1>6
  <2>2. Bytes(msgs, k + (j - 1)) = Bytes(msgs, k) + Bytes(r, j - 1)
    BY <1>11
  <2>3. Bytes(r, j) = Bytes(r, j - 1) + msgs[k + j].size
    BY <1>1, <1>9
  <2>4. /\ Bytes(msgs, k) \in Nat /\ Bytes(r, j - 1) \in Nat
        /\ msgs[k + j].size \in Nat
    <3>1. Bytes(msgs, k) \in Nat
      BY <1>2, <1>4
    <3>2. j - 1 \in 0..n
      BY <1>6
    <3>3. Bytes(r, j - 1) \in Nat
      BY <1>9, <3>2
    <3>4. k + j \in 1..L
      BY <1>6
    <3>5. msgs[k + j].size \in Nat
      BY <1>3, <3>4
    <3> QED
      BY <3>1, <3>3, <3>5
  <2>5. Bytes(msgs, k + j) = Bytes(msgs, k) + Bytes(r, j)
    BY <2>1, <2>2, <2>3, <2>4
  <2> QED
    BY <1>6, <2>5
<1>12. \A j \in 0..n : j \in P
  <2> HIDE DEF P
  <2> QED
    BY <1>6, <1>10, <1>11, PickInduction
<1> QED
  BY <1>7, <1>12 DEF n, L, r

\* As many messages as there are bytes for, and no more.
LEMMA CompleteFacts ==
  ASSUME NEW msgs, Len(msgs) \in Nat, Sized(msgs), NEW n \in Nat
  PROVE  /\ Complete(msgs, n) \in 0..Len(msgs)
         /\ Bytes(msgs, Complete(msgs, n)) <= n
         /\ Complete(msgs, n) = Len(msgs) \/ Bytes(msgs, Complete(msgs, n) + 1) > n
<1> DEFINE L == Len(msgs)
           Enough(k) == Bytes(msgs, k) <= n /\ (k = L \/ Bytes(msgs, k + 1) > n)
           N == {k \in 0..L : k = L \/ Bytes(msgs, k + 1) > n}
<1>1. L \in Nat /\ Bytes(msgs, 0) = 0 /\ \A k \in 0..L : Bytes(msgs, k) \in Nat
  BY BytesStep, BytesGrow
<1>2. N \in SUBSET Nat /\ N # {}
  BY <1>1
<1>3. PICK m \in N : \A k \in N : m <= k
  <2> HIDE DEF N
  <2> QED
    BY <1>2, Least
<1>4. Bytes(msgs, m) <= n
  <2>1. CASE m = 0
    BY <1>1, <2>1
  <2>2. CASE m # 0
    <3>1. m - 1 \in 0..L /\ ~(m <= m - 1) /\ (m - 1) + 1 = m /\ m \in 0..L /\ m - 1 # L
      BY <1>1, <1>3, <2>2
    <3>2. m - 1 \notin N
      BY <1>3, <3>1
    <3>3. ~(Bytes(msgs, m) > n)
      BY <3>1, <3>2
    <3> QED
      BY <1>1, <3>1, <3>3
  <2> QED
    BY <2>1, <2>2
<1>5. \E k \in 0..L : Enough(k)
  BY <1>3, <1>4
<1>6. Complete(msgs, n) = CHOOSE k \in 0..L : Enough(k)
  BY DEF Complete
<1> HIDE DEF Enough
<1>7. Complete(msgs, n) \in 0..L /\ Enough(Complete(msgs, n))
  BY <1>5, <1>6
<1> QED
  BY <1>7 DEF Enough

LEMMA CompleteIs ==
  ASSUME NEW msgs, Len(msgs) \in Nat, Sized(msgs), NEW n \in Nat, NEW k \in 0..Len(msgs),
         Bytes(msgs, k) <= n, k = Len(msgs) \/ Bytes(msgs, k + 1) > n
  PROVE  Complete(msgs, n) = k
<1> DEFINE L == Len(msgs)
           c == Complete(msgs, n)
<1>1. c \in 0..L /\ Bytes(msgs, c) <= n /\ (c = L \/ Bytes(msgs, c + 1) > n)
  BY CompleteFacts
<1>2. /\ L \in Nat
      /\ \A j \in 0..L : Bytes(msgs, j) \in Nat
      /\ \A i, j \in 0..L : i < j => Bytes(msgs, i) < Bytes(msgs, j)
  BY BytesGrow
<1>3. k \in 0..L /\ (k = L \/ Bytes(msgs, k + 1) > n)
  OBVIOUS
<1> HIDE DEF c, L
<1>4. ASSUME NEW i \in 0..L, NEW j \in 0..L, i < j, Bytes(msgs, j) <= n,
             i = L \/ Bytes(msgs, i + 1) > n
      PROVE  FALSE
  <2>1. i + 1 \in 0..L /\ i # L /\ (i + 1 = j \/ i + 1 < j)
    BY <1>2, <1>4
  <2>2. /\ Bytes(msgs, i + 1) \in Nat /\ Bytes(msgs, j) \in Nat
        /\ i + 1 < j => Bytes(msgs, i + 1) < Bytes(msgs, j)
    BY <1>2, <2>1
  <2>3. Bytes(msgs, i + 1) > n
    BY <1>4, <2>1
  <2> QED
    BY <1>4, <2>1, <2>2, <2>3
<1>5. ~(c < k) /\ ~(k < c)
  BY <1>1, <1>3, <1>4
<1>6. c = k
  BY <1>1, <1>2, <1>3, <1>5
<1> QED
  BY <1>6 DEF c

LEMMA WholeFacts ==
  ASSUME NEW S, NEW msgs \in Seq(S), Sized(msgs), NEW n \in Nat
  PROVE  /\ Whole(msgs, n) \in Seq(S)
         /\ Len(Whole(msgs, n)) = Complete(msgs, n)
         /\ \A i \in 1..Complete(msgs, n) : Whole(msgs, n)[i] = msgs[i]
<1> DEFINE L == Len(msgs)
           c == Complete(msgs, n)
           w == Whole(msgs, n)
<1>1. L \in Nat /\ \A i \in 1..L : msgs[i] \in S
  OBVIOUS
<1>2. c \in 0..L
  BY <1>1, CompleteFacts
<1>3. w = SubSeq(msgs, 1, c)
  BY DEF Whole
<1> HIDE DEF c, L, w
<1>4. c \in Int /\ \A i \in 1..c : msgs[i] \in S
  BY <1>1, <1>2
<1>5. /\ SubSeq(msgs, 1, c) \in Seq(S)
      /\ Len(SubSeq(msgs, 1, c)) = IF 1 <= c THEN c - 1 + 1 ELSE 0
      /\ \A i \in 1..(c - 1 + 1) : SubSeq(msgs, 1, c)[i] = msgs[1 + i - 1]
  BY <1>4, SubSeqProperties
<1>6. /\ w \in Seq(S)
      /\ Len(w) = IF 1 <= c THEN c - 1 + 1 ELSE 0
      /\ \A i \in 1..(c - 1 + 1) : w[i] = msgs[1 + i - 1]
  BY <1>3, <1>5
<1>7. Len(w) = c
  BY <1>1, <1>2, <1>6
<1>8. \A i \in 1..c : i \in 1..(c - 1 + 1) /\ 1 + i - 1 = i
  BY <1>1, <1>2
<1>9. \A i \in 1..c : w[i] = msgs[i]
  BY <1>6, <1>8
<1> QED
  BY <1>6, <1>7, <1>9 DEF c, w

\* Bytes for all of them.
LEMMA WholeAll ==
  ASSUME NEW S, NEW msgs \in Seq(S), Sized(msgs), NEW n \in Nat,
         Bytes(msgs, Len(msgs)) <= n
  PROVE  Whole(msgs, n) = msgs
<1>1. Len(msgs) \in Nat /\ Len(msgs) \in 0..Len(msgs)
  OBVIOUS
<1>2. Complete(msgs, n) = Len(msgs)
  BY <1>1, CompleteIs
<1>3. /\ Whole(msgs, n) \in Seq(S) /\ Len(Whole(msgs, n)) = Len(msgs)
      /\ \A i \in 1..Len(msgs) : Whole(msgs, n)[i] = msgs[i]
  BY <1>2, WholeFacts
<1> QED
  BY <1>3, SeqEqual

\* Bytes for none.
LEMMA WholeNone ==
  ASSUME NEW S, NEW msgs \in Seq(S), Sized(msgs), NEW n \in Nat,
         msgs # << >> => n < Head(msgs).size
  PROVE  Whole(msgs, n) = << >>
<1>1. Len(msgs) \in Nat /\ 0 \in 0..Len(msgs)
  OBVIOUS
<1>2. Bytes(msgs, 0) = 0
  BY <1>1, BytesStep
<1>3. Len(msgs) # 0 => Bytes(msgs, 0 + 1) > n
  <2> HAVE Len(msgs) # 0
  <2>1. 1 \in 1..Len(msgs) /\ Head(msgs) = msgs[1] /\ msgs # << >>
    OBVIOUS
  <2>2. Bytes(msgs, 1) = Bytes(msgs, 1 - 1) + msgs[1].size
    BY <1>1, <2>1, BytesStep
  <2>3. msgs[1].size \in Nat
    BY <2>1 DEF Sized
  <2> QED
    BY <1>2, <2>1, <2>2, <2>3
<1>4. Complete(msgs, n) = 0
  BY <1>1, <1>2, <1>3, CompleteIs
<1>5. Whole(msgs, n) \in Seq(S) /\ Len(Whole(msgs, n)) = 0
  BY <1>4, WholeFacts
<1> QED
  BY <1>5

\* Fewer bytes are enough for the first of these messages.
LEMMA WholeLess ==
  ASSUME NEW S, NEW msgs \in Seq(S), Sized(msgs), NEW n \in Nat, NEW n2 \in Nat, n2 <= n
  PROVE  \E j \in 0..Len(Whole(msgs, n)) : Whole(msgs, n2) = SubSeq(Whole(msgs, n), 1, j)
<1> DEFINE L == Len(msgs)
           k == Complete(msgs, n)
           j == Complete(msgs, n2)
           w == Whole(msgs, n)
           v == Whole(msgs, n2)
<1>1. L \in Nat
  OBVIOUS
<1>2. /\ j \in 0..L /\ Bytes(msgs, j) <= n2
      /\ k \in 0..L /\ (k = L \/ Bytes(msgs, k + 1) > n)
  BY <1>1, CompleteFacts
<1>3. /\ \A i \in 0..L : Bytes(msgs, i) \in Nat
      /\ \A i, h \in 0..L : i < h => Bytes(msgs, i) < Bytes(msgs, h)
  BY <1>1, BytesGrow
<1>4. /\ w \in Seq(S) /\ Len(w) = k /\ \A i \in 1..k : w[i] = msgs[i]
      /\ v \in Seq(S) /\ Len(v) = j /\ \A i \in 1..j : v[i] = msgs[i]
  BY WholeFacts
<1> HIDE DEF k, j, w, v, L
<1>5. j <= k
  <2>1. ASSUME k < j PROVE FALSE
    <3>1. k + 1 \in 0..L /\ k # L /\ (k + 1 = j \/ k + 1 < j)
      BY <1>1, <1>2, <2>1
    <3>2. /\ Bytes(msgs, k + 1) \in Nat /\ Bytes(msgs, j) \in Nat
          /\ k + 1 < j => Bytes(msgs, k + 1) < Bytes(msgs, j)
      BY <1>2, <1>3, <3>1
    <3>3. Bytes(msgs, k + 1) > n
      BY <1>2, <3>1
    <3> QED
      BY <1>2, <3>1, <3>2, <3>3
  <2> QED
    BY <1>1, <1>2, <2>1
<1>6. j \in 0..k /\ j \in Nat /\ \A i \in 1..j : i \in 1..k
  BY <1>1, <1>2, <1>5
<1>7. v = SubSeq(w, 1, j)
  <2>1. \A i \in 1..j : w[i] \in S
    BY <1>4, <1>6
  <2> DEFINE u == SubSeq(w, 1, j)
  <2>2. /\ u \in Seq(S) /\ Len(u) = IF 1 <= j THEN j - 1 + 1 ELSE 0
        /\ \A i \in 1..(j - 1 + 1) : u[i] = w[1 + i - 1]
    BY <1>6, <2>1, SubSeqProperties
  <2> HIDE DEF u
  <2>3. \A i \in 1..j : i \in 1..(j - 1 + 1) /\ 1 + i - 1 = i
    BY <1>6
  <2>4. Len(u) = j /\ \A i \in 1..j : u[i] = v[i]
    <3>1. Len(u) = j
      BY <1>6, <2>2
    <3>2. \A i \in 1..j : u[i] = w[i]
      BY <2>2, <2>3
    <3> QED
      BY <1>4, <1>6, <3>1, <3>2
  <2>5. u = v
    BY <1>4, <2>2, <2>4, SeqEqual
  <2> QED
    BY <2>5 DEF u
<1> QED
  BY <1>4, <1>6, <1>7 DEF w, v

\* First the messages that n bytes are enough for, then the others.
LEMMA WholeSplit ==
  ASSUME NEW S, NEW msgs \in Seq(S), Sized(msgs), NEW n \in Nat, NEW n2 \in Nat, n <= n2
  PROVE  LET k == Complete(msgs, n)
         IN  /\ n2 - Bytes(msgs, k) \in Nat
             /\ Whole(msgs, n2) = Cat(Whole(msgs, n), Whole(Rest(msgs, k), n2 - Bytes(msgs, k)))
<1> DEFINE L == Len(msgs)
           k == Complete(msgs, n)
           k2 == Complete(msgs, n2)
           r == Rest(msgs, k)
           n3 == n2 - Bytes(msgs, k)
           a == Whole(msgs, n)
           w == Whole(msgs, n2)
           b == Whole(r, n3)
<1>1. L \in Nat
  OBVIOUS
<1>2. /\ k \in 0..L /\ Bytes(msgs, k) <= n
      /\ k2 \in 0..L /\ Bytes(msgs, k2) <= n2 /\ (k2 = L \/ Bytes(msgs, k2 + 1) > n2)
  BY <1>1, CompleteFacts
<1>3. /\ \A i \in 0..L : Bytes(msgs, i) \in Nat
      /\ \A i, h \in 0..L : i < h => Bytes(msgs, i) < Bytes(msgs, h)
  BY <1>1, BytesGrow
<1>4. /\ w \in Seq(S) /\ Len(w) = k2 /\ \A i \in 1..k2 : w[i] = msgs[i]
      /\ a \in Seq(S) /\ Len(a) = k /\ \A i \in 1..k : a[i] = msgs[i]
  BY WholeFacts
<1>5. /\ r \in Seq(S) /\ Len(r) = L - k
      /\ \A i \in 1..(L - k) : r[i] = msgs[k + i]
  BY <1>2, RestFacts
<1>6. /\ Sized(r)
      /\ \A j \in 0..(L - k) : Bytes(msgs, k + j) = Bytes(msgs, k) + Bytes(r, j)
  BY <1>2, BytesRest
<1> HIDE DEF L, k, k2, r, w, a
<1>7. k <= k2
  <2>1. ASSUME k2 < k PROVE FALSE
    <3>1. k2 + 1 \in 0..L /\ k2 # L /\ (k2 + 1 = k \/ k2 + 1 < k)
      BY <1>1, <1>2, <2>1
    <3>2. /\ Bytes(msgs, k2 + 1) \in Nat /\ Bytes(msgs, k) \in Nat
          /\ k2 + 1 < k => Bytes(msgs, k2 + 1) < Bytes(msgs, k)
      BY <1>2, <1>3, <3>1
    <3>3. Bytes(msgs, k2 + 1) > n2
      BY <1>2, <3>1
    <3> QED
      BY <1>2, <3>1, <3>2, <3>3
  <2> QED
    BY <1>1, <1>2, <2>1
<1>8. n3 \in Nat /\ n3 + Bytes(msgs, k) = n2 /\ Bytes(msgs, k) \in Nat
  <2>1. Bytes(msgs, k) \in Nat
    BY <1>2, <1>3
  <2> QED
    BY <1>2, <2>1
<1>9. Complete(r, n3) = k2 - k
  <2>1. k2 - k \in 0..(L - k) /\ k + (k2 - k) = k2 /\ Len(r) = L - k /\ L - k \in Nat
    BY <1>1, <1>2, <1>5, <1>7
  <2>2. Bytes(msgs, k2) = Bytes(msgs, k) + Bytes(r, k2 - k)
    BY <1>6, <2>1
  <2>3. \A j \in 0..(L - k) : Bytes(r, j) \in Nat
    BY <1>6, <2>1, BytesGrow
  <2>4. Bytes(r, k2 - k) <= n3
    <3>1. Bytes(r, k2 - k) \in Nat
      BY <2>1, <2>3
    <3> HIDE DEF n3
    <3> QED
      BY <1>2, <1>8, <2>2, <3>1
  <2>5. k2 - k = L - k \/ Bytes(r, (k2 - k) + 1) > n3
    <3>1. CASE k2 = L
      BY <3>1
    <3>2. CASE k2 # L
      <4>1. (k2 - k) + 1 \in 0..(L - k) /\ k + ((k2 - k) + 1) = k2 + 1
        BY <1>1, <1>2, <1>7, <3>2
      <4>2. Bytes(msgs, k2 + 1) = Bytes(msgs, k) + Bytes(r, (k2 - k) + 1)
        BY <1>6, <4>1
      <4>3. Bytes(r, (k2 - k) + 1) \in Nat
        BY <2>3, <4>1
      <4> HIDE DEF n3
      <4> QED
        BY <1>2, <1>8, <3>2, <4>2, <4>3
    <3> QED
      BY <3>1, <3>2
  <2> HIDE DEF n3
  <2> QED
    BY <1>6, <1>8, <2>1, <2>4, <2>5, CompleteIs
<1> HIDE DEF n3
<1>10. b \in Seq(S) /\ Len(b) = k2 - k /\ \A i \in 1..(k2 - k) : b[i] = r[i]
  <2>1. r \in Seq(S) /\ Sized(r) /\ n3 \in Nat
    BY <1>5, <1>6, <1>8
  <2>2. b \in Seq(S) /\ Len(b) = Complete(r, n3)
    BY <2>1, WholeFacts
  <2>3. \A i \in 1..Complete(r, n3) : b[i] = r[i]
    BY <2>1, WholeFacts
  <2> QED
    BY <1>9, <2>2, <2>3
<1> HIDE DEF b
<1> DEFINE u == Cat(a, b)
<1>11. /\ u \in Seq(S) /\ Len(u) = Len(a) + Len(b)
       /\ \A i \in 1..Len(a) : u[i] = a[i]
       /\ \A i \in 1..Len(b) : u[Len(a) + i] = b[i]
  <2>1. a \in Seq(S) /\ b \in Seq(S)
    BY <1>4, <1>10
  <2>2. u \in Seq(S)
    BY <2>1, CatFacts
  <2>3. Len(u) = Len(a) + Len(b)
    BY <2>1, CatFacts
  <2>4. \A i \in 1..Len(a) : u[i] = a[i]
    BY <2>1, CatFacts
  <2>5. \A i \in 1..Len(b) : u[Len(a) + i] = b[i]
    BY <2>1, CatFacts
  <2> QED
    BY <2>2, <2>3, <2>4, <2>5
<1> HIDE DEF u
<1>12. Len(u) = k2
  BY <1>1, <1>2, <1>4, <1>10, <1>11
<1>13. ASSUME NEW i \in 1..k2 PROVE u[i] = w[i]
  <2>1. CASE i \in 1..k
    BY <1>4, <1>11, <2>1
  <2>2. CASE i \notin 1..k
    <3>1. PICK j \in 1..(k2 - k) : k + j = i
      <4> DEFINE j == i - k
      <4>1. j \in 1..(k2 - k) /\ k + j = i
        BY <1>1, <1>2, <2>2
      <4> HIDE DEF j
      <4> QED
        BY <4>1
    <3>2. j \in 1..(L - k)
      BY <1>1, <1>2, <1>7
    <3>3. u[k + j] = b[j] /\ b[j] = r[j] /\ r[j] = msgs[k + j]
      BY <1>4, <1>5, <1>10, <1>11, <3>2
    <3> QED
      BY <1>4, <3>1, <3>3
  <2> QED
    BY <2>1, <2>2
<1>14. u = w
  BY <1>4, <1>11, <1>12, <1>13, SeqEqual
<1> QED
  BY <1>8, <1>14 DEF n3, u, w, a, b, r, k

-----------------------------------------------------------------------------
(* Interrupts.                                                             *)

AnyMsg == Message \cup {None}
Interrupt == [agent : Conn \cup {None}, msg : AnyMsg]

\* The messages of a queue are typed.
LEMMA MessagesTyped ==
  ASSUME NEW q \in Seq(Interrupt), NEW c
  PROVE  MessagesOf(q, c) \in Seq(AnyMsg)
<1> DEFINE msgs == [n \in DOMAIN q |-> q[n].msg]
           N == {n \in DOMAIN q : q[n].agent = c}
<1>1. Len(q) \in Nat /\ DOMAIN q = 1..Len(q) /\ \A n \in 1..Len(q) : q[n] \in Interrupt
  OBVIOUS
<1>2. \A n \in 1..Len(q) : q[n].msg \in AnyMsg
  BY <1>1 DEF Interrupt
<1>3. msgs \in Seq(AnyMsg)
  BY <1>1, <1>2
<1>4. MessagesOf(q, c) = Those(msgs, N)
  BY DEF MessagesOf
<1> HIDE DEF msgs, N
<1> QED
  BY <1>3, <1>4, ThoseTyped

\* Two queues, one after the other.
LEMMA MessagesCat ==
  ASSUME NEW p \in Seq(Interrupt), NEW q \in Seq(Interrupt), NEW c
  PROVE  MessagesOf(Cat(p, q), c) = Cat(MessagesOf(p, c), MessagesOf(q, c))
<1> DEFINE u == Cat(p, q)
           K == Len(p)
           L == Len(q)
           a == [n \in DOMAIN p |-> p[n].msg]
           b == [n \in DOMAIN q |-> q[n].msg]
           v == [n \in DOMAIN u |-> u[n].msg]
           N1 == {n \in DOMAIN p : p[n].agent = c}
           N2 == {n \in DOMAIN q : q[n].agent = c}
           N == {n \in DOMAIN u : u[n].agent = c}
<1>1. /\ K \in Nat /\ L \in Nat
      /\ DOMAIN p = 1..K /\ DOMAIN q = 1..L
      /\ \A n \in 1..K : p[n] \in Interrupt
      /\ \A n \in 1..L : q[n] \in Interrupt
  OBVIOUS
<1>2. /\ u \in Seq(Interrupt) /\ Len(u) = K + L
      /\ \A i \in 1..K : u[i] = p[i]
      /\ \A i \in 1..L : u[K + i] = q[i]
  <2>1. u \in Seq(Interrupt)
    BY CatFacts
  <2>2. Len(u) = K + L
    BY CatFacts
  <2>3. \A i \in 1..K : u[i] = p[i]
    BY CatFacts
  <2>4. \A i \in 1..L : u[K + i] = q[i]
    BY CatFacts
  <2> QED
    BY <2>1, <2>2, <2>3, <2>4
<1> HIDE DEF u
<1>3. DOMAIN u = 1..(K + L) /\ \A i \in 1..(K + L) : u[i] \in Interrupt
  BY <1>1, <1>2
<1>4. /\ MessagesOf(p, c) = Those(a, N1) /\ MessagesOf(q, c) = Those(b, N2)
      /\ MessagesOf(u, c) = Those(v, N)
  BY DEF MessagesOf
<1>5. /\ \A i \in 1..K : p[i].msg \in AnyMsg
      /\ \A i \in 1..L : q[i].msg \in AnyMsg
      /\ \A i \in 1..(K + L) : u[i].msg \in AnyMsg
  BY <1>1, <1>3 DEF Interrupt
<1> HIDE DEF K, L
<1>6. /\ a \in Seq(AnyMsg) /\ Len(a) = K /\ \A i \in 1..K : a[i] = p[i].msg
      /\ b \in Seq(AnyMsg) /\ Len(b) = L /\ \A i \in 1..L : b[i] = q[i].msg
      /\ v \in Seq(AnyMsg) /\ Len(v) = K + L /\ \A i \in 1..(K + L) : v[i] = u[i].msg
  <2>1. a \in Seq(AnyMsg) /\ Len(a) = K /\ \A i \in 1..K : a[i] = p[i].msg
    BY <1>1, <1>5
  <2>2. b \in Seq(AnyMsg) /\ Len(b) = L /\ \A i \in 1..L : b[i] = q[i].msg
    BY <1>1, <1>5
  <2>3. K + L \in Nat
    BY <1>1
  <2>4. v \in Seq(AnyMsg) /\ Len(v) = K + L /\ \A i \in 1..(K + L) : v[i] = u[i].msg
    BY <1>3, <1>5, <2>3
  <2> QED
    BY <2>1, <2>2, <2>4
<1>7. Splits(N, N1, N2, K, L)
  <2>1. ASSUME NEW n \in 1..K PROVE n \in N <=> n \in N1
    <3>1. n \in 1..(K + L) /\ u[n] = p[n]
      BY <1>1, <1>2
    <3> QED
      BY <1>1, <1>3, <3>1
  <2>2. ASSUME NEW n \in 1..L PROVE K + n \in N <=> n \in N2
    <3>1. K + n \in 1..(K + L) /\ u[K + n] = q[n]
      BY <1>1, <1>2
    <3> QED
      BY <1>1, <1>3, <3>1
  <2> HIDE DEF N, N1, N2
  <2> QED
    BY <2>1, <2>2 DEF Splits
<1> HIDE DEF a, b, v, N, N1, N2
<1>8. v = Cat(a, b)
  <2> DEFINE w == Cat(a, b)
  <2>0. a \in Seq(AnyMsg) /\ b \in Seq(AnyMsg)
    BY <1>6
  <2>1. w \in Seq(AnyMsg)
    BY <2>0, CatFacts
  <2>2. Len(w) = Len(a) + Len(b)
    BY <2>0, CatFacts
  <2>3. \A i \in 1..Len(a) : w[i] = a[i]
    BY <2>0, CatFacts
  <2>4. \A i \in 1..Len(b) : w[Len(a) + i] = b[i]
    BY <2>0, CatFacts
  <2> HIDE DEF w
  <2>5. Len(w) = K + L
    BY <1>6, <2>2
  <2>6. ASSUME NEW n \in 1..(K + L) PROVE v[n] = w[n]
    <3>1. v[n] = u[n].msg
      BY <1>6
    <3>2. CASE n \in 1..K
      <4>1. u[n] = p[n] /\ w[n] = a[n] /\ a[n] = p[n].msg
        BY <1>2, <1>6, <2>3, <3>2
      <4> QED
        BY <3>1, <4>1
    <3>3. CASE n \notin 1..K
      <4>1. PICK j \in 1..L : K + j = n
        <5> DEFINE j == n - K
        <5>1. j \in 1..L /\ K + j = n
          BY <1>1, <3>3
        <5> HIDE DEF j
        <5> QED
          BY <5>1
      <4>2. u[K + j] = q[j] /\ w[K + j] = b[j] /\ b[j] = q[j].msg
        BY <1>2, <1>6, <2>4
      <4> QED
        BY <3>1, <4>1, <4>2
    <3> QED
      BY <3>2, <3>3
  <2>7. v = w
    BY <1>6, <2>1, <2>5, <2>6, SeqEqual
  <2> QED
    BY <2>7 DEF w
<1>9. Those(v, N) = Cat(Those(a, N1), Those(b, N2))
  <2>1. a \in Seq(AnyMsg) /\ b \in Seq(AnyMsg) /\ Splits(N, N1, N2, Len(a), Len(b))
    BY <1>6, <1>7
  <2>2. Those(a \o b, N) = Those(a, N1) \o Those(b, N2)
    BY <2>1, ThoseConcat
  <2> QED
    BY <1>8, <2>2 DEF Cat
<1> QED
  BY <1>4, <1>9 DEF u

LEMMA EntriesTyped ==
  ASSUME NEW agent \in Conn \cup {None}, NEW msgs \in Seq(AnyMsg)
  PROVE  /\ Entries(agent, msgs) \in Seq(Interrupt)
         /\ Len(Entries(agent, msgs)) = Len(msgs)
         /\ \A i \in 1..Len(msgs) : Entries(agent, msgs)[i] = [agent |-> agent, msg |-> msgs[i]]
<1> DEFINE e == Entries(agent, msgs)
<1>1. Len(msgs) \in Nat /\ \A i \in 1..Len(msgs) : msgs[i] \in AnyMsg
  OBVIOUS
<1>2. e = [i \in 1..Len(msgs) |-> [agent |-> agent, msg |-> msgs[i]]]
  BY DEF Entries
<1>3. \A i \in 1..Len(msgs) : [agent |-> agent, msg |-> msgs[i]] \in Interrupt
  BY <1>1 DEF Interrupt
<1> HIDE DEF e
<1>4. e \in Seq(Interrupt)
  BY <1>1, <1>2, <1>3
<1>5. \A i \in 1..Len(msgs) : e[i] = [agent |-> agent, msg |-> msgs[i]]
  BY <1>2
<1>6. Len(e) = Len(msgs)
  BY <1>1, <1>2
<1> QED
  BY <1>4, <1>5, <1>6 DEF e

\* Interrupts of one agent bring messages to no other.
LEMMA MessagesOfEntries ==
  ASSUME NEW agent \in Conn \cup {None}, NEW msgs \in Seq(AnyMsg), NEW c
  PROVE  /\ agent = c => MessagesOf(Entries(agent, msgs), c) = msgs
         /\ agent # c => MessagesOf(Entries(agent, msgs), c) = << >>
<1> DEFINE e == Entries(agent, msgs)
           a == [n \in DOMAIN e |-> e[n].msg]
           N == {n \in DOMAIN e : e[n].agent = c}
           L == Len(msgs)
<1>1. /\ e \in Seq(Interrupt) /\ Len(e) = L
      /\ \A i \in 1..L : e[i] = [agent |-> agent, msg |-> msgs[i]]
  BY EntriesTyped
<1>2. L \in Nat /\ DOMAIN msgs = 1..L
  OBVIOUS
<1>3. MessagesOf(e, c) = Those(a, N)
  BY DEF MessagesOf
<1> HIDE DEF e
<1>4. DOMAIN e = 1..L /\ \A i \in 1..L : e[i].agent = agent /\ e[i].msg = msgs[i]
  <2>1. DOMAIN e = 1..L
    BY <1>1, <1>2
  <2>2. ASSUME NEW i \in 1..L PROVE e[i].agent = agent /\ e[i].msg = msgs[i]
    <3>1. e[i] = [agent |-> agent, msg |-> msgs[i]]
      BY <1>1
    <3> QED
      BY <3>1
  <2> QED
    BY <2>1, <2>2
<1>5. a = msgs
  <2>1. a = [n \in 1..L |-> msgs[n]]
    BY <1>4
  <2>2. msgs = [n \in 1..L |-> msgs[n]]
    BY <1>2
  <2> QED
    BY <2>1, <2>2
<1> HIDE DEF a
<1>6. CASE agent = c
  <2>1. 1..L \subseteq N
    BY <1>4, <1>6
  <2> HIDE DEF N
  <2>2. Those(msgs, N) = msgs
    BY <2>1, ThoseAllOrNone
  <2> QED
    BY <1>3, <1>5, <1>6, <2>2 DEF e
<1>7. CASE agent # c
  <2>1. \A n \in 1..L : n \notin N
    BY <1>4, <1>7
  <2> HIDE DEF N
  <2>2. Those(msgs, N) = << >>
    BY <2>1, ThoseAllOrNone
  <2> QED
    BY <1>3, <1>5, <1>7, <2>2 DEF e
<1> QED
  BY <1>6, <1>7

\* The oldest interrupt of a queue, and the others.
LEMMA MessagesHead ==
  ASSUME NEW q \in Seq(Interrupt), q # << >>, NEW c
  PROVE  MessagesOf(q, c) = Cat(IF Head(q).agent = c THEN <<Head(q).msg>> ELSE << >>,
                                MessagesOf(Tail(q), c))
<1> DEFINE h == Head(q)
           t == Tail(q)
           e == Entries(h.agent, <<h.msg>>)
<1>1. h \in Interrupt /\ t \in Seq(Interrupt) /\ Len(t) = Len(q) - 1
      /\ Len(q) \in Nat \ {0} /\ h = q[1]
      /\ \A i \in 1..(Len(q) - 1) : t[i] = q[i + 1]
  BY HeadTailProperties
<1> HIDE DEF h, t
<1>2. /\ h.agent \in Conn \cup {None} /\ h.msg \in AnyMsg
      /\ h = [agent |-> h.agent, msg |-> h.msg]
  BY <1>1 DEF Interrupt
<1>3. <<h.msg>> \in Seq(AnyMsg) /\ Len(<<h.msg>>) = 1 /\ <<h.msg>>[1] = h.msg
  BY <1>2
<1>4. e \in Seq(Interrupt) /\ Len(e) = 1 /\ e[1] = h
  <2>1. 1 \in 1..Len(<<h.msg>>)
    BY <1>3
  <2> QED
    BY <1>2, <1>3, <2>1, EntriesTyped
<1>5. MessagesOf(e, c) = IF h.agent = c THEN <<h.msg>> ELSE << >>
  <2>1. h.agent = c => MessagesOf(e, c) = <<h.msg>>
    BY <1>2, <1>3, MessagesOfEntries
  <2>2. h.agent # c => MessagesOf(e, c) = << >>
    BY <1>2, <1>3, MessagesOfEntries
  <2> QED
    BY <2>1, <2>2
<1> HIDE DEF e
<1>6. q = Cat(e, t)
  <2> DEFINE w == Cat(e, t)
  <2>0. e \in Seq(Interrupt) /\ t \in Seq(Interrupt)
    BY <1>1, <1>4
  <2>1. w \in Seq(Interrupt)
    BY <2>0, CatFacts
  <2>2. Len(w) = Len(e) + Len(t)
    BY <2>0, CatFacts
  <2>3. \A i \in 1..Len(e) : w[i] = e[i]
    BY <2>0, CatFacts
  <2>4. \A i \in 1..Len(t) : w[Len(e) + i] = t[i]
    BY <2>0, CatFacts
  <2> HIDE DEF w
  <2>5. Len(w) = Len(q)
    BY <1>1, <1>4, <2>2
  <2>6. ASSUME NEW i \in 1..Len(q) PROVE w[i] = q[i]
    <3>1. CASE i = 1
      BY <1>1, <1>4, <2>3, <3>1
    <3>2. CASE i # 1
      <4>1. PICK j \in 1..(Len(q) - 1) : 1 + j = i
        <5> DEFINE j == i - 1
        <5>1. j \in 1..(Len(q) - 1) /\ 1 + j = i
          BY <1>1, <3>2
        <5> HIDE DEF j
        <5> QED
          BY <5>1
      <4>2. w[1 + j] = t[j]
        BY <1>1, <1>4, <2>4
      <4>3. t[j] = q[j + 1] /\ j + 1 = 1 + j
        BY <1>1
      <4> QED
        BY <4>1, <4>2, <4>3
    <3> QED
      BY <3>1, <3>2
  <2>7. w = q
    BY <2>1, <2>5, <2>6, SeqEqual
  <2> QED
    BY <2>7 DEF w
<1>7. MessagesOf(Cat(e, t), c) = Cat(MessagesOf(e, c), MessagesOf(t, c))
  BY <1>1, <1>4, MessagesCat
<1> QED
  BY <1>5, <1>6, <1>7 DEF h, t

-----------------------------------------------------------------------------
(* The inductive invariant.                                                *)

\* What an interrupt of a connection brings.
Brought(e) == e.agent # None => e.msg \in Message

SchedType ==
  /\ type \in {"FETCH1", "FETCH2", "EXECUTE"}
  /\ expire \in Nat \cup {Never}
  /\ master.fetched # None <=> type = "EXECUTE"
  /\ InterruptAgent \in Conn \cup {None}
  /\ InterruptQueue \in Seq(Interrupt)
  /\ ReceivedMsg \in AnyMsg
  /\ effects \in 0..MaxEffects

\* Messages come from an agent, except when it is a command that wakes up the
\* router; then no read thread is waiting for one.
InterruptsOK ==
  /\ \A i \in 1..Len(InterruptQueue) : Brought(InterruptQueue[i])
  /\ InterruptAgent # None => ReceivedMsg \in Message
  /\ \A c \in Conn : On(master, Read(c)) => ReceivedMsg \in Message

\* Only a router that waits has an agent that ended the wait; and it waits for
\* the first of the timers while it has nothing to do.
WaitOK ==
  /\ type # "FETCH2" => InterruptAgent = None
  /\ type = "FETCH2" =>
       /\ \A c \in Conn : ~On(master, Read(c))
       /\ \A t \in Range(master.timer) : expire # Never /\ expire <= master.left[t]
       /\ expire # 0 => /\ master.event = << >> /\ master.ready = << >>
                        /\ InterruptQueue = << >> /\ InterruptAgent = None
  /\ expire = Never => type = "FETCH2"

Sched == SchedType /\ MasterOK(master) /\ InterruptsOK /\ WaitOK

\* A thread that will run, or runs.
IsDue(m, th) == th \in Range(m.event) \/ m.fetched = th

\* What a connection has in the scheduler: somebody who listens or is about to
\* read, unless it was closed, or is about to be opened or closed.
ConnOK(m, ty, st, c) ==
  /\ st = "Open" => c \in m.read \/ On(m, Read(c))
  /\ st = "Gone" => c \notin m.read /\ ~On(m, Read(c)) /\ ~IsDue(m, Opened(c))
  /\ st = "Connect" =>
       \/ c \in m.read \/ On(m, Read(c))
       \/ ty # "FETCH2" /\ (IsDue(m, Opened(c)) \/ IsDue(m, Stop(c)))

Conns ==
  /\ status \in [Conn -> {"Connect", "Open", "Gone"}]
  /\ got \in [Conn -> Message]
  /\ \A c \in Conn : ConnOK(master, type, status[c], c)

TransportType ==
  /\ m_msgs \in [Conn -> Seq(Message)]
  /\ first \in [Conn -> Nat]
  /\ wire \in [Conn -> Nat]
  /\ link \in [Conn -> {"opening", "open", "closing", "closed"}]
  /\ sent \in [Conn -> Nat]

\* msgs are the messages of a connection, f its bytes that have come, w those on
\* their way, and n the messages that were sent.
TransportOK(st, msgs, f, w, l, n) ==
  /\ Sized(msgs)
  /\ msgs = << >> => f = 0
  /\ msgs # << >> => f < Head(msgs).size
  /\ l = "opening" => msgs = << >> /\ w = 0 /\ n = 0
  /\ st # "Gone" /\ l = "open" => f + w = Bytes(msgs, Len(msgs))

Transport ==
  /\ TransportType
  /\ \A c \in Conn : TransportOK(status[c], m_msgs[c], first[c], wire[c], link[c], sent[c])

IInv == Sched /\ Conns /\ Transport

\* It implies the type invariant.
LEMMA InvIsTyped == IInv => TypeOK
<1>1. Interrupt = [agent : Conn \cup {None}, msg : Message \cup {None}]
  BY DEF Interrupt, AnyMsg
<1>2. IInv => /\ master \in MasterType
              /\ SchedType /\ TransportType
              /\ status \in [Conn -> {"Connect", "Open", "Gone"}]
              /\ got \in [Conn -> Message]
  BY DEF IInv, Sched, MasterOK, Conns, Transport
<1> QED
  BY <1>1, <1>2 DEF TypeOK, SchedType, TransportType, AnyMsg

\* Messages that a session sends and the close of one.
LEMMA ZeroTyped == \A c \in Conn : Zero(c) \in Message /\ Zero(c) \in AnyMsg
<1> SUFFICES ASSUME NEW c \in Conn PROVE Zero(c) \in Message
  BY DEF AnyMsg
<1>1. 0 \in 0..MaxMessages[c] /\ 0 \in Size \cup {0}
  BY BoundAssumption
<1>2. Zero(c) \in [conn : {c}, id : 0..MaxMessages[c], size : Size \cup {0}]
  BY <1>1 DEF Zero
<1> QED
  BY <1>2 DEF Message

\* The initial states.
LEMMA InitInv == Init => IInv
<1> SUFFICES ASSUME Init PROVE IInv
  OBVIOUS
<1>1. PICK timer \in TimerLists(StartTime) :
        master = [ read |-> Conn, ready |-> << >>, timer |-> timer,
                   left |-> StartTime, event |-> << >>, fetched |-> None,
                   freed |-> FALSE ]
  BY DEF Init
<1>2. /\ timer \in Seq(Timer)
      /\ Ordered(timer, StartTime)
  <2>1. Cardinality(Timer) \in Nat
    BY TimerAssumption, FS_CardinalityType
  <2>2. /\ timer \in [1..Cardinality(Timer) -> Timer]
        /\ \A i, j \in DOMAIN timer : i < j => StartTime[timer[i]] <= StartTime[timer[j]]
    BY DEF TimerLists
  <2>3. timer \in Seq(Timer) /\ DOMAIN timer = 1..Len(timer)
    BY <2>1, <2>2
  <2> QED
    BY <2>2, <2>3 DEF Ordered
<1>3. StartTime \in [Timer -> Nat]
  BY TimerAssumption
<1>4. /\ master.read = Conn /\ master.ready = << >> /\ master.timer = timer
      /\ master.left = StartTime /\ master.event = << >> /\ master.fetched = None
      /\ master.freed = FALSE /\ master \in MasterType
  <2>1. << >> \in Seq(Thread)
    OBVIOUS
  <2> QED
    BY <1>1, <1>2, <1>3, <2>1 DEF MasterType
<1>5. Range(<< >>) = {} /\ Len(<< >>) = 0
  BY DEF Range
<1>6. \A c \in Conn : ~On(master, Read(c))
  BY <1>4, <1>5, Threads DEF On, IsFetched
<1>7. MasterOK(master)
  BY <1>2, <1>4, <1>5, <1>6, Threads DEF MasterOK, ReadOnce, Once
<1>8. SchedType
  <2>1. << >> \in Seq(Interrupt) /\ None \in AnyMsg /\ None \in Conn \cup {None}
    BY DEF AnyMsg
  <2> QED
    BY <1>4, <2>1, BoundAssumption DEF Init, SchedType
<1>9. InterruptsOK /\ WaitOK
  <2>1. /\ type = "FETCH1" /\ expire = 0 /\ InterruptQueue = << >>
        /\ InterruptAgent = None
    BY DEF Init
  <2>2. InterruptsOK
    BY <1>6, <2>1 DEF InterruptsOK
  <2>3. expire # Never
    BY <2>1, NeverAssumption
  <2>4. WaitOK
    BY <2>1, <2>3 DEF WaitOK
  <2> QED
    BY <2>2, <2>4
<1>10. Conns
  BY <1>4, ZeroTyped DEF Init, Conns, ConnOK
<1>11. Transport
  <2>1. << >> \in Seq(Message)
    OBVIOUS
  <2>2. Sized(<< >>) /\ Bytes(<< >>, Len(<< >>)) = 0
    <3>1. Len(<< >>) = 0 /\ Len(<< >>) \in Nat
      OBVIOUS
    <3> QED
      BY <3>1, BytesStep DEF Sized
  <2>3. TransportType
    BY <2>1 DEF Init, TransportType
  <2>4. ASSUME NEW c \in Conn
        PROVE  TransportOK(status[c], m_msgs[c], first[c], wire[c], link[c], sent[c])
    <3>1. m_msgs[c] = << >> /\ first[c] = 0 /\ wire[c] = 0 /\ sent[c] = 0 /\ link[c] = "opening"
      BY DEF Init
    <3> QED
      BY <2>2, <3>1 DEF TransportOK
  <2> QED
    BY <2>3, <2>4 DEF Transport
<1> QED
  BY <1>7, <1>8, <1>9, <1>10, <1>11 DEF IInv, Sched

-----------------------------------------------------------------------------
(* The inductive invariant is preserved: the scheduler.                    *)

\* The connections, when nothing about them changes in the scheduler.
LEMMA ConnsKept ==
  ASSUME Conns, Kept(master, master'), UNCHANGED <<type, status, got>>
  PROVE  Conns'
<1>1. ASSUME NEW c \in Conn PROVE ConnOK(master', type, status[c], c)
  <2>1. ConnOK(master, type, status[c], c)
    BY DEF Conns
  <2> QED
    BY <2>1 DEF ConnOK, Kept, IsDue
<1>2. \A c \in Conn : ConnOK(master', type', status'[c], c)
  BY <1>1
<1> QED
  BY <1>2 DEF Conns

LEMMA FetchAtOnceInv == ASSUME IInv, FetchAtOnce PROVE IInv'
<1> USE DEF IInv, Sched
<1>1. master.fetched = None /\ type = "FETCH1" /\ expire = 0 /\ InterruptAgent = None
  BY DEF FetchAtOnce, SchedType, WaitOK
<1>2. /\ MasterOK(master') /\ master'.fetched \in Thread
      /\ master'.read = master.read
      /\ \A c \in Conn : On(master', Read(c)) <=> On(master, Read(c))
      /\ \A th \in EventThread : IsDue(master', th) <=> IsDue(master, th)
  <2>1. CASE /\ master.event # << >>
             /\ master' = [Fetch(master, Head(master.event)) EXCEPT !.event = Tail(@)]
    <3>1. /\ MasterOK(master')
          /\ master'.fetched \in EventThread /\ master'.read = master.read
          /\ Range(master.event) = Range(master'.event) \cup {master'.fetched}
          /\ \A c \in Conn : On(master', Read(c)) <=> On(master, Read(c))
      BY <1>1, <2>1, TakeEvent
    <3> QED
      BY <1>1, <3>1, Threads DEF IsDue
  <2>2. CASE /\ master.event = << >> /\ master.ready # << >>
             /\ master' = [Fetch(master, Head(master.ready)) EXCEPT !.ready = Tail(@)]
    <3>1. /\ MasterOK(master')
          /\ master'.fetched \in Thread /\ master'.fetched \notin EventThread
          /\ master'.read = master.read /\ master'.event = master.event
          /\ \A c \in Conn : On(master', Read(c)) <=> On(master, Read(c))
      BY <1>1, <2>2, TakeReady
    <3> QED
      BY <1>1, <3>1, Threads DEF IsDue
  <2> QED
    BY <2>1, <2>2 DEF FetchAtOnce
<1>3. /\ type' = "EXECUTE"
      /\ UNCHANGED <<expire, interrupts, transport, status, sent, got, effects>>
  BY DEF FetchAtOnce
<1>4. SchedType'
  BY <1>2, <1>3, Threads DEF SchedType, interrupts
<1>5. InterruptsOK'
  BY <1>2, <1>3 DEF InterruptsOK, interrupts
<1>6. WaitOK'
  BY <1>1, <1>3, NeverAssumption DEF WaitOK, interrupts
<1>7. Conns'
  <2>1. ASSUME NEW c \in Conn PROVE ConnOK(master', "EXECUTE", status[c], c)
    <3>1. ConnOK(master, type, status[c], c)
      BY DEF Conns
    <3>2. Opened(c) \in EventThread /\ Stop(c) \in EventThread
      BY Threads
    <3> QED
      BY <1>1, <1>2, <3>1, <3>2 DEF ConnOK
  <2>2. \A c \in Conn : ConnOK(master', type', status'[c], c)
    BY <1>3, <2>1
  <2> QED
    BY <1>3, <2>2 DEF Conns
<1>8. Transport'
  BY <1>3 DEF Transport, TransportType, transport
<1> QED
  BY <1>2, <1>4, <1>5, <1>6, <1>7, <1>8

LEMMA StartWaitInv == ASSUME IInv, StartWait PROVE IInv'
<1> USE DEF IInv, Sched
<1>1. /\ type = "FETCH1" /\ expire = 0 /\ master.fetched = None /\ InterruptAgent = None
      /\ master.event = << >> /\ master.ready = << >> /\ type' = "FETCH2"
      /\ UNCHANGED <<master, transport, status, sent, got, effects>>
  BY DEF StartWait, SchedType, WaitOK
<1>2. Range(<< >>) = {}
  BY DEF Range
<1>3. \A c \in Conn : ~On(master, Read(c))
  BY <1>1, <1>2, Threads DEF On, IsFetched
<1>4. /\ master.timer \in Seq(Timer) /\ master.left \in [Timer -> Nat]
      /\ Ordered(master.timer, master.left)
  BY Fields DEF MasterOK
<1>5. \A t \in Range(master.timer) : t \in Timer /\ master.left[t] \in Nat
  BY <1>4, RangeFacts
<1>6. ASSUME InterruptQueue = << >> PROVE (SchedType /\ InterruptsOK /\ WaitOK)'
  <2>1. /\ expire' = IF master.timer = << >> THEN Never ELSE master.left[Head(master.timer)]
        /\ UNCHANGED interrupts
    BY <1>6 DEF StartWait
  <2>2. /\ expire' \in Nat \cup {Never}
        /\ \A t \in Range(master.timer) : expire' # Never /\ expire' <= master.left[t]
    <3>1. CASE master.timer = << >>
      BY <1>2, <2>1, <3>1
    <3>2. CASE master.timer # << >>
      <4>1. 1 \in 1..Len(master.timer) /\ Head(master.timer) = master.timer[1]
        BY <1>4, <3>2
      <4>2. expire' = master.left[master.timer[1]]
        BY <2>1, <3>2, <4>1
      <4>3. master.timer[1] \in Timer
        BY <1>4, <4>1
      <4>4. expire' \in Nat /\ expire' # Never
        BY <1>4, <4>2, <4>3, NeverAssumption
      <4>5. ASSUME NEW t \in Range(master.timer) PROVE expire' <= master.left[t]
        <5>1. PICK i \in 1..Len(master.timer) : master.timer[i] = t
          BY <1>4, RangeFacts
        <5>2. CASE i = 1
          BY <4>2, <4>4, <5>1, <5>2
        <5>3. CASE i # 1
          <6>1. 1 < i
            BY <5>3
          <6> QED
            BY <1>4, <4>1, <4>2, <5>1, <6>1 DEF Ordered
        <5> QED
          BY <5>2, <5>3
      <4> QED
        BY <4>4, <4>5
    <3> QED
      BY <3>1, <3>2
  <2>3. SchedType'
    BY <1>1, <2>1, <2>2 DEF SchedType, interrupts
  <2>4. InterruptsOK'
    BY <1>1, <2>1 DEF InterruptsOK, interrupts
  <2>5. WaitOK'
    BY <1>1, <1>3, <1>6, <2>1, <2>2 DEF WaitOK, interrupts
  <2> QED
    BY <2>3, <2>4, <2>5
<1>7. ASSUME InterruptQueue # << >> PROVE (SchedType /\ InterruptsOK /\ WaitOK)'
  <2> DEFINE h == Head(InterruptQueue)
  <2>1. /\ InterruptAgent' = h.agent /\ ReceivedMsg' = h.msg
        /\ InterruptQueue' = Tail(InterruptQueue)
        /\ expire' = 0
    BY <1>1, <1>7 DEF StartWait
  <2>2. /\ h \in Interrupt /\ h = InterruptQueue[1] /\ 1 \in 1..Len(InterruptQueue)
        /\ InterruptQueue' \in Seq(Interrupt)
        /\ Len(InterruptQueue') = Len(InterruptQueue) - 1 /\ Len(InterruptQueue) \in Nat
        /\ \A i \in 1..(Len(InterruptQueue) - 1) : InterruptQueue'[i] = InterruptQueue[i + 1]
    BY <1>7, <2>1, HeadTailProperties DEF SchedType
  <2>3. h.agent \in Conn \cup {None} /\ h.msg \in AnyMsg /\ Brought(h)
    BY <2>2 DEF Interrupt, InterruptsOK
  <2> HIDE DEF h
  <2>4. SchedType'
    BY <1>1, <2>1, <2>2, <2>3 DEF SchedType
  <2>5. \A i \in 1..Len(InterruptQueue') : Brought(InterruptQueue'[i])
    <3>1. \A i \in 1..(Len(InterruptQueue) - 1) : i + 1 \in 1..Len(InterruptQueue)
      BY <2>2
    <3> QED
      BY <2>2, <3>1 DEF InterruptsOK
  <2>6. InterruptsOK'
    BY <1>1, <1>3, <2>1, <2>3, <2>5 DEF InterruptsOK, Brought
  <2>7. \A t \in Range(master.timer) : expire' # Never /\ expire' <= master.left[t]
    BY <1>5, <2>1, NeverAssumption
  <2>8. WaitOK'
    BY <1>1, <1>3, <2>1, <2>7, NeverAssumption DEF WaitOK
  <2> QED
    BY <2>4, <2>6, <2>8
<1>8. Conns'
  <2>1. ASSUME NEW c \in Conn PROVE ConnOK(master, "FETCH2", status[c], c)
    <3>1. ConnOK(master, type, status[c], c)
      BY DEF Conns
    <3>2. ~IsDue(master, Opened(c)) /\ ~IsDue(master, Stop(c))
      BY <1>1, <1>2, Threads DEF IsDue
    <3> QED
      BY <3>1, <3>2 DEF ConnOK
  <2>2. \A c \in Conn : ConnOK(master', type', status'[c], c)
    BY <1>1, <2>1
  <2> QED
    BY <1>1, <2>2 DEF Conns
<1>9. Transport'
  BY <1>1 DEF Transport, TransportType, transport
<1>10. MasterOK(master')
  BY <1>1
<1>11. (SchedType /\ InterruptsOK /\ WaitOK)'
  BY <1>6, <1>7
<1> QED
  BY <1>8, <1>9, <1>10, <1>11

\* What the end of the wait leaves.
LEMMA EndWaitFacts ==
  ASSUME IInv, EndWait
  PROVE  /\ type = "FETCH2" /\ expire = 0 /\ master.fetched = None
         /\ type' \in {"FETCH1", "EXECUTE"}
         /\ (master'.fetched # None <=> type' = "EXECUTE")
         /\ MasterOK(master') /\ master'.event = master.event
         /\ master'.fetched \notin EventThread
         /\ master'.read = master.read \ {InterruptAgent}
         /\ \A c \in Conn : On(master', Read(c)) <=> c = InterruptAgent /\ c \in master.read
<1> DEFINE h == Heard(master)
           m == Due(h)
<1>1. /\ type = "FETCH2" /\ expire = 0 /\ master.fetched = None /\ MasterOK(master)
      /\ \A c \in Conn : ~On(master, Read(c))
  BY DEF IInv, Sched, SchedType, WaitOK, EndWait
<1>2. /\ MasterOK(h) /\ h.fetched = None /\ h.event = master.event
      /\ h.read = master.read \ {InterruptAgent}
      /\ \A c \in Conn : On(h, Read(c)) <=> c = InterruptAgent /\ c \in master.read
  BY <1>1, HeardFacts
<1>3. IF m.ready = << >>
        THEN master' = m /\ type' = "FETCH1"
        ELSE /\ master' = [Fetch(m, Head(m.ready)) EXCEPT !.ready = Tail(@)]
             /\ type' = "EXECUTE"
  BY DEF EndWait
<1> HIDE DEF h
<1>4. /\ MasterOK(m) /\ m.fetched = None /\ m.event = h.event /\ m.read = h.read
      /\ \A c \in Conn : On(m, Read(c)) <=> On(h, Read(c))
  BY <1>2, DueFacts
<1> HIDE DEF m
<1>5. None \notin Thread /\ EventThread \subseteq Thread
  BY Threads
<1>6. CASE m.ready = << >>
  BY <1>1, <1>2, <1>3, <1>4, <1>5, <1>6
<1>7. CASE m.ready # << >>
  <2>1. /\ MasterOK(master')
        /\ master'.fetched \in Thread /\ master'.fetched \notin EventThread
        /\ master'.read = m.read /\ master'.event = m.event
        /\ \A c \in Conn : On(master', Read(c)) <=> On(m, Read(c))
    BY <1>3, <1>4, <1>7, TakeReady
  <2> QED
    BY <1>1, <1>2, <1>3, <1>4, <1>5, <1>7, <2>1
<1> QED
  BY <1>6, <1>7

LEMMA EndWaitInv == ASSUME IInv, EndWait PROVE IInv'
<1>1. /\ type = "FETCH2" /\ expire = 0 /\ master.fetched = None
      /\ type' \in {"FETCH1", "EXECUTE"}
      /\ (master'.fetched # None <=> type' = "EXECUTE")
      /\ MasterOK(master') /\ master'.event = master.event
      /\ master'.fetched \notin EventThread
      /\ master'.read = master.read \ {InterruptAgent}
      /\ \A c \in Conn : On(master', Read(c)) <=> c = InterruptAgent /\ c \in master.read
  BY EndWaitFacts
<1>2. /\ InterruptAgent' = None
      /\ UNCHANGED <<expire, InterruptQueue, ReceivedMsg, transport, status, sent, got, effects>>
  BY DEF EndWait
<1> USE DEF IInv, Sched
<1>3. SchedType'
  BY <1>1, <1>2 DEF SchedType
<1>4. InterruptsOK'
  BY <1>1, <1>2, Threads DEF InterruptsOK
<1>5. WaitOK'
  BY <1>1, <1>2, NeverAssumption DEF WaitOK
<1>6. Conns'
  <2>1. ASSUME NEW c \in Conn PROVE ConnOK(master', type', status[c], c)
    <3>1. ConnOK(master, type, status[c], c) /\ ~On(master, Read(c))
      BY <1>1 DEF Conns, WaitOK
    <3>2. IsDue(master', Opened(c)) => IsDue(master, Opened(c))
      BY <1>1, Threads DEF IsDue
    <3> QED
      BY <1>1, <3>1, <3>2 DEF ConnOK
  <2>2. \A c \in Conn : ConnOK(master', type', status'[c], c)
    BY <1>2, <2>1
  <2> QED
    BY <1>2, <2>2 DEF Conns
<1>7. Transport'
  BY <1>2 DEF Transport, TransportType, transport
<1> QED
  BY <1>1, <1>3, <1>4, <1>5, <1>6, <1>7

-----------------------------------------------------------------------------
(* The functions of the threads.                                           *)

\* The thread that is called.
LEMMA CallFacts ==
  ASSUME IInv, NEW func, Calls(func)
  PROVE  /\ type = "EXECUTE" /\ type' = "FETCH1" /\ expire' \in Nat
         /\ InterruptAgent = None
         /\ master.fetched \in Thread /\ master.fetched.func = func
         /\ MasterOK(Running) /\ Running.fetched = None
         /\ Running.read = master.read /\ Running.event = master.event
         /\ \A c \in Conn : On(Running, Read(c)) <=> On(master, Read(c)) /\ master.fetched # Read(c)
<1>1. /\ type = "EXECUTE" /\ type' = "FETCH1" /\ expire' \in 0..MaxWorkload
      /\ master.fetched.func = func
  BY DEF Calls
<1>2. MasterOK(master) /\ SchedType /\ WaitOK
  BY DEF IInv, Sched
<1>3. master.fetched \in Thread
  <2>1. master.fetched \in Thread \cup {None}
    BY <1>2, Fields DEF MasterOK
  <2> QED
    BY <1>1, <1>2, <2>1 DEF SchedType
<1>4. InterruptAgent = None
  BY <1>1, <1>2 DEF WaitOK
<1>5. /\ MasterOK(Running) /\ Running.fetched = None
      /\ Running.read = master.read /\ Running.event = master.event
      /\ \A c \in Conn : On(Running, Read(c)) <=> On(master, Read(c)) /\ master.fetched # Read(c)
  BY <1>2, RunningFacts DEF Running
<1> QED
  BY <1>1, <1>3, <1>4, <1>5, BoundAssumption

\* A read thread is called, and its pointer was set.
LEMMA ReadCalled ==
  ASSUME IInv, Calls("bgp_read")
  PROVE  /\ Callee \in Conn /\ master.fetched = Read(Callee)
         /\ On(master, Read(Callee)) /\ ReceivedMsg \in Message
         /\ status[Callee] # "Gone"
<1>1. master.fetched \in Thread /\ master.fetched.func = "bgp_read"
  BY CallFacts
<1>2. master.fetched.arg \in Conn /\ master.fetched = Read(master.fetched.arg)
  BY <1>1 DEF Thread, Event, Read
<1>3. Callee \in Conn /\ master.fetched = Read(Callee)
  BY <1>2 DEF Callee
<1>4. On(master, Read(Callee))
  BY <1>3, OnIs DEF IInv, Sched
<1> QED
  BY <1>3, <1>4 DEF IInv, Sched, InterruptsOK, Conns, ConnOK

\* The function of an event is called.
LEMMA EventCalled ==
  ASSUME IInv, NEW e \in Event, Calls(e)
  PROVE  Callee \in Conn /\ master.fetched = [func |-> e, arg |-> Callee]
<1>1. master.fetched \in Thread /\ master.fetched.func = e
  BY CallFacts
<1>2. e # "bgp_read" /\ e # "bgp_write" /\ e # "timer"
  BY DEF Event
<1>3. master.fetched.arg \in Conn /\ master.fetched = [func |-> e, arg |-> master.fetched.arg]
  BY <1>1, <1>2 DEF Thread
<1> QED
  BY <1>3 DEF Callee

\* What a call leaves of the scheduler.
LEMMA CalledSched ==
  ASSUME IInv, NEW func, Calls(func), UNCHANGED interrupts,
         MasterOK(master'), master'.fetched = None, effects' \in 0..MaxEffects,
         \A c \in Conn : On(master', Read(c)) => On(master, Read(c))
  PROVE  Sched'
<1>1. /\ type = "EXECUTE" /\ type' = "FETCH1" /\ expire' \in Nat /\ InterruptAgent = None
  BY CallFacts
<1>2. UNCHANGED <<InterruptQueue, InterruptAgent, ReceivedMsg>>
  BY DEF interrupts
<1>3. SchedType /\ InterruptsOK
  BY DEF IInv, Sched
<1>4. SchedType'
  BY <1>1, <1>2, <1>3 DEF SchedType
<1>5. InterruptsOK'
  BY <1>2, <1>3 DEF InterruptsOK
<1>6. WaitOK'
  BY <1>1, <1>2, NeverAssumption DEF WaitOK
<1> QED
  BY <1>4, <1>5, <1>6 DEF Sched

\* m2 has for d what m had.
SameFor(m, m2, d) ==
  /\ d \in m2.read <=> d \in m.read
  /\ On(m2, Read(d)) <=> On(m, Read(d))
  /\ Opened(d) \in Range(m2.event) <=> Opened(d) \in Range(m.event)
  /\ Stop(d) \in Range(m.event) => Stop(d) \in Range(m2.event)
  /\ m2.fetched = None
  /\ m.fetched # Opened(d) /\ m.fetched # Stop(d)

LEMMA SameForOK ==
  ASSUME NEW m, NEW m2, NEW d \in Conn, NEW st, NEW ty, SameFor(m, m2, d), ConnOK(m, ty, st, d)
  PROVE  ConnOK(m2, "FETCH1", st, d)
<1>1. None # Opened(d)
  BY Threads
<1> QED
  BY <1>1 DEF SameFor, ConnOK, IsDue

\* All connections but one.
LEMMA OthersOK ==
  ASSUME Conns, NEW c \in Conn, type' = "FETCH1",
         \A d \in Conn : d # c => SameFor(master, master', d) /\ status'[d] = status[d],
         ConnOK(master', "FETCH1", status'[c], c),
         status' \in [Conn -> {"Connect", "Open", "Gone"}], got' \in [Conn -> Message]
  PROVE  Conns'
<1>1. ASSUME NEW d \in Conn PROVE ConnOK(master', "FETCH1", status'[d], d)
  <2>1. CASE d = c
    BY <2>1
  <2>2. CASE d # c
    <3>1. ConnOK(master, type, status[d], d)
      BY DEF Conns
    <3> QED
      BY <2>2, <3>1, SameForOK
  <2> QED
    BY <2>1, <2>2
<1>2. \A d \in Conn : ConnOK(master', type', status'[d], d)
  BY <1>1
<1> QED
  BY <1>2 DEF Conns

LEMMA ReadConnectingInv ==
  ASSUME IInv, ReadConnecting
  PROVE  /\ IInv'
         /\ \A d \in Conn : On(master', Read(d)) <=> On(master, Read(d)) /\ d # Callee
<1> DEFINE c == Callee
           e == IF link[c] \in {"open", "closing"} THEN "opened" ELSE "stop"
           th == [func |-> e, arg |-> c]
<1>1. /\ Calls("bgp_read") /\ status[c] = "Connect"
      /\ master' = EventAdd(Running, c, e)
      /\ got' = [got EXCEPT ![c] = ReceivedMsg]
      /\ UNCHANGED <<interrupts, transport, status, sent, effects>>
  BY DEF ReadConnecting
<1>2. /\ c \in Conn /\ master.fetched = Read(c) /\ On(master, Read(c))
      /\ ReceivedMsg \in Message
  BY <1>1, ReadCalled
<1>3. /\ type' = "FETCH1"
      /\ MasterOK(Running) /\ Running.fetched = None
      /\ Running.read = master.read /\ Running.event = master.event
      /\ \A d \in Conn : On(Running, Read(d)) <=> On(master, Read(d)) /\ master.fetched # Read(d)
  BY <1>1, CallFacts
<1>4. e \in Event /\ (th = Opened(c) \/ th = Stop(c))
  BY DEF Event, Opened, Stop
<1> HIDE DEF c, e
<1>5. /\ MasterOK(master')
      /\ master'.fetched = None /\ master'.read = master.read
      /\ \A d \in Conn : On(master', Read(d)) <=> On(Running, Read(d))
      /\ Range(master'.event) = Range(master.event) \cup {th}
  BY <1>1, <1>2, <1>3, <1>4, EventAddFacts
<1> HIDE DEF th
<1>6. Sched'
  <2>1. effects' \in 0..MaxEffects
    BY <1>1 DEF IInv, Sched, SchedType
  <2>2. \A d \in Conn : On(master', Read(d)) => On(master, Read(d))
    BY <1>3, <1>5
  <2>3. UNCHANGED interrupts
    BY <1>1
  <2> QED
    BY <1>1, <1>5, <2>1, <2>2, <2>3, CalledSched
<1>7. Conns'
  <2>1. ASSUME NEW d \in Conn, d # c PROVE SameFor(master, master', d)
    <3>1. Read(d) # Read(c) /\ Read(c) # Opened(d) /\ Read(c) # Stop(d)
          /\ th # Opened(d)
      BY <1>2, <1>4, <2>1, Threads
    <3> QED
      BY <1>2, <1>3, <1>5, <3>1 DEF SameFor
  <2>2. ConnOK(master', "FETCH1", status'[c], c)
    <3>1. status'[c] = "Connect" /\ (IsDue(master', Opened(c)) \/ IsDue(master', Stop(c)))
      BY <1>1, <1>4, <1>5 DEF IsDue
    <3> QED
      BY <3>1 DEF ConnOK
  <2>3. Conns
    BY DEF IInv
  <2>4. /\ status' \in [Conn -> {"Connect", "Open", "Gone"}]
        /\ got' \in [Conn -> Message]
    BY <1>1, <1>2, <2>3 DEF Conns
  <2>5. \A d \in Conn : d # c => SameFor(master, master', d) /\ status'[d] = status[d]
    BY <1>1, <2>1
  <2> QED
    BY <1>2, <1>3, <2>2, <2>3, <2>4, <2>5, OthersOK
<1>8. Transport'
  BY <1>1 DEF IInv, Transport, TransportType, transport
<1>9. ASSUME NEW d \in Conn PROVE On(master', Read(d)) <=> On(master, Read(d)) /\ d # c
  <2>1. Read(d) = Read(c) <=> d = c
    BY DEF Read
  <2> QED
    BY <1>2, <1>3, <1>5, <2>1
<1> QED
  BY <1>6, <1>7, <1>8, <1>9 DEF IInv, c

LEMMA ReadMessageInv ==
  ASSUME IInv, ReadMessage
  PROVE  /\ IInv'
         /\ \A d \in Conn : On(master', Read(d)) <=> On(master, Read(d)) /\ d # Callee
<1> DEFINE c == Callee
           m == ReadOn(Running, c)
<1>1. /\ Calls("bgp_read") /\ status[c] # "Connect"
      /\ IF ReceivedMsg.size = 0
           THEN master' = EventAdd(m, c, "stop") /\ UNCHANGED effects
           ELSE Affected(m, master')
      /\ got' = [got EXCEPT ![c] = ReceivedMsg]
      /\ UNCHANGED <<interrupts, transport, status, sent>>
  BY DEF ReadMessage
<1>2. /\ c \in Conn /\ master.fetched = Read(c) /\ On(master, Read(c))
      /\ ReceivedMsg \in Message /\ status[c] # "Gone"
  BY <1>1, ReadCalled
<1>3. /\ type' = "FETCH1"
      /\ MasterOK(Running) /\ Running.fetched = None
      /\ Running.read = master.read /\ Running.event = master.event
      /\ \A d \in Conn : On(Running, Read(d)) <=> On(master, Read(d)) /\ master.fetched # Read(d)
  BY <1>1, CallFacts
<1> HIDE DEF c
<1>4. /\ MasterOK(m)
      /\ m.fetched = None /\ m.event = master.event
      /\ \A d \in Conn : On(m, Read(d)) <=> On(master, Read(d)) /\ master.fetched # Read(d)
      /\ c \in m.read \/ On(m, Read(c))
      /\ \A d \in Conn : d # c => (d \in m.read <=> d \in master.read)
  BY <1>2, <1>3, ReadOnFacts
<1> HIDE DEF m
<1>5. effects \in 0..MaxEffects
  BY DEF IInv, Sched, SchedType
<1>6. MasterOK(master') /\ Kept(m, master') /\ effects' \in 0..MaxEffects
  <2>1. CASE ReceivedMsg.size = 0
    <3>1. "stop" \in {"stop", "other"}
      OBVIOUS
    <3> QED
      BY <1>1, <1>2, <1>4, <1>5, <2>1, <3>1, EventAddOK
  <2>2. CASE ReceivedMsg.size # 0
    BY <1>1, <1>4, <1>5, <2>2, AffectedOK
  <2> QED
    BY <2>1, <2>2
<1>7. /\ master'.fetched = None /\ master'.read = m.read
      /\ \A d \in Conn : On(master', Read(d)) <=> On(m, Read(d))
  BY <1>4, <1>6 DEF Kept
<1>8. Sched'
  <2>1. \A d \in Conn : On(master', Read(d)) => On(master, Read(d))
    BY <1>4, <1>7
  <2>2. UNCHANGED interrupts
    BY <1>1
  <2> QED
    BY <1>1, <1>6, <1>7, <2>1, <2>2, CalledSched
<1>9. Conns'
  <2>1. ASSUME NEW d \in Conn, d # c PROVE SameFor(master, master', d)
    <3>1. Read(d) # Read(c) /\ Read(c) # Opened(d) /\ Read(c) # Stop(d)
      BY <1>2, <2>1, Threads
    <3> QED
      BY <1>2, <1>4, <1>6, <1>7, <2>1, <3>1 DEF SameFor, Kept
  <2>2. Conns
    BY DEF IInv
  <2>3. ConnOK(master', "FETCH1", status'[c], c)
    <3>1. status'[c] = "Open"
      BY <1>1, <1>2, <2>2 DEF Conns
    <3>2. c \in master'.read \/ On(master', Read(c))
      BY <1>2, <1>4, <1>7
    <3> QED
      BY <3>1, <3>2 DEF ConnOK
  <2>4. /\ status' \in [Conn -> {"Connect", "Open", "Gone"}]
        /\ got' \in [Conn -> Message]
    BY <1>1, <1>2, <2>2 DEF Conns
  <2>5. \A d \in Conn : d # c => SameFor(master, master', d) /\ status'[d] = status[d]
    BY <1>1, <2>1
  <2> QED
    BY <1>2, <1>3, <2>2, <2>3, <2>4, <2>5, OthersOK
<1>10. Transport'
  BY <1>1 DEF IInv, Transport, TransportType, transport
<1>11. ASSUME NEW d \in Conn PROVE On(master', Read(d)) <=> On(master, Read(d)) /\ d # c
  <2>1. Read(d) = Read(c) <=> d = c
    BY DEF Read
  <2> QED
    BY <1>2, <1>4, <1>7, <2>1
<1> QED
  BY <1>8, <1>9, <1>10, <1>11 DEF IInv, c

LEMMA EventOpenedInv ==
  ASSUME IInv, EventOpened
  PROVE  /\ IInv'
         /\ Callee \in Conn /\ status[Callee] # "Gone"
         /\ \A d \in Conn : On(master', Read(d)) <=> On(master, Read(d))
<1> DEFINE c == Callee
           m == ReadOn(Running, c)
           m2 == WriteOn(m, c)
<1>1. /\ Calls("opened")
      /\ Affected(m2, master')
      /\ status' = [status EXCEPT ![c] = "Open"]
      /\ UNCHANGED <<interrupts, transport, sent, got>>
  BY DEF EventOpened
<1>2. c \in Conn /\ master.fetched = Opened(c)
  BY <1>1, EventCalled DEF Event, Opened
<1>3. /\ type' = "FETCH1"
      /\ MasterOK(Running) /\ Running.fetched = None
      /\ Running.read = master.read /\ Running.event = master.event
      /\ \A d \in Conn : On(Running, Read(d)) <=> On(master, Read(d)) /\ master.fetched # Read(d)
  BY <1>1, CallFacts
<1> HIDE DEF c
<1>4. /\ MasterOK(m)
      /\ m.fetched = None /\ m.event = master.event
      /\ \A d \in Conn : On(m, Read(d)) <=> On(master, Read(d)) /\ master.fetched # Read(d)
      /\ c \in m.read \/ On(m, Read(c))
      /\ \A d \in Conn : d # c => (d \in m.read <=> d \in master.read)
  BY <1>2, <1>3, ReadOnFacts
<1> HIDE DEF m
<1>5. effects \in 0..MaxEffects
  BY DEF IInv, Sched, SchedType
<1>6. MasterOK(m2) /\ Kept(m, m2)
  BY <1>2, <1>4, WriteOnOK
<1> HIDE DEF m2
<1>7. MasterOK(master') /\ Kept(m2, master') /\ effects' \in 0..MaxEffects
  BY <1>1, <1>5, <1>6, AffectedOK
<1>8. Kept(m, master')
  BY <1>6, <1>7, KeptTwice
<1>9. /\ master'.fetched = None /\ master'.read = m.read
      /\ \A d \in Conn : On(master', Read(d)) <=> On(m, Read(d))
  BY <1>4, <1>8 DEF Kept
<1>10. Sched'
  <2>1. \A d \in Conn : On(master', Read(d)) => On(master, Read(d))
    BY <1>4, <1>9
  <2>2. UNCHANGED interrupts
    BY <1>1
  <2> QED
    BY <1>1, <1>7, <1>9, <2>1, <2>2, CalledSched
<1>11. Conns
  BY DEF IInv
<1>12. Conns'
  <2>1. ASSUME NEW d \in Conn, d # c PROVE SameFor(master, master', d)
    <3>1. Read(d) # Opened(c) /\ Opened(c) # Opened(d) /\ Opened(c) # Stop(d)
      BY <1>2, <2>1, Threads
    <3> QED
      BY <1>2, <1>4, <1>8, <1>9, <2>1, <3>1 DEF SameFor, Kept
  <2>3. ConnOK(master', "FETCH1", status'[c], c)
    <3>1. status'[c] = "Open"
      BY <1>1, <1>2, <1>11 DEF Conns
    <3>2. c \in master'.read \/ On(master', Read(c))
      BY <1>2, <1>4, <1>9
    <3> QED
      BY <3>1, <3>2 DEF ConnOK
  <2>4. /\ status' \in [Conn -> {"Connect", "Open", "Gone"}]
        /\ got' \in [Conn -> Message]
    BY <1>1, <1>2, <1>11 DEF Conns
  <2>5. \A d \in Conn : d # c => SameFor(master, master', d) /\ status'[d] = status[d]
    BY <1>1, <1>11, <2>1 DEF Conns
  <2> QED
    BY <1>2, <1>3, <1>11, <2>3, <2>4, <2>5, OthersOK
<1>13. Transport'
  <2>1. status[c] # "Gone"
    BY <1>2, <1>11 DEF Conns, ConnOK, IsDue
  <2>2. \A d \in Conn : status[d] = "Gone" => status'[d] = "Gone"
    BY <1>1, <1>11, <2>1 DEF Conns
  <2>3. \A d \in Conn : status'[d] # "Gone" => status[d] # "Gone"
    BY <2>2
  <2>4. Transport
    BY DEF IInv
  <2>5. ASSUME NEW d \in Conn
        PROVE  TransportOK(status'[d], m_msgs[d], first[d], wire[d], link[d], sent[d])
    <3>1. TransportOK(status[d], m_msgs[d], first[d], wire[d], link[d], sent[d])
      BY <2>4 DEF Transport
    <3> QED
      BY <2>3, <3>1 DEF TransportOK
  <2>6. UNCHANGED <<m_msgs, first, wire, link, sent>>
    BY <1>1 DEF transport
  <2> QED
    BY <2>4, <2>5, <2>6 DEF Transport, TransportType
<1>14. ASSUME NEW d \in Conn PROVE On(master', Read(d)) <=> On(master, Read(d))
  <2>1. Read(d) # Opened(c)
    BY <1>2, Threads
  <2> QED
    BY <1>2, <1>4, <1>9, <2>1
<1>15. status[c] # "Gone"
  BY <1>2, <1>11 DEF Conns, ConnOK, IsDue
<1> QED
  BY <1>2, <1>10, <1>12, <1>13, <1>14, <1>15 DEF IInv, c

\* What is left of a connection that is closed.
LEMMA EventStopFacts ==
  ASSUME IInv, EventStop
  PROVE  /\ Callee \in Conn /\ master.fetched = Stop(Callee)
         /\ MasterOK(master') /\ master'.fetched = None /\ effects' \in 0..MaxEffects
         /\ Callee \notin master'.read /\ ~On(master', Read(Callee))
         /\ Opened(Callee) \notin Range(master'.event)
         /\ \A d \in Conn : d # Callee => SameFor(master, master', d)
<1> DEFINE c == Callee
           timers == {t \in Timer : Owner[t] = c}
           m == ReadOff(Running, c)
           m2 == TimersOff(m, timers)
           m3 == EventDelete(m2, c)
<1>1. Calls("stop") /\ Affected(m3, master')
  BY DEF EventStop
<1>2. c \in Conn /\ master.fetched = Stop(c)
  BY <1>1, EventCalled DEF Event, Stop
<1>3. /\ MasterOK(Running) /\ Running.fetched = None
      /\ Running.read = master.read /\ Running.event = master.event
      /\ \A d \in Conn : On(Running, Read(d)) <=> On(master, Read(d)) /\ master.fetched # Read(d)
  BY <1>1, CallFacts
<1>4. timers \in SUBSET Timer
  OBVIOUS
<1> HIDE DEF c, timers
<1>5. /\ MasterOK(m)
      /\ m.fetched = None /\ m.event = master.event
      /\ \A d \in Conn : On(m, Read(d)) <=> d # c /\ On(Running, Read(d))
      /\ m.read = master.read \ {c}
  BY <1>2, <1>3, ReadOffFacts
<1> HIDE DEF m
<1>6. MasterOK(m2) /\ Kept(m, m2)
  BY <1>4, <1>5, TimersOffOK
<1> HIDE DEF m2
<1>7. /\ MasterOK(m3)
      /\ m3.fetched = m2.fetched /\ m3.read = m2.read
      /\ \A d \in Conn : On(m3, Read(d)) <=> On(m2, Read(d))
      /\ Opened(c) \notin Range(m3.event)
      /\ \A d \in Conn : d # c =>
           /\ Opened(d) \in Range(m3.event) <=> Opened(d) \in Range(m2.event)
           /\ Stop(d) \in Range(m3.event) <=> Stop(d) \in Range(m2.event)
  BY <1>2, <1>6, EventDeleteFacts
<1> HIDE DEF m3
<1>8. MasterOK(master') /\ Kept(m3, master') /\ effects' \in 0..MaxEffects
  <2>1. effects \in 0..MaxEffects
    BY DEF IInv, Sched, SchedType
  <2> QED
    BY <1>1, <1>7, <2>1, AffectedOK
<1>9. /\ master'.fetched = None /\ master'.read = master.read \ {c}
      /\ \A d \in Conn : On(master', Read(d)) <=> d # c /\ On(Running, Read(d))
      /\ Opened(c) \notin Range(master'.event)
  <2>1. m2.fetched = None /\ m2.read = master.read \ {c}
    BY <1>5, <1>6 DEF Kept
  <2>2. \A d \in Conn : On(m2, Read(d)) <=> d # c /\ On(Running, Read(d))
    BY <1>5, <1>6 DEF Kept
  <2> QED
    BY <1>2, <1>7, <1>8, <2>1, <2>2 DEF Kept
<1>10. ASSUME NEW d \in Conn, d # c PROVE SameFor(master, master', d)
  <2>1. Read(d) # Stop(c) /\ Opened(d) # Stop(c) /\ Stop(c) # Stop(d)
    BY <1>2, <1>10, Threads DEF Stop
  <2>2. On(master', Read(d)) <=> On(master, Read(d))
    BY <1>2, <1>3, <1>9, <1>10, <2>1
  <2>3. /\ Opened(d) \in Range(m2.event) <=> Opened(d) \in Range(master.event)
        /\ Stop(d) \in Range(master.event) => Stop(d) \in Range(m2.event)
    BY <1>5, <1>6 DEF Kept
  <2>4. /\ Opened(d) \in Range(master'.event) <=> Opened(d) \in Range(master.event)
        /\ Stop(d) \in Range(master.event) => Stop(d) \in Range(master'.event)
    BY <1>7, <1>8, <1>10, <2>3 DEF Kept
  <2> QED
    BY <1>2, <1>9, <1>10, <2>1, <2>2, <2>4 DEF SameFor
<1> QED
  BY <1>2, <1>8, <1>9, <1>10 DEF c

LEMMA EventStopInv == ASSUME IInv, EventStop PROVE IInv'
<1> DEFINE c == Callee
<1>1. /\ Calls("stop")
      /\ m_msgs' = [m_msgs EXCEPT ![c] = << >>]
      /\ first' = [first EXCEPT ![c] = 0]
      /\ status' = [status EXCEPT ![c] = "Gone"]
      /\ UNCHANGED <<interrupts, wire, link, sent, got>>
  BY DEF EventStop
<1>2. /\ c \in Conn /\ master.fetched = Stop(c)
      /\ MasterOK(master') /\ master'.fetched = None /\ effects' \in 0..MaxEffects
      /\ c \notin master'.read /\ ~On(master', Read(c))
      /\ Opened(c) \notin Range(master'.event)
      /\ \A d \in Conn : d # c => SameFor(master, master', d)
  BY EventStopFacts
<1>3. type' = "FETCH1"
  BY <1>1, CallFacts
<1> HIDE DEF c
<1>4. Sched'
  <2>1. \A d \in Conn : On(master', Read(d)) => On(master, Read(d))
    BY <1>2 DEF SameFor
  <2>2. UNCHANGED interrupts
    BY <1>1
  <2> QED
    BY <1>1, <1>2, <2>1, <2>2, CalledSched
<1>5. Conns
  BY DEF IInv
<1>6. Conns'
  <2>1. status' \in [Conn -> {"Connect", "Open", "Gone"}] /\ got' \in [Conn -> Message]
    BY <1>1, <1>2, <1>5 DEF Conns
  <2>2. \A d \in Conn : d # c => SameFor(master, master', d) /\ status'[d] = status[d]
    BY <1>1, <1>2, <1>5 DEF Conns
  <2>3. ConnOK(master', "FETCH1", status'[c], c)
    <3>1. status'[c] = "Gone" /\ None # Opened(c)
      BY <1>1, <1>2, <1>5, Threads DEF Conns
    <3> QED
      BY <1>2, <3>1 DEF ConnOK, IsDue
  <2> QED
    BY <1>2, <1>3, <1>5, <2>1, <2>2, <2>3, OthersOK
<1>7. Transport'
  <2>1. Transport
    BY DEF IInv
  <2>2. TransportType'
    BY <1>1, <1>2, <2>1 DEF Transport, TransportType
  <2>3. ASSUME NEW d \in Conn
        PROVE  TransportOK(status'[d], m_msgs'[d], first'[d], wire[d], link[d], sent[d])
    <3>1. TransportOK(status[d], m_msgs[d], first[d], wire[d], link[d], sent[d])
      BY <2>1 DEF Transport
    <3>2. CASE d = c
      <4>1. m_msgs'[d] = << >> /\ first'[d] = 0 /\ status'[d] = "Gone"
        BY <1>1, <1>2, <1>5, <2>1, <3>2 DEF Conns, Transport, TransportType
      <4>2. Sized(<< >>)
        BY DEF Sized
      <4> QED
        BY <3>1, <4>1, <4>2 DEF TransportOK
    <3>3. CASE d # c
      <4>1. m_msgs'[d] = m_msgs[d] /\ first'[d] = first[d] /\ status'[d] = status[d]
        BY <1>1, <1>2, <1>5, <2>1, <3>3 DEF Conns, Transport, TransportType
      <4> QED
        BY <3>1, <4>1
    <3> QED
      BY <3>2, <3>3
  <2>4. UNCHANGED <<wire, link, sent>>
    BY <1>1
  <2> QED
    BY <2>2, <2>3, <2>4 DEF Transport
<1> QED
  BY <1>4, <1>6, <1>7 DEF IInv

\* A thread that neither reads, opens nor closes a connection.
LEMMA RunPlainInv ==
  ASSUME IInv, NEW func \in {"other", "timer", "bgp_write"}, Calls(func),
         Affected(Running, master'), UNCHANGED <<interrupts, transport, status, sent, got>>
  PROVE  /\ IInv'
         /\ \A c \in Conn : On(master', Read(c)) <=> On(master, Read(c))
<1>1. /\ type = "EXECUTE" /\ type' = "FETCH1"
      /\ master.fetched \in Thread /\ master.fetched.func = func
      /\ MasterOK(Running) /\ Running.fetched = None
      /\ Running.read = master.read /\ Running.event = master.event
      /\ \A c \in Conn : On(Running, Read(c)) <=> On(master, Read(c)) /\ master.fetched # Read(c)
  BY CallFacts
<1>2. effects \in 0..MaxEffects
  BY DEF IInv, Sched, SchedType
<1>3. MasterOK(master') /\ Kept(Running, master') /\ effects' \in 0..MaxEffects
  BY <1>1, <1>2, AffectedOK
<1>4. ASSUME NEW c \in Conn
      PROVE  /\ master.fetched # Read(c) /\ master.fetched # Opened(c)
             /\ master.fetched # Stop(c)
  <2>1. Read(c).func = "bgp_read" /\ Opened(c).func = "opened" /\ Stop(c).func = "stop"
    BY DEF Read, Opened, Stop
  <2>2. func # "bgp_read" /\ func # "opened" /\ func # "stop"
    OBVIOUS
  <2> QED
    BY <1>1, <2>1, <2>2
<1>5. /\ master'.fetched = None
      /\ \A c \in Conn : On(master', Read(c)) <=> On(master, Read(c))
      /\ \A c \in Conn : SameFor(master, master', c)
  BY <1>1, <1>3, <1>4 DEF Kept, SameFor
<1>6. Sched'
  <2>1. \A d \in Conn : On(master', Read(d)) => On(master, Read(d))
    BY <1>5
  <2> QED
    BY <1>3, <1>5, <2>1, CalledSched
<1>7. Conns'
  <2>1. Conns
    BY DEF IInv
  <2>2. ASSUME NEW c \in Conn PROVE ConnOK(master', "FETCH1", status[c], c)
    BY <1>5, <2>1, SameForOK DEF Conns
  <2>3. \A c \in Conn : ConnOK(master', type', status'[c], c)
    BY <1>1, <2>2
  <2> QED
    BY <2>1, <2>3 DEF Conns
<1>8. Transport'
  BY DEF IInv, Transport, TransportType, transport
<1> QED
  BY <1>5, <1>6, <1>7, <1>8 DEF IInv

-----------------------------------------------------------------------------
(* The inductive invariant is preserved: interrupts, commands, the network. *)

LEMMA CatEmpty ==
  ASSUME NEW S, NEW s \in Seq(S)
  PROVE  Cat(s, << >>) = s /\ Cat(<< >>, s) = s
BY ConcatEmptySeq DEF Cat

LEMMA CatTwice ==
  ASSUME NEW S, NEW s \in Seq(S), NEW t \in Seq(S), NEW u \in Seq(S)
  PROVE  Cat(Cat(s, t), u) = Cat(s, Cat(t, u))
<1>1. (s \o t) \o u = s \o (t \o u)
  BY ConcatAssociative
<1> QED
  BY <1>1 DEF Cat

LEMMA CatHeadTail ==
  ASSUME NEW S, NEW s \in Seq(S), s # << >>
  PROVE  /\ Cat(<<Head(s)>>, Tail(s)) = s
         /\ Head(s) \in S /\ Tail(s) \in Seq(S) /\ <<Head(s)>> \in Seq(S)
<1> DEFINE h == Head(s)
           t == Tail(s)
           o == <<h>>
           u == Cat(o, t)
<1>1. /\ h \in S /\ t \in Seq(S) /\ Len(t) = Len(s) - 1 /\ h = s[1]
      /\ Len(s) \in Nat /\ Len(s) # 0 /\ \A i \in 1..Len(t) : t[i] = s[i + 1]
  BY HeadTailProperties
<1> HIDE DEF h, t
<1>2. o \in Seq(S) /\ Len(o) = 1 /\ o[1] = h
  BY <1>1
<1> HIDE DEF o
<1>0. t \in Seq(S) /\ o \in Seq(S)
  BY <1>1, <1>2
<1>3. u \in Seq(S)
  BY <1>0, CatFacts
<1>4. Len(u) = Len(o) + Len(t)
  BY <1>0, CatFacts
<1>5. \A i \in 1..Len(o) : u[i] = o[i]
  BY <1>0, CatFacts
<1>6. \A i \in 1..Len(t) : u[Len(o) + i] = t[i]
  BY <1>0, CatFacts
<1> HIDE DEF u
<1>7. Len(u) = Len(s)
  BY <1>1, <1>2, <1>4
<1>8. ASSUME NEW i \in 1..Len(s) PROVE u[i] = s[i]
  <2>1. CASE i = 1
    BY <1>1, <1>2, <1>5, <2>1
  <2>2. CASE i # 1
    <3>1. PICK j \in 1..Len(t) : 1 + j = i
      <4> DEFINE j == i - 1
      <4>1. j \in 1..Len(t) /\ 1 + j = i
        BY <1>1, <2>2
      <4> HIDE DEF j
      <4> QED
        BY <4>1
    <3>2. u[1 + j] = t[j]
      BY <1>2, <1>6
    <3>3. t[j] = s[j + 1] /\ j + 1 = 1 + j
      BY <1>1
    <3> QED
      BY <3>1, <3>2, <3>3
  <2> QED
    BY <2>1, <2>2
<1>9. u = s
  BY <1>3, <1>7, <1>8, SeqEqual
<1> QED
  BY <1>1, <1>2, <1>9 DEF u, o, h, t

\* Interrupts that are queued.
LEMMA QueueGrows ==
  ASSUME NEW q \in Seq(Interrupt), \A i \in 1..Len(q) : Brought(q[i]),
         NEW agent \in Conn \cup {None}, NEW msgs \in Seq(AnyMsg),
         agent # None => msgs \in Seq(Message)
  PROVE  LET u == Cat(q, Entries(agent, msgs))
         IN  /\ u \in Seq(Interrupt)
             /\ \A i \in 1..Len(u) : Brought(u[i])
             /\ msgs = << >> => u = q
<1> DEFINE e == Entries(agent, msgs)
           u == Cat(q, e)
<1>1. /\ e \in Seq(Interrupt) /\ Len(e) = Len(msgs)
      /\ \A i \in 1..Len(msgs) : e[i] = [agent |-> agent, msg |-> msgs[i]]
  BY EntriesTyped
<1>9. Len(msgs) \in Nat /\ Len(q) \in Nat
  OBVIOUS
<1> HIDE DEF e
<1>2. \A i \in 1..Len(msgs) : Brought(e[i])
  <2>1. ASSUME NEW i \in 1..Len(msgs) PROVE Brought(e[i])
    <3>0. e[i] = [agent |-> agent, msg |-> msgs[i]]
      BY <1>1
    <3>1. e[i].agent = agent /\ e[i].msg = msgs[i]
      BY <3>0
    <3>2. agent # None => msgs[i] \in Message
      OBVIOUS
    <3> QED
      BY <3>1, <3>2 DEF Brought
  <2> QED
    BY <2>1
<1>0. e \in Seq(Interrupt)
  BY <1>1
<1>3. u \in Seq(Interrupt)
  BY <1>0, CatFacts
<1>4. Len(u) = Len(q) + Len(e)
  BY <1>0, CatFacts
<1>5. \A i \in 1..Len(q) : u[i] = q[i]
  BY <1>0, CatFacts
<1>6. \A i \in 1..Len(e) : u[Len(q) + i] = e[i]
  BY <1>0, CatFacts
<1>7. msgs = << >> => u = q
  <2>1. ASSUME msgs = << >> PROVE u = q
    <3>1. e = << >>
      BY <1>1, <1>9, <2>1
    <3> QED
      BY <3>1, CatEmpty
  <2> QED
    BY <2>1
<1> HIDE DEF u
<1>8. ASSUME NEW i \in 1..Len(u) PROVE Brought(u[i])
  <2>1. CASE i \in 1..Len(q)
    BY <1>5, <2>1
  <2>2. CASE i \notin 1..Len(q)
    <3>1. PICK j \in 1..Len(e) : Len(q) + j = i
      <4> DEFINE j == i - Len(q)
      <4>1. j \in 1..Len(e) /\ Len(q) + j = i
        BY <1>1, <1>4, <1>9, <2>2
      <4> HIDE DEF j
      <4> QED
        BY <4>1
    <3>2. u[i] = e[j] /\ j \in 1..Len(msgs)
      BY <1>1, <1>6, <3>1
    <3> QED
      BY <1>2, <3>2
  <2> QED
    BY <2>1, <2>2
<1> QED
  BY <1>3, <1>7, <1>8 DEF e, u

\* The branches of an interrupt.
LEMMA InterruptedCases ==
  ASSUME IInv, NEW agent, NEW msgs, Interrupted(agent, msgs)
  PROVE  \/ /\ type = "FETCH2" /\ expire # 0 /\ msgs # << >>
            /\ InterruptQueue = << >> /\ InterruptAgent = None
            /\ InterruptAgent' = agent /\ ReceivedMsg' = Head(msgs) /\ expire' = 0
            /\ InterruptQueue' = Cat(InterruptQueue, Entries(agent, Tail(msgs)))
         \/ /\ msgs = << >> \/ type # "FETCH2" \/ expire = 0
            /\ InterruptQueue' = Cat(InterruptQueue, Entries(agent, msgs))
            /\ UNCHANGED <<InterruptAgent, ReceivedMsg, expire>>
BY DEF Interrupted, Waits, Cat, IInv, Sched, WaitOK

\* What an interrupt, and a change that keeps the read threads, leave of the
\* scheduler.
LEMMA InterruptedSched ==
  ASSUME IInv, NEW agent \in Conn \cup {None}, NEW msgs \in Seq(AnyMsg),
         agent # None => msgs \in Seq(Message),
         Interrupted(agent, msgs), type' = type, effects' \in 0..MaxEffects,
         MasterOK(master'), Kept(master, master'), master' = master \/ msgs # << >>
  PROVE  Sched'
<1>1. SchedType /\ InterruptsOK /\ WaitOK
  BY DEF IInv, Sched
<1>2. /\ master'.fetched = master.fetched
      /\ \A c \in Conn : On(master', Read(c)) <=> On(master, Read(c))
  BY DEF Kept
<1>3. /\ InterruptQueue \in Seq(Interrupt)
      /\ \A i \in 1..Len(InterruptQueue) : Brought(InterruptQueue[i])
  BY <1>1 DEF SchedType, InterruptsOK
<1>4. \A t \in Range(master'.timer) : master'.left[t] \in Nat
  <2>1. master'.timer \in Seq(Timer) /\ master'.left \in [Timer -> Nat]
    BY Fields DEF MasterOK
  <2> QED
    BY <2>1, RangeFacts
<1>5. 0 # Never /\ 0 \in Nat
  BY NeverAssumption
<1>6. ASSUME type = "FETCH2", expire # 0, msgs # << >>,
             InterruptAgent' = agent, ReceivedMsg' = Head(msgs), expire' = 0,
             InterruptQueue' = Cat(InterruptQueue, Entries(agent, Tail(msgs)))
      PROVE  Sched'
  <2>1. /\ Head(msgs) \in AnyMsg /\ Tail(msgs) \in Seq(AnyMsg)
        /\ agent # None => Head(msgs) \in Message /\ Tail(msgs) \in Seq(Message)
    BY <1>6
  <2>2. /\ InterruptQueue' \in Seq(Interrupt)
        /\ \A i \in 1..Len(InterruptQueue') : Brought(InterruptQueue'[i])
    BY <1>3, <1>6, <2>1, QueueGrows
  <2>3. SchedType'
    BY <1>1, <1>2, <1>6, <2>1, <2>2 DEF SchedType
  <2>4. InterruptsOK'
    BY <1>1, <1>2, <1>6, <2>1, <2>2 DEF InterruptsOK, WaitOK
  <2>5. WaitOK'
    <3>1. \A t \in Range(master'.timer) : expire' # Never /\ expire' <= master'.left[t]
      BY <1>4, <1>5, <1>6
    <3> QED
      BY <1>1, <1>2, <1>5, <1>6, <3>1 DEF WaitOK
  <2> QED
    BY <2>3, <2>4, <2>5 DEF Sched
<1>7. ASSUME msgs = << >> \/ type # "FETCH2" \/ expire = 0,
             InterruptQueue' = Cat(InterruptQueue, Entries(agent, msgs)),
             UNCHANGED <<InterruptAgent, ReceivedMsg, expire>>
      PROVE  Sched'
  <2>2. /\ InterruptQueue' \in Seq(Interrupt)
        /\ \A i \in 1..Len(InterruptQueue') : Brought(InterruptQueue'[i])
        /\ msgs = << >> => InterruptQueue' = InterruptQueue
    BY <1>3, <1>7, QueueGrows
  <2>3. SchedType'
    BY <1>1, <1>2, <1>7, <2>2 DEF SchedType
  <2>4. InterruptsOK'
    BY <1>1, <1>2, <1>7, <2>2 DEF InterruptsOK
  <2>5. WaitOK'
    <3>1. CASE master' = master /\ msgs = << >>
      BY <1>1, <1>7, <2>2, <3>1 DEF WaitOK
    <3>2. CASE type # "FETCH2"
      BY <1>1, <1>7, <3>2 DEF WaitOK
    <3>3. CASE type = "FETCH2" /\ expire = 0
      <4>1. \A t \in Range(master'.timer) : expire' # Never /\ expire' <= master'.left[t]
        BY <1>4, <1>5, <1>7, <3>3
      <4> QED
        BY <1>1, <1>2, <1>5, <1>7, <3>3, <4>1 DEF WaitOK
    <3> QED
      BY <1>7, <3>1, <3>2, <3>3
  <2> QED
    BY <2>3, <2>4, <2>5 DEF Sched
<1> QED
  BY <1>6, <1>7, InterruptedCases

\* A command that is executed while the router does something else.
LEMMA CommandInv == ASSUME IInv, Command PROVE IInv'
<1>1. /\ effects < MaxEffects /\ master' \in Effects(master) /\ effects' = effects + 1
      /\ Interrupted(None, <<None>>)
      /\ UNCHANGED <<type, transport, status, sent, got>>
  BY DEF Command
<1>2. MasterOK(master') /\ Kept(master, master')
  BY <1>1, EffectsOK DEF IInv, Sched
<1>3. effects' \in 0..MaxEffects
  BY <1>1, BoundAssumption DEF IInv, Sched, SchedType
<1>4. <<None>> \in Seq(AnyMsg) /\ <<None>> # << >>
  BY DEF AnyMsg
<1>5. Sched'
  BY <1>1, <1>2, <1>3, <1>4, InterruptedSched
<1>6. Conns'
  BY <1>1, <1>2, ConnsKept DEF IInv
<1>7. Transport'
  BY <1>1 DEF IInv, Transport, TransportType, transport
<1> QED
  BY <1>5, <1>6, <1>7 DEF IInv

\* An interrupt, when nothing else in the scheduler changes.
LEMMA InterruptOnly ==
  ASSUME IInv, NEW c \in Conn, NEW msgs \in Seq(Message), Interrupted(c, msgs),
         UNCHANGED <<type, master, status, got, effects>>
  PROVE  Sched' /\ Conns'
<1>1. msgs \in Seq(AnyMsg)
  BY DEF AnyMsg
<1>2. MasterOK(master) /\ effects \in 0..MaxEffects
  BY DEF IInv, Sched, SchedType
<1>3. Kept(master, master')
  BY DEF Kept
<1>4. Sched'
  BY <1>1, <1>2, <1>3, InterruptedSched
<1>5. Conns'
  BY <1>3, ConnsKept DEF IInv
<1> QED
  BY <1>4, <1>5

\* The transport, when one connection changes.
LEMMA OneTransport ==
  ASSUME Transport, TransportType', NEW c \in Conn, UNCHANGED status,
         TransportOK(status[c], m_msgs'[c], first'[c], wire'[c], link'[c], sent'[c]),
         \A d \in Conn : d # c =>
           /\ m_msgs'[d] = m_msgs[d] /\ first'[d] = first[d] /\ wire'[d] = wire[d]
           /\ link'[d] = link[d] /\ sent'[d] = sent[d]
  PROVE  Transport'
<1>1. ASSUME NEW d \in Conn
      PROVE  TransportOK(status[d], m_msgs'[d], first'[d], wire'[d], link'[d], sent'[d])
  <2>1. TransportOK(status[d], m_msgs[d], first[d], wire[d], link[d], sent[d])
    BY DEF Transport
  <2>2. CASE d = c
    BY <2>2
  <2>3. CASE d # c
    BY <2>1, <2>3
  <2> QED
    BY <2>2, <2>3
<1> QED
  BY <1>1 DEF Transport

\* What a connection has, before a step.
LEMMA TransportAt ==
  ASSUME IInv, NEW c \in Conn
  PROVE  /\ Transport /\ TransportType
         /\ m_msgs[c] \in Seq(Message) /\ first[c] \in Nat /\ wire[c] \in Nat
         /\ link[c] \in {"opening", "open", "closing", "closed"} /\ sent[c] \in Nat
         /\ TransportOK(status[c], m_msgs[c], first[c], wire[c], link[c], sent[c])
BY DEF IInv, Transport, TransportType

LEMMA ZeroSeq == \A c \in Conn : <<Zero(c)>> \in Seq(Message) /\ <<Zero(c)>> # << >>
BY ZeroTyped

LEMMA AnswerInv == ASSUME IInv, NEW c \in Conn, Answer(c) PROVE IInv'
<1>1. PICK l \in {"open", "closed"} : link' = [link EXCEPT ![c] = l]
  BY DEF Answer
<1>2. /\ link[c] = "opening" /\ Interrupted(c, <<Zero(c)>>)
      /\ UNCHANGED <<type, master, m_msgs, first, wire, status, sent, got, effects>>
  BY DEF Answer
<1>3. Sched' /\ Conns'
  BY <1>2, ZeroSeq, InterruptOnly
<1>4. Transport /\ TransportType
  BY TransportAt
<1>5. TransportType'
  BY <1>1, <1>2, <1>4 DEF TransportType
<1>6. TransportOK(status[c], m_msgs[c], first[c], wire[c], l, sent[c])
  <2>1. TransportOK(status[c], m_msgs[c], first[c], wire[c], link[c], sent[c])
    BY TransportAt
  <2>2. Bytes(<< >>, Len(<< >>)) = 0
    <3>1. Len(<< >>) = 0 /\ Len(<< >>) \in Nat
      OBVIOUS
    <3> QED
      BY <3>1, BytesStep
  <2> QED
    BY <1>2, <2>1, <2>2 DEF TransportOK
<1>7. link'[c] = l /\ \A d \in Conn : d # c => link'[d] = link[d]
  BY <1>1, <1>4 DEF TransportType
<1>8. Transport'
  BY <1>2, <1>4, <1>5, <1>6, <1>7, OneTransport
<1> QED
  BY <1>3, <1>8 DEF IInv

\* The other end sends a message and its bytes.
LEMMA SendMessageInv == ASSUME IInv, NEW c \in Conn, SendMessage(c) PROVE IInv'
<1>1. PICK s \in Size :
        /\ m_msgs' = [m_msgs EXCEPT ![c] = Append(@, [conn |-> c, id |-> sent[c] + 1, size |-> s])]
        /\ wire' = [wire EXCEPT ![c] = @ + s]
  BY DEF SendMessage
<1>2. /\ link[c] = "open" /\ status[c] # "Gone" /\ sent[c] < MaxMessages[c]
      /\ sent' = [sent EXCEPT ![c] = @ + 1]
      /\ UNCHANGED <<type, expire, master, interrupts, first, link, status, got, effects>>
  BY DEF SendMessage
<1> DEFINE msgs == m_msgs[c]
           m == [conn |-> c, id |-> sent[c] + 1, size |-> s]
           ms2 == Append(msgs, m)
<1>3. /\ Transport /\ TransportType
      /\ msgs \in Seq(Message) /\ first[c] \in Nat /\ wire[c] \in Nat /\ sent[c] \in Nat
      /\ TransportOK(status[c], msgs, first[c], wire[c], link[c], sent[c])
  BY TransportAt
<1>4. s \in Nat \ {0}
  BY SizeAssumption
<1>5. m \in Message /\ m.size = s
  <2>1. sent[c] + 1 \in 0..MaxMessages[c]
    BY <1>2, <1>3, BoundAssumption
  <2>2. m \in [conn : {c}, id : 0..MaxMessages[c], size : Size \cup {0}]
    BY <2>1
  <2> QED
    BY <2>2 DEF Message
<1> HIDE DEF m
<1>6. /\ ms2 \in Seq(Message) /\ Len(ms2) = Len(msgs) + 1 /\ Len(msgs) \in Nat
      /\ \A i \in 1..Len(msgs) : ms2[i] = msgs[i]
      /\ ms2[Len(msgs) + 1] = m
  BY <1>3, <1>5, AppendProperties
<1>7. Bytes(ms2, Len(ms2)) = Bytes(msgs, Len(msgs)) + s
  BY <1>3, <1>5, BytesAppend
<1>8. /\ m_msgs'[c] = ms2 /\ wire'[c] = wire[c] + s /\ sent'[c] = sent[c] + 1
      /\ \A d \in Conn : d # c =>
           m_msgs'[d] = m_msgs[d] /\ wire'[d] = wire[d] /\ sent'[d] = sent[d]
  BY <1>1, <1>2, <1>3 DEF TransportType, m
<1>9. TransportType'
  BY <1>1, <1>2, <1>3, <1>4, <1>6 DEF TransportType, m
<1>10. Sized(ms2) /\ ms2 # << >> /\ first[c] < Head(ms2).size
  <2>1. \A i \in 1..Len(msgs) : msgs[i].size \in Nat \ {0}
    BY <1>3 DEF TransportOK, Sized
  <2> HIDE DEF ms2
  <2>2. ASSUME NEW i \in 1..Len(ms2) PROVE ms2[i].size \in Nat \ {0}
    <3>1. i \in 1..Len(msgs) \/ i = Len(msgs) + 1
      BY <1>6
    <3> QED
      BY <1>4, <1>5, <1>6, <2>1, <3>1
  <2>3. Head(ms2) = ms2[1] /\ ms2 # << >>
    BY <1>6
  <2>4. CASE msgs = << >>
    <3>1. Len(msgs) = 0 /\ ms2[1] = m /\ first[c] = 0
      BY <1>3, <1>6, <2>4 DEF TransportOK
    <3> QED
      BY <1>4, <1>5, <2>2, <2>3, <3>1 DEF Sized
  <2>5. CASE msgs # << >>
    <3>1. 1 \in 1..Len(msgs) /\ Head(msgs) = msgs[1]
      BY <1>3, <2>5
    <3> QED
      BY <1>3, <1>6, <2>2, <2>3, <2>5, <3>1 DEF Sized, TransportOK
  <2> QED
    BY <2>4, <2>5
<1>11. TransportOK(status[c], ms2, first[c], wire[c] + s, link[c], sent[c] + 1)
  <2>1. first[c] + wire[c] = Bytes(msgs, Len(msgs))
    BY <1>2, <1>3 DEF TransportOK
  <2>2. first[c] + (wire[c] + s) = Bytes(ms2, Len(ms2))
    BY <1>3, <1>4, <1>7, <2>1
  <2> HIDE DEF ms2
  <2> QED
    BY <1>2, <1>10, <2>2 DEF TransportOK
<1> HIDE DEF ms2, msgs
<1>12. Transport'
  BY <1>2, <1>3, <1>8, <1>9, <1>11, OneTransport
<1>13. Sched' /\ Conns'
  <2>1. Kept(master, master')
    BY <1>2 DEF Kept
  <2>2. Conns'
    BY <1>2, <2>1, ConnsKept DEF IInv
  <2>3. Sched'
    BY <1>2 DEF IInv, Sched, SchedType, InterruptsOK, WaitOK, interrupts
  <2> QED
    BY <2>2, <2>3
<1> QED
  BY <1>12, <1>13 DEF IInv

\* The other end closes, and what it has not transmitted is lost.
LEMMA CloseThereInv == ASSUME IInv, NEW c \in Conn, CloseThere(c) PROVE IInv'
<1>1. PICK n \in 0..wire[c] : wire' = [wire EXCEPT ![c] = n]
  BY DEF CloseThere
<1>2. /\ link[c] = "open" /\ link' = [link EXCEPT ![c] = "closing"]
      /\ UNCHANGED <<type, expire, master, interrupts, m_msgs, first, status, sent, got, effects>>
  BY DEF CloseThere
<1>3. /\ Transport /\ TransportType /\ wire[c] \in Nat
      /\ TransportOK(status[c], m_msgs[c], first[c], wire[c], link[c], sent[c])
  BY TransportAt
<1>4. TransportType'
  BY <1>1, <1>2, <1>3 DEF TransportType
<1>5. /\ wire'[c] = n /\ link'[c] = "closing"
      /\ \A d \in Conn : d # c => wire'[d] = wire[d] /\ link'[d] = link[d]
  BY <1>1, <1>2, <1>3 DEF TransportType
<1>6. TransportOK(status[c], m_msgs[c], first[c], n, "closing", sent[c])
  BY <1>3 DEF TransportOK
<1>7. Transport'
  BY <1>2, <1>3, <1>4, <1>5, <1>6, OneTransport
<1>8. Sched' /\ Conns'
  <2>1. Kept(master, master')
    BY <1>2 DEF Kept
  <2>2. Conns'
    BY <1>2, <2>1, ConnsKept DEF IInv
  <2>3. Sched'
    BY <1>2 DEF IInv, Sched, SchedType, InterruptsOK, WaitOK, interrupts
  <2> QED
    BY <2>2, <2>3
<1> QED
  BY <1>7, <1>8 DEF IInv

LEMMA FinInv == ASSUME IInv, NEW c \in Conn, Fin(c) PROVE IInv'
<1>1. /\ link[c] = "closing" /\ link' = [link EXCEPT ![c] = "closed"]
      /\ Interrupted(c, <<Zero(c)>>)
      /\ UNCHANGED <<type, master, m_msgs, first, wire, status, sent, got, effects>>
  BY DEF Fin
<1>2. Sched' /\ Conns'
  BY <1>1, ZeroSeq, InterruptOnly
<1>3. /\ Transport /\ TransportType
      /\ TransportOK(status[c], m_msgs[c], first[c], wire[c], link[c], sent[c])
  BY TransportAt
<1>4. TransportType'
  BY <1>1, <1>3 DEF TransportType
<1>5. link'[c] = "closed" /\ \A d \in Conn : d # c => link'[d] = link[d]
  BY <1>1, <1>3 DEF TransportType
<1>6. TransportOK(status[c], m_msgs[c], first[c], wire[c], "closed", sent[c])
  BY <1>3 DEF TransportOK
<1>7. Transport'
  BY <1>1, <1>3, <1>4, <1>5, <1>6, OneTransport
<1> QED
  BY <1>2, <1>7 DEF IInv

\* Bytes come in: f were there, w are on their way, n of them arrive.
Arrival(S, msgs, f, w, n) ==
  LET k == Complete(msgs, f + n)
      rest == Rest(msgs, k)
      f2 == IF rest = << >> THEN 0 ELSE f + n - Bytes(msgs, k)
  IN  /\ rest \in Seq(S) /\ Sized(rest) /\ f2 \in Nat
      /\ rest # << >> => f2 < Head(rest).size
      /\ f + w = Bytes(msgs, Len(msgs)) => f2 + (w - n) = Bytes(rest, Len(rest))
      /\ Whole(msgs, f + w) = Cat(Whole(msgs, f + n), Whole(rest, f2 + (w - n)))

LEMMA RecvBytes ==
  ASSUME NEW S, NEW msgs \in Seq(S), Sized(msgs), NEW f \in Nat, NEW w \in Nat, NEW n \in 1..w
  PROVE  Arrival(S, msgs, f, w, n)
<1> DEFINE L == Len(msgs)
           k == Complete(msgs, f + n)
           rest == Rest(msgs, k)
           b == Bytes(msgs, k)
           f2 == IF rest = << >> THEN 0 ELSE f + n - b
<1>1. L \in Nat /\ f + n \in Nat /\ f + w \in Nat /\ f + n <= f + w
  OBVIOUS
<1>2. /\ k \in 0..L /\ b <= f + n
      /\ k = L \/ Bytes(msgs, k + 1) > f + n
  BY <1>1, CompleteFacts
<1>3. /\ \A i \in 0..L : Bytes(msgs, i) \in Nat
      /\ \A i \in 1..L : Bytes(msgs, i) = Bytes(msgs, i - 1) + msgs[i].size
  BY <1>1, BytesGrow, BytesStep
<1>4. /\ (f + w) - b \in Nat
      /\ Whole(msgs, f + w) = Cat(Whole(msgs, f + n), Whole(rest, (f + w) - b))
  BY <1>1, WholeSplit
<1> HIDE DEF k
<1>5. /\ rest \in Seq(S) /\ Len(rest) = L - k
      /\ \A i \in 1..(L - k) : rest[i] = msgs[k + i]
  BY <1>2, RestFacts
<1>6. /\ Sized(rest)
      /\ \A j \in 0..(L - k) : Bytes(msgs, k + j) = b + Bytes(rest, j)
  BY <1>2, BytesRest
<1> HIDE DEF L, rest, b
<1>7. b \in Nat
  BY <1>2, <1>3 DEF b
<1>8. b + Bytes(rest, Len(rest)) = Bytes(msgs, L) /\ Bytes(msgs, L) \in Nat
  <2>1. L - k \in 0..(L - k) /\ k + (L - k) = L /\ L \in 0..L
    BY <1>1, <1>2
  <2> QED
    BY <1>3, <1>5, <1>6, <2>1
<1>9. Len(rest) \in Nat /\ \A i \in 0..Len(rest) : Bytes(rest, i) \in Nat
  <2>1. Len(rest) \in Nat
    BY <1>5
  <2> QED
    BY <1>6, <2>1, BytesGrow
<1>10. CASE rest = << >>
  <2>1. Len(rest) = 0 /\ f2 = 0 /\ k = L
    BY <1>1, <1>2, <1>5, <1>10
  <2>2. Bytes(rest, Len(rest)) = 0
    BY <1>9, <2>1, BytesStep
  <2>3. f + w = Bytes(msgs, L) => f2 + (w - n) = Bytes(rest, Len(rest))
    <3>1. f + w = Bytes(msgs, L) => f + w <= f + n
      BY <1>2, <2>1 DEF b
    <3> QED
      BY <1>1, <2>1, <2>2, <3>1
  <2>4. Whole(rest, (f + w) - b) = Whole(rest, f2 + (w - n))
    <3>1. f2 + (w - n) \in Nat
      BY <2>1
    <3>2. Whole(rest, f2 + (w - n)) = << >>
      BY <1>5, <1>6, <1>10, <3>1, WholeNone
    <3>3. Whole(rest, (f + w) - b) = << >>
      BY <1>4, <1>5, <1>6, <1>10, WholeNone
    <3> QED
      BY <3>2, <3>3
  <2> QED
    BY <1>4, <1>5, <1>6, <1>10, <2>1, <2>3, <2>4 DEF Arrival, k, L, rest, b
<1>11. CASE rest # << >>
  <2>1. f2 = f + n - b /\ f2 \in Nat
    BY <1>2, <1>7, <1>11
  <2>2. f2 < Head(rest).size
    <3>1. Len(rest) # 0 /\ Head(rest) = rest[1]
      BY <1>5, <1>11
    <3>2. k # L /\ 1 \in 1..(L - k) /\ k + 1 \in 1..L /\ (k + 1) - 1 = k
      BY <1>1, <1>2, <1>5, <3>1
    <3>3. rest[1] = msgs[k + 1] /\ Bytes(msgs, k + 1) > f + n
      BY <1>2, <1>5, <3>2
    <3>4. Bytes(msgs, k + 1) = b + msgs[k + 1].size
      BY <1>3, <3>2 DEF b
    <3>5. rest[1].size \in Nat
      <4>1. 1 \in 1..Len(rest)
        BY <1>5, <3>2
      <4> QED
        BY <1>6, <4>1 DEF Sized
    <3> QED
      BY <1>7, <2>1, <3>1, <3>3, <3>4, <3>5
  <2>3. f2 + (w - n) = (f + w) - b
    BY <1>7, <2>1
  <2>4. f + w = Bytes(msgs, L) => f2 + (w - n) = Bytes(rest, Len(rest))
    <3>1. Len(rest) \in 0..Len(rest)
      BY <1>9
    <3>2. Bytes(rest, Len(rest)) \in Nat
      BY <1>9, <3>1
    <3> QED
      BY <1>7, <1>8, <2>3, <3>2
  <2> QED
    BY <1>4, <1>5, <1>6, <1>11, <2>1, <2>2, <2>3, <2>4 DEF Arrival, k, L, rest, b
<1> QED
  BY <1>10, <1>11

\* What Recv does to a connection that has a list.
LEMMA RecvFacts ==
  ASSUME IInv, NEW c \in Conn, status[c] # "Gone", NEW n \in 1..wire[c],
         LET k == Complete(m_msgs[c], first[c] + n)
             msgs == SubSeq(m_msgs[c], 1, k)
             rest == SubSeq(m_msgs[c], k + 1, Len(m_msgs[c]))
         IN  /\ m_msgs' = [m_msgs EXCEPT ![c] = rest]
             /\ first' = [first EXCEPT ![c] = IF rest = << >> THEN 0
                                              ELSE @ + n - Bytes(m_msgs[c], k)]
             /\ Interrupted(c, msgs)
  PROVE  /\ Interrupted(c, Whole(m_msgs[c], first[c] + n))
         /\ Whole(m_msgs[c], first[c] + n) \in Seq(Message)
         /\ m_msgs'[c] \in Seq(Message) /\ Sized(m_msgs'[c]) /\ first'[c] \in Nat
         /\ m_msgs'[c] = << >> => first'[c] = 0
         /\ m_msgs'[c] # << >> => first'[c] < Head(m_msgs'[c]).size
         /\ first[c] + wire[c] = Bytes(m_msgs[c], Len(m_msgs[c])) =>
              first'[c] + (wire[c] - n) = Bytes(m_msgs'[c], Len(m_msgs'[c]))
         /\ Whole(m_msgs[c], first[c] + wire[c]) =
              Cat(Whole(m_msgs[c], first[c] + n), Whole(m_msgs'[c], first'[c] + (wire[c] - n)))
         /\ m_msgs' = [m_msgs EXCEPT ![c] = m_msgs'[c]]
         /\ first' = [first EXCEPT ![c] = first'[c]]
<1> DEFINE v == m_msgs[c]
           f == first[c]
           w == wire[c]
           k == Complete(v, f + n)
           rest == Rest(v, k)
           f2 == IF rest = << >> THEN 0 ELSE f + n - Bytes(v, k)
<1>1. /\ TransportType /\ v \in Seq(Message) /\ f \in Nat /\ w \in Nat /\ n \in 1..w
      /\ Sized(v)
  BY TransportAt DEF TransportOK
<1>2. /\ m_msgs' = [m_msgs EXCEPT ![c] = rest]
      /\ first' = [first EXCEPT ![c] = f2]
      /\ Interrupted(c, Whole(v, f + n))
  BY DEF Rest, Whole
<1>3. Whole(v, f + n) \in Seq(Message)
  <2>1. f + n \in Nat
    BY <1>1
  <2> HIDE DEF v, f
  <2> QED
    BY <1>1, <2>1, WholeFacts
<1> HIDE DEF v, f, w
<1>4. /\ rest \in Seq(Message) /\ Sized(rest) /\ f2 \in Nat
      /\ rest # << >> => f2 < Head(rest).size
      /\ f + w = Bytes(v, Len(v)) => f2 + (w - n) = Bytes(rest, Len(rest))
      /\ Whole(v, f + w) = Cat(Whole(v, f + n), Whole(rest, f2 + (w - n)))
  <2>0. v \in Seq(Message) /\ f \in Nat /\ w \in Nat /\ n \in 1..w /\ Sized(v)
    BY <1>1
  <2>1. Arrival(Message, v, f, w, n)
    BY <2>0, RecvBytes
  <2> QED
    BY <2>1 DEF Arrival
<1>5. rest = << >> => f2 = 0
  OBVIOUS
<1> HIDE DEF rest, f2
<1>6. m_msgs'[c] = rest /\ first'[c] = f2
  BY <1>1, <1>2 DEF TransportType
<1> QED
  BY <1>2, <1>3, <1>4, <1>5, <1>6 DEF v, f, w

LEMMA RecvInv == ASSUME IInv, NEW c \in Conn, Recv(c) PROVE IInv'
<1>1. PICK n \in 1..wire[c] :
        /\ wire' = [wire EXCEPT ![c] = @ - n]
        /\ IF status[c] = "Gone"
             THEN UNCHANGED <<m_msgs, first, interrupts, expire>>
             ELSE LET k == Complete(m_msgs[c], first[c] + n)
                      msgs == SubSeq(m_msgs[c], 1, k)
                      rest == SubSeq(m_msgs[c], k + 1, Len(m_msgs[c]))
                  IN  /\ m_msgs' = [m_msgs EXCEPT ![c] = rest]
                      /\ first' = [first EXCEPT ![c] = IF rest = << >> THEN 0
                                                       ELSE @ + n - Bytes(m_msgs[c], k)]
                      /\ Interrupted(c, msgs)
  BY DEF Recv
<1>2. UNCHANGED <<type, master, link, status, sent, got, effects>>
  BY DEF Recv
<1>3. /\ Transport /\ TransportType /\ wire[c] \in Nat
      /\ TransportOK(status[c], m_msgs[c], first[c], wire[c], link[c], sent[c])
  BY TransportAt
<1>4. wire[c] - n \in Nat /\ link[c] # "opening"
  BY <1>3 DEF TransportOK
<1>5. /\ wire'[c] = wire[c] - n
      /\ \A d \in Conn : d # c => wire'[d] = wire[d]
      /\ wire' \in [Conn -> Nat]
  BY <1>1, <1>3, <1>4 DEF TransportType
<1>6. CASE status[c] = "Gone"
  <2>1. UNCHANGED <<m_msgs, first, interrupts, expire>>
    BY <1>1, <1>6
  <2>2. Kept(master, master')
    BY <1>2 DEF Kept
  <2>3. Conns'
    BY <1>2, <2>2, ConnsKept DEF IInv
  <2>4. Sched'
    BY <1>2, <2>1 DEF IInv, Sched, SchedType, InterruptsOK, WaitOK, interrupts
  <2>5. TransportType'
    BY <1>2, <1>3, <1>5, <2>1 DEF TransportType
  <2>6. TransportOK(status[c], m_msgs[c], first[c], wire[c] - n, link[c], sent[c])
    BY <1>3, <1>4, <1>6 DEF TransportOK
  <2>7. Transport'
    BY <1>2, <1>3, <1>5, <2>1, <2>5, <2>6, OneTransport
  <2> QED
    BY <2>3, <2>4, <2>7 DEF IInv
<1>7. CASE status[c] # "Gone"
  <2>1. /\ Interrupted(c, Whole(m_msgs[c], first[c] + n))
        /\ Whole(m_msgs[c], first[c] + n) \in Seq(Message)
        /\ m_msgs'[c] \in Seq(Message) /\ Sized(m_msgs'[c]) /\ first'[c] \in Nat
        /\ m_msgs'[c] = << >> => first'[c] = 0
        /\ m_msgs'[c] # << >> => first'[c] < Head(m_msgs'[c]).size
        /\ first[c] + wire[c] = Bytes(m_msgs[c], Len(m_msgs[c])) =>
             first'[c] + (wire[c] - n) = Bytes(m_msgs'[c], Len(m_msgs'[c]))
        /\ m_msgs' = [m_msgs EXCEPT ![c] = m_msgs'[c]]
        /\ first' = [first EXCEPT ![c] = first'[c]]
    BY <1>1, <1>7, RecvFacts
  <2>2. Sched' /\ Conns'
    BY <1>2, <2>1, InterruptOnly
  <2>3. TransportType'
    BY <1>2, <1>3, <1>5, <2>1 DEF TransportType
  <2>4. TransportOK(status[c], m_msgs'[c], first'[c], wire[c] - n, link[c], sent[c])
    BY <1>3, <1>4, <1>7, <2>1 DEF TransportOK
  <2>5. \A d \in Conn : d # c => m_msgs'[d] = m_msgs[d] /\ first'[d] = first[d]
    BY <1>3, <2>1 DEF TransportType
  <2>6. Transport'
    BY <1>2, <1>3, <1>5, <2>3, <2>4, <2>5, OneTransport
  <2> QED
    BY <2>2, <2>6 DEF IInv
<1> QED
  BY <1>6, <1>7

LEMMA TickInv == ASSUME IInv, Tick PROVE IInv'
<1>1. /\ expire \in Nat \ {0} /\ expire' = expire - 1
      /\ master' = [master EXCEPT !.left = [t \in Timer |-> IF @[t] = 0 THEN 0 ELSE @[t] - 1]]
      /\ UNCHANGED <<type, interrupts, transport, status, sent, got, effects>>
  BY DEF Tick
<1>2. SchedType /\ MasterOK(master) /\ InterruptsOK /\ WaitOK
  BY DEF IInv, Sched
<1>3. /\ MasterOK(master') /\ Kept(master, master')
      /\ master'.timer = master.timer /\ master'.event = master.event
      /\ master'.ready = master.ready
      /\ \A t \in Timer : master'.left[t] = IF master.left[t] = 0 THEN 0 ELSE master.left[t] - 1
  BY <1>1, <1>2, TickFacts
<1>4. /\ master'.fetched = master.fetched
      /\ \A c \in Conn : On(master', Read(c)) <=> On(master, Read(c))
  BY <1>3 DEF Kept
<1>5. expire' \in Nat /\ expire' # Never
  BY <1>1, NeverAssumption
<1>6. UNCHANGED <<InterruptQueue, InterruptAgent, ReceivedMsg>>
  BY <1>1 DEF interrupts
<1>7. SchedType'
  BY <1>1, <1>2, <1>4, <1>5, <1>6 DEF SchedType
<1>8. InterruptsOK'
  BY <1>2, <1>4, <1>6 DEF InterruptsOK
<1>9. WaitOK'
  <2>1. ASSUME type = "FETCH2", NEW t \in Range(master.timer) PROVE expire' <= master'.left[t]
    <3>1. t \in Timer /\ master.left[t] \in Nat
      <4>1. master.timer \in Seq(Timer) /\ master.left \in [Timer -> Nat]
        BY <1>2, Fields DEF MasterOK
      <4> QED
        BY <2>1, <4>1, RangeFacts
    <3>2. expire <= master.left[t]
      BY <1>2, <2>1 DEF WaitOK
    <3>3. master'.left[t] = IF master.left[t] = 0 THEN 0 ELSE master.left[t] - 1
      BY <1>3, <3>1
    <3> QED
      BY <1>1, <3>1, <3>2, <3>3
  <2>2. expire # 0
    BY <1>1
  <2> QED
    BY <1>1, <1>2, <1>3, <1>4, <1>5, <1>6, <2>1, <2>2 DEF WaitOK
<1>10. Conns'
  BY <1>1, <1>3, ConnsKept DEF IInv
<1>11. Transport'
  BY <1>1 DEF IInv, Transport, TransportType, transport
<1> QED
  BY <1>3, <1>7, <1>8, <1>9, <1>10, <1>11 DEF IInv, Sched

\* Every step preserves the inductive invariant.
LEMMA NextInv == ASSUME IInv, [Next]_vars PROVE IInv'
<1>1. CASE FetchAtOnce
  BY <1>1, FetchAtOnceInv
<1>2. CASE StartWait
  BY <1>2, StartWaitInv
<1>3. CASE EndWait
  BY <1>3, EndWaitInv
<1>4. CASE ReadConnecting
  BY <1>4, ReadConnectingInv
<1>5. CASE ReadMessage
  BY <1>5, ReadMessageInv
<1>6. CASE EventOpened
  BY <1>6, EventOpenedInv
<1>7. CASE EventStop
  BY <1>7, EventStopInv
<1>8. CASE RunOther
  BY <1>8, RunPlainInv DEF RunOther
<1>9. CASE RunFreed
  <2>1. "timer" \in {"other", "timer", "bgp_write"}
    OBVIOUS
  <2> QED
    BY <1>9, <2>1, RunPlainInv DEF RunFreed
<1>10. CASE Command
  BY <1>10, CommandInv
<1>11. CASE Tick
  BY <1>11, TickInv
<1>12. ASSUME NEW c \in Conn, Network(c) \/ SendMessage(c) \/ CloseThere(c) PROVE IInv'
  BY <1>12, AnswerInv, RecvInv, FinInv, SendMessageInv, CloseThereInv DEF Network
<1>13. CASE UNCHANGED vars
  BY <1>13 DEF vars, interrupts, transport, IInv, Sched, SchedType, InterruptsOK, WaitOK,
              Conns, Transport, TransportType
<1> QED
  BY <1>1, <1>2, <1>3, <1>4, <1>5, <1>6, <1>7, <1>8, <1>9, <1>10, <1>11, <1>12, <1>13
  DEF Next, Timeout

LEMMA Invariance == Spec => []IInv
<1>1. Init => IInv
  BY InitInv
<1>2. IInv /\ [Next]_vars => IInv'
  BY NextInv
<1> QED
  BY <1>1, <1>2, PTL DEF Spec

-----------------------------------------------------------------------------
(* The scheduler and the transport implement the channel.                  *)

\* What a step of the router is to the channel of a connection.
StepOK(c) == UNCHANGED <<Unread(c), got[c]>> \/ C(c)!Next

\* The messages of a connection that have come in.
Pending(c) == Cat(Taken(c), Queued(c))

LEMMA UnreadIs ==
  ASSUME NEW c \in Conn
  PROVE  Unread(c) = IF status[c] = "Gone" THEN << >> ELSE Cat(Pending(c), Coming(c))
BY DEF Unread, Pending, Cat

LEMMA UnreadIsPrime ==
  ASSUME NEW c \in Conn
  PROVE  Unread(c)' = IF status'[c] = "Gone" THEN << >> ELSE Cat(Pending(c)', Coming(c)')
BY DEF Unread, Pending, Cat

\* The end of file, if the other end has closed.
Close(l, c) == IF l = "closing" THEN <<Zero(c)>> ELSE << >>

LEMMA CloseTyped == \A c \in Conn : \A l : Close(l, c) \in Seq(AnyMsg)
<1> SUFFICES ASSUME NEW c \in Conn, NEW l PROVE Close(l, c) \in Seq(AnyMsg)
  OBVIOUS
<1>1. <<Zero(c)>> \in Seq(AnyMsg)
  BY ZeroTyped
<1>2. << >> \in Seq(AnyMsg)
  OBVIOUS
<1> QED
  BY <1>1, <1>2 DEF Close

LEMMA ComingIs ==
  ASSUME NEW c \in Conn
  PROVE  /\ Coming(c) = Cat(Whole(m_msgs[c], first[c] + wire[c]), Close(link[c], c))
         /\ Coming(c)' = Cat(Whole(m_msgs'[c], first'[c] + wire'[c]), Close(link'[c], c))
BY DEF Coming, Cat, Close, Whole, Complete, Bytes, Zero

\* All of these are sequences of messages.
LEMMA PartsTyped ==
  ASSUME IInv, NEW c \in Conn
  PROVE  /\ Taken(c) \in Seq(AnyMsg) /\ Queued(c) \in Seq(AnyMsg)
         /\ Pending(c) \in Seq(AnyMsg)
         /\ Whole(m_msgs[c], first[c] + wire[c]) \in Seq(AnyMsg)
         /\ Coming(c) \in Seq(AnyMsg)
<1>1. ReceivedMsg \in AnyMsg /\ InterruptQueue \in Seq(Interrupt)
  BY DEF IInv, Sched, SchedType
<1>2. Taken(c) \in Seq(AnyMsg)
  <2>1. <<ReceivedMsg>> \in Seq(AnyMsg) /\ << >> \in Seq(AnyMsg)
    BY <1>1
  <2> QED
    BY <2>1 DEF Taken
<1>3. Queued(c) \in Seq(AnyMsg)
  BY <1>1, MessagesTyped DEF Queued
<1>4. Pending(c) \in Seq(AnyMsg)
  BY <1>2, <1>3, CatFacts DEF Pending
<1>5. Whole(m_msgs[c], first[c] + wire[c]) \in Seq(AnyMsg)
  <2>1. /\ m_msgs[c] \in Seq(Message) /\ first[c] + wire[c] \in Nat /\ Sized(m_msgs[c])
    BY TransportAt DEF TransportOK
  <2>2. Whole(m_msgs[c], first[c] + wire[c]) \in Seq(Message)
    BY <2>1, WholeFacts
  <2> QED
    BY <2>2 DEF AnyMsg
<1>6. Coming(c) \in Seq(AnyMsg)
  BY <1>5, CloseTyped, ComingIs, CatFacts
<1> QED
  BY <1>2, <1>3, <1>4, <1>5, <1>6

\* A step that leaves the messages of a connection where they are.
LEMMA Stays ==
  ASSUME NEW c \in Conn, Unread(c)' = Unread(c), got'[c] = got[c]
  PROVE  StepOK(c)
BY DEF StepOK

LEMMA StaysGone ==
  ASSUME NEW c \in Conn, status[c] = "Gone", status'[c] = "Gone", got'[c] = got[c]
  PROVE  StepOK(c)
<1>1. Unread(c) = << >> /\ Unread(c)' = << >>
  BY UnreadIs, UnreadIsPrime
<1> QED
  BY <1>1, Stays

LEMMA IsSend ==
  ASSUME NEW c \in Conn, NEW m \in Message, Unread(c)' = Append(Unread(c), m), got'[c] = got[c]
  PROVE  StepOK(c)
<1>1. C(c)!Send(m)
  BY DEF C!Send
<1>2. C(c)!Next
  BY <1>1 DEF C!Next
<1> QED
  BY <1>2 DEF StepOK

LEMMA IsRead ==
  ASSUME NEW c \in Conn, NEW S, Unread(c)' \in Seq(S), got'[c] \in S,
         Unread(c) = Cat(<<got'[c]>>, Unread(c)')
  PROVE  StepOK(c)
<1> DEFINE u == Unread(c)'
           g == got'[c]
<1>1. Unread(c) # << >> /\ Head(Unread(c)) = g /\ Tail(Unread(c)) = u
  <2>1. u \in Seq(S) /\ g \in S /\ Unread(c) = <<g>> \o u
    BY DEF Cat
  <2> HIDE DEF u, g
  <2> QED
    BY <2>1
<1>2. C(c)!Read
  BY <1>1 DEF C!Read
<1>3. C(c)!Next
  BY <1>2 DEF C!Next
<1> QED
  BY <1>3 DEF StepOK

LEMMA IsCloseHere ==
  ASSUME NEW c \in Conn, status'[c] = "Gone", got'[c] = got[c]
  PROVE  StepOK(c)
<1>1. Unread(c)' = << >>
  BY UnreadIsPrime
<1>2. C(c)!CloseHere
  BY <1>1 DEF C!CloseHere
<1>3. C(c)!Next
  BY <1>2 DEF C!Next
<1> QED
  BY <1>3 DEF StepOK

LEMMA IsCloseThere ==
  ASSUME NEW c \in Conn, NEW m \in Message, NEW n \in 0..Len(Unread(c)),
         Unread(c)' = Append(SubSeq(Unread(c), 1, n), m), got'[c] = got[c]
  PROVE  StepOK(c)
<1>1. C(c)!CloseThere(m)
  BY DEF C!CloseThere
<1>2. C(c)!Next
  BY <1>1 DEF C!Next
<1> QED
  BY <1>2 DEF StepOK

\* A step that changes neither what has come in nor what comes.
LEMMA StaysUnread ==
  ASSUME NEW c \in Conn, Pending(c)' = Pending(c),
         m_msgs'[c] = m_msgs[c], first'[c] = first[c], wire'[c] = wire[c], link'[c] = link[c],
         status'[c] = "Gone" <=> status[c] = "Gone", got'[c] = got[c]
  PROVE  StepOK(c)
<1>1. Coming(c)' = Coming(c)
  BY ComingIs
<1>2. Unread(c)' = Unread(c)
  BY <1>1, UnreadIs, UnreadIsPrime
<1> QED
  BY <1>2, Stays

\* The messages that have come in stay in their places.
LEMMA PendingStays ==
  ASSUME NEW c \in Conn, UNCHANGED <<InterruptQueue, ReceivedMsg>>,
         On(master', Read(c)) <=> On(master, Read(c)),
         type' = "FETCH2" /\ InterruptAgent' = c <=> type = "FETCH2" /\ InterruptAgent = c
  PROVE  Pending(c)' = Pending(c)
<1>1. Taken(c)' = Taken(c)
  BY DEF Taken
<1>2. Queued(c)' = Queued(c)
  BY DEF Queued
<1> QED
  BY <1>1, <1>2 DEF Pending

\* What an interrupt brings comes in.
LEMMA PendingGrows ==
  ASSUME IInv, NEW agent \in Conn \cup {None}, NEW msgs \in Seq(AnyMsg),
         Interrupted(agent, msgs), type' = type,
         NEW c \in Conn, On(master', Read(c)) <=> On(master, Read(c))
  PROVE  Pending(c)' = Cat(Pending(c), IF agent = c THEN msgs ELSE << >>)
<1>1. /\ InterruptQueue \in Seq(Interrupt) /\ WaitOK
      /\ Taken(c) \in Seq(AnyMsg) /\ Queued(c) \in Seq(AnyMsg)
  BY PartsTyped DEF IInv, Sched, SchedType
<1>2. << >> \in Seq(AnyMsg) /\ << >> \in Seq(Interrupt)
  OBVIOUS
<1>3. Queued(c)' = MessagesOf(InterruptQueue', c)
  BY DEF Queued
<1>4. ASSUME type = "FETCH2", expire # 0, msgs # << >>,
             InterruptQueue = << >>, InterruptAgent = None, InterruptAgent' = agent,
             ReceivedMsg' = Head(msgs),
             InterruptQueue' = Cat(InterruptQueue, Entries(agent, Tail(msgs)))
      PROVE  Pending(c)' = Cat(Pending(c), IF agent = c THEN msgs ELSE << >>)
  <2>1. /\ Head(msgs) \in AnyMsg /\ Tail(msgs) \in Seq(AnyMsg) /\ <<Head(msgs)>> \in Seq(AnyMsg)
        /\ Cat(<<Head(msgs)>>, Tail(msgs)) = msgs
    BY <1>4, CatHeadTail
  <2>2. Entries(agent, Tail(msgs)) \in Seq(Interrupt)
    BY <2>1, EntriesTyped
  <2>3. InterruptQueue' = Entries(agent, Tail(msgs))
    BY <1>4, <2>2, CatEmpty
  <2>4. Queued(c)' = IF agent = c THEN Tail(msgs) ELSE << >>
    <3> DEFINE t == Tail(msgs)
    <3>1. t \in Seq(AnyMsg)
      BY <2>1
    <3>2. Queued(c)' = MessagesOf(Entries(agent, t), c)
      BY <1>3, <2>3
    <3> HIDE DEF t
    <3>3. agent = c => MessagesOf(Entries(agent, t), c) = t
      BY <3>1, MessagesOfEntries
    <3>4. agent # c => MessagesOf(Entries(agent, t), c) = << >>
      BY <3>1, MessagesOfEntries
    <3> QED
      BY <3>2, <3>3, <3>4 DEF t
  <2>5. c # None /\ ~On(master, Read(c))
    BY <1>1, <1>4, NoneAssumption DEF WaitOK
  <2>6. Taken(c)' = IF agent = c THEN <<Head(msgs)>> ELSE << >>
    BY <1>4, <2>5 DEF Taken
  <2>7. Taken(c) = << >>
    BY <1>4, <2>5 DEF Taken
  <2>8. Queued(c) = << >>
    <3>1. MessagesOf(Entries(None, << >>), c) = << >>
      BY <1>2, MessagesOfEntries
    <3>2. Entries(None, << >>) = << >>
      <4>1. /\ Entries(None, << >>) \in Seq(Interrupt)
            /\ Len(Entries(None, << >>)) = Len(<< >>)
        BY <1>2, EntriesTyped
      <4> QED
        BY <4>1
    <3> QED
      BY <1>4, <3>1, <3>2 DEF Queued
  <2>9. Pending(c) = << >>
    BY <1>2, <2>7, <2>8, CatEmpty DEF Pending
  <2>10. Pending(c)' = IF agent = c THEN msgs ELSE << >>
    <3>1. Pending(c)' = Cat(Taken(c)', Queued(c)')
      BY DEF Pending
    <3>2. Cat(<< >>, << >>) = << >>
      BY <1>2, CatEmpty
    <3> QED
      BY <2>1, <2>4, <2>6, <3>1, <3>2
  <2> QED
    BY <1>2, <2>9, <2>10, CatEmpty
<1>5. ASSUME InterruptQueue' = Cat(InterruptQueue, Entries(agent, msgs)),
             UNCHANGED <<InterruptAgent, ReceivedMsg>>
      PROVE  Pending(c)' = Cat(Pending(c), IF agent = c THEN msgs ELSE << >>)
  <2> DEFINE a == IF agent = c THEN msgs ELSE << >>
  <2>1. Taken(c)' = Taken(c)
    BY <1>5 DEF Taken
  <2>2. Entries(agent, msgs) \in Seq(Interrupt)
    BY EntriesTyped
  <2>3. MessagesOf(InterruptQueue', c) =
          Cat(MessagesOf(InterruptQueue, c), MessagesOf(Entries(agent, msgs), c))
    BY <1>1, <1>5, <2>2, MessagesCat
  <2>4. MessagesOf(Entries(agent, msgs), c) = a
    BY MessagesOfEntries
  <2>5. a \in Seq(AnyMsg)
    BY <1>2
  <2> HIDE DEF a
  <2>6. Queued(c)' = Cat(Queued(c), a)
    BY <1>3, <2>3, <2>4 DEF Queued
  <2>7. Pending(c)' = Cat(Taken(c), Cat(Queued(c), a))
    BY <2>1, <2>6 DEF Pending
  <2>8. Cat(Cat(Taken(c), Queued(c)), a) = Cat(Taken(c), Cat(Queued(c), a))
    BY <1>1, <2>5, CatTwice
  <2> QED
    BY <2>7, <2>8 DEF Pending, a
<1>6. CASE type = "FETCH2" /\ expire # 0 /\ msgs # << >>
  BY <1>4, <1>6, InterruptedCases
<1>7. CASE ~(type = "FETCH2" /\ expire # 0 /\ msgs # << >>)
  BY <1>5, <1>7, InterruptedCases
<1> QED
  BY <1>6, <1>7

\* The scheduler takes threads and interrupts from one place to another.
LEMMA FetchAtOnceStep == ASSUME IInv, NEW c \in Conn, FetchAtOnce PROVE StepOK(c)
<1>1. /\ MasterOK(master) /\ type = "FETCH1" /\ master.fetched = None /\ type' = "EXECUTE"
      /\ UNCHANGED <<interrupts, transport, status, got>>
  BY DEF IInv, Sched, SchedType, FetchAtOnce
<1>2. On(master', Read(c)) <=> On(master, Read(c))
  <2>1. CASE /\ master.event # << >>
             /\ master' = [Fetch(master, Head(master.event)) EXCEPT !.event = Tail(@)]
    BY <1>1, <2>1, TakeEvent
  <2>2. CASE /\ master.ready # << >>
             /\ master' = [Fetch(master, Head(master.ready)) EXCEPT !.ready = Tail(@)]
    BY <1>1, <2>2, TakeReady
  <2> QED
    BY <2>1, <2>2 DEF FetchAtOnce
<1>3. Pending(c)' = Pending(c)
  BY <1>1, <1>2, PendingStays DEF interrupts
<1> QED
  BY <1>1, <1>3, StaysUnread DEF transport

LEMMA StartWaitStep == ASSUME IInv, NEW c \in Conn, StartWait PROVE StepOK(c)
<1>1. /\ type = "FETCH1" /\ type' = "FETCH2" /\ InterruptAgent = None
      /\ master.event = << >> /\ master.ready = << >> /\ master.fetched = None
      /\ InterruptQueue \in Seq(Interrupt)
      /\ UNCHANGED <<master, transport, status, got>>
  BY DEF StartWait, IInv, Sched, SchedType, WaitOK
<1>2. ~On(master, Read(c))
  <2>1. Range(<< >>) = {}
    BY DEF Range
  <2> QED
    BY <1>1, <2>1, Threads DEF On, IsFetched
<1>3. c # None
  BY NoneAssumption
<1>4. CASE InterruptQueue = << >>
  <2>1. UNCHANGED interrupts
    BY <1>4 DEF StartWait
  <2>2. Pending(c)' = Pending(c)
    BY <1>1, <1>3, <2>1, PendingStays DEF interrupts
  <2> QED
    BY <1>1, <2>2, StaysUnread DEF transport
<1>5. CASE InterruptQueue # << >>
  <2> DEFINE h == Head(InterruptQueue)
             a == IF h.agent = c THEN <<h.msg>> ELSE << >>
             r == MessagesOf(Tail(InterruptQueue), c)
  <2>1. /\ InterruptAgent' = h.agent /\ ReceivedMsg' = h.msg
        /\ InterruptQueue' = Tail(InterruptQueue)
    BY <1>5 DEF StartWait
  <2>2. Taken(c) = << >>
    BY <1>1, <1>2 DEF Taken
  <2>3. Taken(c)' = a
    BY <1>1, <1>2, <2>1 DEF Taken
  <2>4. Queued(c)' = r
    BY <2>1 DEF Queued
  <2>5. Queued(c) = Cat(a, r)
    BY <1>1, <1>5, MessagesHead DEF Queued
  <2> HIDE DEF a, r
  <2>6. Pending(c)' = Cat(a, r)
    BY <2>3, <2>4 DEF Pending
  <2>7. Queued(c) \in Seq(AnyMsg)
    BY PartsTyped
  <2>8. Pending(c) = Queued(c)
    BY <2>2, <2>7, CatEmpty DEF Pending
  <2>9. Pending(c)' = Pending(c)
    BY <2>5, <2>6, <2>8
  <2> QED
    BY <1>1, <2>9, StaysUnread DEF transport
<1> QED
  BY <1>4, <1>5

\* Whoever is woken up by an open connection listens to it.
LEMMA EndWaitStep == ASSUME IInv, NEW c \in Conn, EndWait PROVE StepOK(c)
<1>1. /\ type = "FETCH2" /\ type' \in {"FETCH1", "EXECUTE"}
      /\ (On(master', Read(c)) <=> c = InterruptAgent /\ c \in master.read)
  BY EndWaitFacts
<1>2. UNCHANGED <<InterruptQueue, ReceivedMsg, transport, status, got>>
  BY DEF EndWait
<1>3. CASE status[c] = "Gone"
  BY <1>2, <1>3, StaysGone
<1>4. CASE status[c] # "Gone"
  <2>1. ~On(master, Read(c))
    BY <1>1 DEF IInv, Sched, WaitOK
  <2>2. c \in master.read
    BY <1>1, <1>4, <2>1 DEF IInv, Conns, ConnOK
  <2>3. Taken(c)' = Taken(c)
    BY <1>1, <1>2, <2>1, <2>2 DEF Taken
  <2>4. Queued(c)' = Queued(c)
    BY <1>2 DEF Queued
  <2>5. Pending(c)' = Pending(c)
    BY <2>3, <2>4 DEF Pending
  <2> QED
    BY <1>2, <2>5, StaysUnread DEF transport
<1> QED
  BY <1>3, <1>4

\* A thread that neither reads, opens nor closes a connection.
LEMMA RunPlainStep ==
  ASSUME IInv, NEW func \in {"other", "timer", "bgp_write"}, Calls(func),
         Affected(Running, master'), UNCHANGED <<interrupts, transport, status, sent, got>>,
         NEW c \in Conn
  PROVE  StepOK(c)
<1>1. On(master', Read(c)) <=> On(master, Read(c))
  BY RunPlainInv
<1>2. type = "EXECUTE" /\ type' = "FETCH1"
  BY CallFacts
<1>3. Pending(c)' = Pending(c)
  BY <1>1, <1>2, PendingStays DEF interrupts
<1> QED
  BY <1>3, StaysUnread DEF transport

\* bgp_read takes the first of the messages.
LEMMA ReadStep ==
  ASSUME IInv, NEW c \in Conn, Calls("bgp_read"),
         \A d \in Conn : On(master', Read(d)) <=> On(master, Read(d)) /\ d # Callee,
         got' = [got EXCEPT ![Callee] = ReceivedMsg],
         UNCHANGED <<interrupts, transport, status>>
  PROVE  StepOK(c)
<1>1. /\ Callee \in Conn /\ On(master, Read(Callee))
      /\ ReceivedMsg \in Message /\ status[Callee] # "Gone"
  BY ReadCalled
<1>2. type = "EXECUTE" /\ type' = "FETCH1"
  BY CallFacts
<1>3. got \in [Conn -> Message]
  BY DEF IInv, Conns
<1>4. CASE c # Callee
  <2>1. got'[c] = got[c] /\ (On(master', Read(c)) <=> On(master, Read(c)))
    BY <1>1, <1>3, <1>4
  <2>2. Pending(c)' = Pending(c)
    BY <1>2, <2>1, PendingStays DEF interrupts
  <2> QED
    BY <2>1, <2>2, StaysUnread DEF transport
<1>5. CASE c = Callee
  <2> DEFINE q == Queued(c)
             r == Coming(c)
             o == <<ReceivedMsg>>
  <2>1. got'[c] = ReceivedMsg
    BY <1>1, <1>3, <1>5
  <2>2. Taken(c) = o /\ Taken(c)' = << >>
    BY <1>1, <1>2, <1>5 DEF Taken
  <2>3. Queued(c)' = q
    BY DEF Queued, interrupts
  <2>4. Coming(c)' = r
    BY ComingIs DEF transport
  <2>5. /\ q \in Seq(AnyMsg) /\ r \in Seq(AnyMsg) /\ << >> \in Seq(AnyMsg)
        /\ o \in Seq(AnyMsg)
    BY <1>1, PartsTyped DEF AnyMsg
  <2>6. Unread(c) = Cat(Cat(o, q), r)
    BY <1>1, <1>5, <2>2, UnreadIs DEF Pending
  <2>7. Pending(c)' = Cat(<< >>, q)
    BY <2>2, <2>3 DEF Pending
  <2> HIDE DEF q, r, o
  <2>8. Pending(c)' = q
    BY <2>5, <2>7, CatEmpty
  <2>9. status'[c] # "Gone"
    BY <1>1, <1>5
  <2>10. Unread(c)' = Cat(q, r)
    BY <2>4, <2>8, <2>9, UnreadIsPrime
  <2>11. Unread(c)' \in Seq(AnyMsg)
    BY <2>5, <2>10, CatFacts
  <2>12. Unread(c) = Cat(o, Unread(c)')
    BY <2>5, <2>6, <2>10, CatTwice
  <2>13. got'[c] \in AnyMsg /\ o = <<got'[c]>>
    BY <1>1, <2>1 DEF AnyMsg, o
  <2> QED
    BY <2>11, <2>12, <2>13, IsRead
<1> QED
  BY <1>4, <1>5

LEMMA EventOpenedStep == ASSUME IInv, NEW c \in Conn, EventOpened PROVE StepOK(c)
<1>1. /\ Callee \in Conn /\ status[Callee] # "Gone"
      /\ (On(master', Read(c)) <=> On(master, Read(c)))
  BY EventOpenedInv
<1>2. /\ Calls("opened") /\ status' = [status EXCEPT ![Callee] = "Open"]
      /\ UNCHANGED <<interrupts, transport, got>>
  BY DEF EventOpened
<1>3. type = "EXECUTE" /\ type' = "FETCH1"
  BY <1>2, CallFacts
<1>4. Pending(c)' = Pending(c)
  BY <1>1, <1>2, <1>3, PendingStays DEF interrupts
<1>5. status'[c] = "Gone" <=> status[c] = "Gone"
  BY <1>1, <1>2 DEF IInv, Conns
<1> QED
  BY <1>2, <1>4, <1>5, StaysUnread DEF transport

LEMMA EventStopStep == ASSUME IInv, NEW c \in Conn, EventStop PROVE StepOK(c)
<1>1. Callee \in Conn /\ \A d \in Conn : d # Callee => SameFor(master, master', d)
  BY EventStopFacts
<1>2. /\ Calls("stop")
      /\ m_msgs' = [m_msgs EXCEPT ![Callee] = << >>]
      /\ first' = [first EXCEPT ![Callee] = 0]
      /\ status' = [status EXCEPT ![Callee] = "Gone"]
      /\ UNCHANGED <<interrupts, wire, link, got>>
  BY DEF EventStop
<1>3. type = "EXECUTE" /\ type' = "FETCH1"
  BY <1>2, CallFacts
<1>4. status \in [Conn -> {"Connect", "Open", "Gone"}] /\ TransportType
  BY DEF IInv, Conns, Transport
<1>5. CASE c = Callee
  BY <1>1, <1>2, <1>4, <1>5, IsCloseHere
<1>6. CASE c # Callee
  <2>1. On(master', Read(c)) <=> On(master, Read(c))
    BY <1>1, <1>6 DEF SameFor
  <2>2. Pending(c)' = Pending(c)
    BY <1>2, <1>3, <2>1, PendingStays DEF interrupts
  <2>3. m_msgs'[c] = m_msgs[c] /\ first'[c] = first[c] /\ status'[c] = status[c]
    BY <1>1, <1>2, <1>4, <1>6 DEF TransportType
  <2> QED
    BY <1>2, <2>2, <2>3, StaysUnread
<1> QED
  BY <1>5, <1>6

LEMMA CommandStep == ASSUME IInv, NEW c \in Conn, Command PROVE StepOK(c)
<1>1. /\ master' \in Effects(master) /\ Interrupted(None, <<None>>)
      /\ UNCHANGED <<type, transport, status, sent, got>>
  BY DEF Command
<1>2. Kept(master, master')
  BY <1>1, EffectsOK DEF IInv, Sched
<1>3. <<None>> \in Seq(AnyMsg) /\ None # c
  BY NoneAssumption DEF AnyMsg
<1>4. Pending(c)' = Cat(Pending(c), << >>)
  <2>1. On(master', Read(c)) <=> On(master, Read(c))
    BY <1>2 DEF Kept
  <2>2. Pending(c)' = Cat(Pending(c), IF None = c THEN <<None>> ELSE << >>)
    BY <1>1, <1>3, <2>1, PendingGrows
  <2> QED
    BY <1>3, <2>2
<1>5. Pending(c)' = Pending(c)
  BY <1>4, PartsTyped, CatEmpty
<1> QED
  BY <1>1, <1>5, StaysUnread DEF transport

LEMMA TickStep == ASSUME IInv, NEW c \in Conn, Tick PROVE StepOK(c)
<1>1. /\ master' = [master EXCEPT !.left = [t \in Timer |-> IF @[t] = 0 THEN 0 ELSE @[t] - 1]]
      /\ UNCHANGED <<type, interrupts, transport, status, got>>
  BY DEF Tick
<1>2. MasterOK(master)
  BY DEF IInv, Sched
<1>3. Kept(master, master')
  BY <1>1, <1>2, TickFacts
<1>4. On(master', Read(c)) <=> On(master, Read(c))
  BY <1>3 DEF Kept
<1>5. Pending(c)' = Pending(c)
  BY <1>1, <1>4, PendingStays DEF interrupts
<1> QED
  BY <1>1, <1>5, StaysUnread DEF transport

\* A message behind others.
LEMMA CatLast ==
  ASSUME NEW S, NEW s \in Seq(S), NEW m \in S
  PROVE  Append(s, m) = Cat(s, <<m>>) /\ <<m>> \in Seq(S)
<1>1. Append(s, m) = s \o <<m>>
  BY AppendIsConcat
<1>2. <<m>> \in Seq(S)
  OBVIOUS
<1> QED
  BY <1>1, <1>2 DEF Cat

\* What is left when others behind it are given up.
LEMMA CatCut ==
  ASSUME NEW S, NEW s \in Seq(S), NEW t \in Seq(S), NEW j \in 0..Len(t)
  PROVE  /\ SubSeq(t, 1, j) \in Seq(S)
         /\ Len(s) + j \in 0..Len(Cat(s, t))
         /\ Cat(s, SubSeq(t, 1, j)) = SubSeq(Cat(s, t), 1, Len(s) + j)
<1> DEFINE u == Cat(s, t)
           a == SubSeq(t, 1, j)
           v == Cat(s, a)
           K == Len(s)
           w == SubSeq(u, 1, K + j)
<1>1. K \in Nat /\ Len(t) \in Nat /\ j \in Nat /\ j <= Len(t)
  OBVIOUS
<1>2. u \in Seq(S)
  BY CatFacts
<1>3. Len(u) = K + Len(t)
  BY CatFacts
<1>4. \A i \in 1..K : u[i] = s[i]
  BY CatFacts
<1>5. \A i \in 1..Len(t) : u[K + i] = t[i]
  BY CatFacts
<1>6. a \in Seq(S) /\ Len(a) = j /\ \A i \in 1..j : a[i] = t[i]
  <2>1. \A i \in 1..j : t[i] \in S
    BY <1>1
  <2>2. /\ a \in Seq(S) /\ Len(a) = IF 1 <= j THEN j - 1 + 1 ELSE 0
        /\ \A i \in 1..(j - 1 + 1) : a[i] = t[1 + i - 1]
    BY <1>1, <2>1, SubSeqProperties
  <2> HIDE DEF a
  <2>3. Len(a) = j
    BY <1>1, <2>2
  <2>4. ASSUME NEW i \in 1..j PROVE a[i] = t[i]
    <3>1. i \in 1..(j - 1 + 1) /\ 1 + i - 1 = i
      BY <1>1
    <3> QED
      BY <2>2, <3>1
  <2> QED
    BY <2>2, <2>3, <2>4
<1> HIDE DEF a, u
<1>0. a \in Seq(S)
  BY <1>6
<1>7. v \in Seq(S)
  BY <1>0, CatFacts
<1>8. Len(v) = K + Len(a)
  BY <1>0, CatFacts
<1>9. \A i \in 1..K : v[i] = s[i]
  BY <1>0, CatFacts
<1>10. \A i \in 1..Len(a) : v[K + i] = a[i]
  BY <1>0, CatFacts
<1> HIDE DEF v, K
<1>11. K + j \in Nat /\ K + j <= Len(u) /\ Len(u) \in Nat
  BY <1>1, <1>3
<1> DEFINE n == K + j
<1>12. n \in Nat /\ n <= Len(u) /\ Len(u) \in Nat /\ w = SubSeq(u, 1, n)
  BY <1>11
<1> HIDE DEF w, n
<1>13. w \in Seq(S) /\ Len(w) = n /\ \A i \in 1..n : w[i] = u[i]
  <2>1. \A i \in 1..n : u[i] \in S
    BY <1>2, <1>12
  <2>2. /\ w \in Seq(S) /\ Len(w) = IF 1 <= n THEN n - 1 + 1 ELSE 0
        /\ \A i \in 1..(n - 1 + 1) : w[i] = u[1 + i - 1]
    BY <1>12, <2>1, SubSeqProperties
  <2>3. Len(w) = n
    BY <1>12, <2>2
  <2>4. ASSUME NEW i \in 1..n PROVE w[i] = u[i]
    <3>1. i \in 1..(n - 1 + 1) /\ 1 + i - 1 = i
      BY <1>12
    <3> QED
      BY <2>2, <3>1
  <2> QED
    BY <2>2, <2>3, <2>4
<1>14. Len(v) = n
  BY <1>6, <1>8 DEF n
<1>15. ASSUME NEW i \in 1..n PROVE v[i] = w[i]
  <2>1. w[i] = u[i]
    BY <1>13
  <2>2. CASE i \in 1..K
    BY <1>4, <1>9, <2>1, <2>2
  <2>3. CASE i \notin 1..K
    <3>1. PICK x \in 1..j : K + x = i
      <4> DEFINE x == i - K
      <4>1. x \in 1..j /\ K + x = i
        BY <1>1, <2>3 DEF n, K
      <4> HIDE DEF x
      <4> QED
        BY <4>1
    <3>2. x \in 1..Len(t) /\ x \in 1..Len(a)
      BY <1>1, <1>6
    <3>3. v[i] = a[x] /\ u[i] = t[x] /\ a[x] = t[x]
      BY <1>5, <1>6, <1>10, <3>1, <3>2
    <3> QED
      BY <2>1, <3>3
  <2> QED
    BY <2>2, <2>3
<1>16. v = w
  BY <1>7, <1>13, <1>14, <1>15, SeqEqual
<1> QED
  BY <1>6, <1>11, <1>16 DEF v, w, a, u, K

\* An interrupt of one connection is none of another's.
LEMMA OtherStays ==
  ASSUME IInv, NEW c \in Conn, NEW msgs \in Seq(AnyMsg), Interrupted(c, msgs),
         UNCHANGED <<type, master, status, got>>,
         NEW d \in Conn, d # c,
         m_msgs'[d] = m_msgs[d], first'[d] = first[d], wire'[d] = wire[d], link'[d] = link[d]
  PROVE  StepOK(d)
<1>1. Pending(d)' = Cat(Pending(d), << >>)
  <2>1. Pending(d)' = Cat(Pending(d), IF c = d THEN msgs ELSE << >>)
    BY PendingGrows
  <2> QED
    BY <2>1
<1>2. Pending(d)' = Pending(d)
  BY <1>1, PartsTyped, CatEmpty
<1> QED
  BY <1>2, StaysUnread

\* What the connection itself gets.
LEMMA OwnGrows ==
  ASSUME IInv, NEW c \in Conn, NEW msgs \in Seq(AnyMsg), Interrupted(c, msgs),
         UNCHANGED <<type, master>>
  PROVE  Pending(c)' = Cat(Pending(c), msgs)
<1>1. Pending(c)' = Cat(Pending(c), IF c = c THEN msgs ELSE << >>)
  BY PendingGrows
<1> QED
  BY <1>1

LEMMA AnswerStep == ASSUME IInv, NEW c \in Conn, Answer(c), NEW d \in Conn PROVE StepOK(d)
<1>1. PICK l \in {"open", "closed"} : link' = [link EXCEPT ![c] = l]
  BY DEF Answer
<1>2. /\ link[c] = "opening" /\ Interrupted(c, <<Zero(c)>>)
      /\ UNCHANGED <<type, master, m_msgs, first, wire, status, got>>
  BY DEF Answer
<1>3. <<Zero(c)>> \in Seq(AnyMsg) /\ << >> \in Seq(AnyMsg)
  BY ZeroTyped
<1>4. TransportType
  BY TransportAt
<1>5. CASE d # c
  <2>1. link'[d] = link[d]
    BY <1>1, <1>4, <1>5 DEF TransportType
  <2> QED
    BY <1>2, <1>3, <1>5, <2>1, OtherStays
<1>6. CASE d = c /\ status[c] = "Gone"
  BY <1>2, <1>6, StaysGone
<1>7. CASE d = c /\ status[c] # "Gone"
  <2>1. Whole(m_msgs[c], first[c] + wire[c]) = << >>
    <3>1. m_msgs[c] = << >> /\ first[c] + wire[c] \in Nat /\ Sized(m_msgs[c])
      BY <1>2, TransportAt DEF TransportOK
    <3>2. << >> \in Seq(Message)
      OBVIOUS
    <3> QED
      BY <3>1, <3>2, WholeNone
  <2>2. link'[c] = l
    BY <1>1, <1>4 DEF TransportType
  <2>3. Close(link[c], c) = << >> /\ Close(link'[c], c) = << >>
    BY <1>2, <2>2 DEF Close
  <2>4. Coming(c) = << >> /\ Coming(c)' = << >>
    BY <1>2, <1>3, <2>1, <2>3, ComingIs, CatEmpty
  <2> DEFINE p == Pending(c)
             z == Zero(c)
  <2>5. Pending(c)' = Cat(p, <<z>>)
    BY <1>2, <1>3, OwnGrows
  <2>6. p \in Seq(AnyMsg) /\ z \in AnyMsg /\ z \in Message
    BY PartsTyped, ZeroTyped
  <2>7. Unread(c) = Cat(p, << >>)
    BY <1>7, <2>4, UnreadIs
  <2>8. Unread(c)' = Cat(Cat(p, <<z>>), << >>)
    BY <1>2, <1>7, <2>4, <2>5, UnreadIsPrime
  <2> HIDE DEF p, z
  <2>9. Append(p, z) = Cat(p, <<z>>) /\ Append(p, z) \in Seq(AnyMsg)
    BY <2>6, CatLast
  <2>10. Unread(c) = p /\ Unread(c)' = Append(p, z)
    BY <2>6, <2>7, <2>8, <2>9, CatEmpty
  <2> QED
    BY <1>2, <1>7, <2>6, <2>10, IsSend
<1> QED
  BY <1>5, <1>6, <1>7

LEMMA FinStep == ASSUME IInv, NEW c \in Conn, Fin(c), NEW d \in Conn PROVE StepOK(d)
<1>1. /\ link[c] = "closing" /\ wire[c] = 0 /\ link' = [link EXCEPT ![c] = "closed"]
      /\ Interrupted(c, <<Zero(c)>>)
      /\ UNCHANGED <<type, master, m_msgs, first, wire, status, got>>
  BY DEF Fin
<1>2. <<Zero(c)>> \in Seq(AnyMsg) /\ << >> \in Seq(AnyMsg)
  BY ZeroTyped
<1>3. TransportType
  BY TransportAt
<1>4. CASE d # c
  <2>1. link'[d] = link[d]
    BY <1>1, <1>3, <1>4 DEF TransportType
  <2> QED
    BY <1>1, <1>2, <1>4, <2>1, OtherStays
<1>5. CASE d = c /\ status[c] = "Gone"
  BY <1>1, <1>5, StaysGone
<1>6. CASE d = c /\ status[c] # "Gone"
  <2>1. Whole(m_msgs[c], first[c] + wire[c]) = << >>
    <3>1. /\ m_msgs[c] \in Seq(Message) /\ first[c] + wire[c] \in Nat /\ Sized(m_msgs[c])
          /\ m_msgs[c] # << >> => first[c] + wire[c] < Head(m_msgs[c]).size
      BY <1>1, TransportAt DEF TransportOK
    <3> QED
      BY <3>1, WholeNone
  <2> DEFINE p == Pending(c)
             o == <<Zero(c)>>
  <2>2. link'[c] = "closed"
    BY <1>1, <1>3 DEF TransportType
  <2>3. Close(link[c], c) = o /\ Close(link'[c], c) = << >>
    BY <1>1, <2>2 DEF Close
  <2>4. Coming(c) = Cat(<< >>, o) /\ Coming(c)' = Cat(<< >>, << >>)
    BY <1>1, <2>1, <2>3, ComingIs
  <2>5. Pending(c)' = Cat(p, o)
    BY <1>1, <1>2, OwnGrows
  <2>6. p \in Seq(AnyMsg) /\ o \in Seq(AnyMsg)
    BY <1>2, PartsTyped
  <2>7. Unread(c) = Cat(p, Coming(c))
    BY <1>6, UnreadIs
  <2>8. Unread(c)' = Cat(Cat(p, o), Coming(c)')
    BY <1>1, <1>6, <2>5, UnreadIsPrime
  <2> HIDE DEF p, o
  <2>9. Coming(c) = o /\ Coming(c)' = << >>
    BY <1>2, <2>4, <2>6, CatEmpty
  <2>10. Cat(p, o) \in Seq(AnyMsg)
    BY <2>6, CatFacts
  <2>11. Unread(c)' = Unread(c)
    BY <2>7, <2>8, <2>9, <2>10, CatEmpty
  <2> QED
    BY <1>1, <1>6, <2>11, Stays
<1> QED
  BY <1>4, <1>5, <1>6

\* A message that is complete comes in; the others still come.
LEMMA RecvStep == ASSUME IInv, NEW c \in Conn, Recv(c), NEW d \in Conn PROVE StepOK(d)
<1>1. PICK n \in 1..wire[c] :
        /\ wire' = [wire EXCEPT ![c] = @ - n]
        /\ IF status[c] = "Gone"
             THEN UNCHANGED <<m_msgs, first, interrupts, expire>>
             ELSE LET k == Complete(m_msgs[c], first[c] + n)
                      msgs == SubSeq(m_msgs[c], 1, k)
                      rest == SubSeq(m_msgs[c], k + 1, Len(m_msgs[c]))
                  IN  /\ m_msgs' = [m_msgs EXCEPT ![c] = rest]
                      /\ first' = [first EXCEPT ![c] = IF rest = << >> THEN 0
                                                       ELSE @ + n - Bytes(m_msgs[c], k)]
                      /\ Interrupted(c, msgs)
  BY DEF Recv
<1>2. UNCHANGED <<type, master, link, status, got>>
  BY DEF Recv
<1>3. TransportType /\ wire[c] \in Nat /\ first[c] \in Nat
  BY TransportAt
<1>4. wire'[c] = wire[c] - n /\ \A e \in Conn : e # c => wire'[e] = wire[e]
  BY <1>1, <1>3 DEF TransportType
<1>5. CASE status[c] = "Gone"
  <2>1. UNCHANGED <<m_msgs, first, interrupts>>
    BY <1>1, <1>5
  <2>2. CASE d = c
    BY <1>2, <1>5, <2>2, StaysGone
  <2>3. CASE d # c
    <3>1. Pending(d)' = Pending(d)
      BY <1>2, <2>1, PendingStays DEF interrupts
    <3> QED
      BY <1>2, <1>4, <2>1, <2>3, <3>1, StaysUnread
  <2> QED
    BY <2>2, <2>3
<1>6. CASE status[c] # "Gone"
  <2> DEFINE a == Whole(m_msgs[c], first[c] + n)
             b == Whole(m_msgs'[c], first'[c] + (wire[c] - n))
             z == Close(link[c], c)
             p == Pending(c)
  <2>1. /\ Interrupted(c, a) /\ a \in Seq(Message)
        /\ m_msgs'[c] \in Seq(Message) /\ Sized(m_msgs'[c]) /\ first'[c] \in Nat
        /\ Whole(m_msgs[c], first[c] + wire[c]) = Cat(a, b)
        /\ m_msgs' = [m_msgs EXCEPT ![c] = m_msgs'[c]]
        /\ first' = [first EXCEPT ![c] = first'[c]]
    BY <1>1, <1>6, RecvFacts
  <2>2. a \in Seq(AnyMsg)
    BY <2>1 DEF AnyMsg
  <2>3. CASE d # c
    <3>1. m_msgs'[d] = m_msgs[d] /\ first'[d] = first[d]
      BY <1>3, <2>1, <2>3 DEF TransportType
    <3> HIDE DEF a
    <3> QED
      BY <1>2, <1>4, <2>1, <2>2, <2>3, <3>1, OtherStays
  <2>4. CASE d = c
    <3>1. b \in Seq(AnyMsg)
      <4>1. first'[c] + (wire[c] - n) \in Nat
        BY <1>3, <2>1
      <4>2. b \in Seq(Message)
        BY <2>1, <4>1, WholeFacts
      <4> QED
        BY <4>2 DEF AnyMsg
    <3>2. z \in Seq(AnyMsg) /\ p \in Seq(AnyMsg)
      BY PartsTyped, CloseTyped
    <3>3. Coming(c) = Cat(Cat(a, b), z)
      BY <2>1, ComingIs
    <3>4. Coming(c)' = Cat(b, z)
      BY <1>2, <1>4, ComingIs
    <3>5. Unread(c) = Cat(p, Coming(c))
      BY <1>6, UnreadIs
    <3> HIDE DEF a, b, z
    <3>6. Pending(c)' = Cat(p, a)
      BY <1>2, <2>1, <2>2, OwnGrows
    <3>7. Unread(c)' = Cat(Cat(p, a), Cat(b, z))
      BY <1>2, <1>6, <3>4, <3>6, UnreadIsPrime
    <3> HIDE DEF p
    <3>8. Cat(b, z) \in Seq(AnyMsg)
      BY <3>1, <3>2, CatFacts
    <3>9. Cat(Cat(p, a), Cat(b, z)) = Cat(p, Cat(a, Cat(b, z)))
      BY <2>2, <3>2, <3>8, CatTwice
    <3>10. Cat(Cat(a, b), z) = Cat(a, Cat(b, z))
      BY <2>2, <3>1, <3>2, CatTwice
    <3>11. Unread(c)' = Unread(c)
      BY <3>3, <3>5, <3>7, <3>9, <3>10
    <3> QED
      BY <1>2, <2>4, <3>11, Stays
  <2> QED
    BY <2>3, <2>4
<1> QED
  BY <1>5, <1>6

LEMMA SendMessageStep ==
  ASSUME IInv, NEW c \in Conn, SendMessage(c), NEW d \in Conn
  PROVE  StepOK(d)
<1>1. PICK s \in Size :
        /\ m_msgs' = [m_msgs EXCEPT ![c] = Append(@, [conn |-> c, id |-> sent[c] + 1, size |-> s])]
        /\ wire' = [wire EXCEPT ![c] = @ + s]
  BY DEF SendMessage
<1>2. /\ link[c] = "open" /\ status[c] # "Gone"
      /\ UNCHANGED <<type, master, interrupts, first, link, status, got>>
  BY DEF SendMessage
<1>3. TransportType
  BY TransportAt
<1>4. Pending(d)' = Pending(d)
  BY <1>2, PendingStays DEF interrupts
<1>5. CASE d # c
  <2>1. m_msgs'[d] = m_msgs[d] /\ wire'[d] = wire[d]
    BY <1>1, <1>3, <1>5 DEF TransportType
  <2> QED
    BY <1>2, <1>4, <2>1, StaysUnread
<1>6. CASE d = c
  <2> DEFINE v == m_msgs[c]
             m == [conn |-> c, id |-> sent[c] + 1, size |-> s]
             p == Pending(c)
             b == first[c] + wire[c]
             v2 == Append(v, m)
  <2>1. /\ v \in Seq(Message) /\ b \in Nat /\ Sized(v) /\ s \in Nat
        /\ b = Bytes(v, Len(v))
    BY <1>2, SizeAssumption, TransportAt DEF TransportOK
  <2>2. /\ m_msgs'[c] = v2 /\ first'[c] + wire'[c] = b + s
        /\ first'[c] + wire'[c] \in Nat
    BY <1>1, <1>2, <1>3, <2>1 DEF TransportType
  <2>3. IInv'
    BY SendMessageInv
  <2>4. v2 \in Seq(Message) /\ Sized(v2)
    <3>1. TransportType' /\ TransportOK(status'[c], m_msgs'[c], first'[c], wire'[c], link'[c], sent'[c])
      BY <2>3 DEF IInv, Transport
    <3>2. m_msgs'[c] \in Seq(Message) /\ Sized(m_msgs'[c])
      BY <3>1 DEF TransportType, TransportOK
    <3> QED
      BY <2>2, <3>2
  <2>5. m \in Message /\ m.size = s
    <3>1. Len(v2) \in 1..Len(v2) /\ v2[Len(v2)] = m
      BY <2>1
    <3> HIDE DEF m, v2
    <3>2. m \in Message
      BY <2>4, <3>1
    <3> QED
      BY <3>2 DEF m
  <2>6. p \in Seq(AnyMsg)
    BY PartsTyped
  <2>7. Unread(c) = Cat(p, Coming(c)) /\ Unread(c)' = Cat(p, Coming(c)')
    BY <1>2, <1>4, <1>6, UnreadIs, UnreadIsPrime
  <2>8. Close(link[c], c) = << >> /\ Close(link'[c], c) = << >>
    BY <1>2 DEF Close
  <2> HIDE DEF b, p, m
  <2>9. Whole(v, b) = v
    <3> HIDE DEF v
    <3>1. Bytes(v, Len(v)) <= b
      BY <2>1
    <3> QED
      BY <2>1, <3>1, WholeAll
  <2>10. Coming(c) = Cat(v, << >>)
    BY <2>8, <2>9, ComingIs DEF b
  <2>11. Bytes(v2, Len(v2)) = b + s
    <3> HIDE DEF v
    <3>1. Bytes(v2, Len(v2)) = Bytes(v, Len(v)) + m.size
      BY <2>1, <2>5, BytesAppend
    <3> QED
      BY <2>1, <2>5, <3>1
  <2>12. Whole(v2, b + s) = v2
    <3> HIDE DEF v2
    <3>1. Bytes(v2, Len(v2)) <= b + s /\ b + s \in Nat
      BY <2>1, <2>11
    <3> QED
      BY <2>4, <3>1, WholeAll
  <2> HIDE DEF v
  <2>13. Coming(c)' = Cat(v2, << >>)
    <3> HIDE DEF v2
    <3> QED
      BY <2>2, <2>8, <2>12, ComingIs
  <2>14. v \in Seq(AnyMsg) /\ m \in AnyMsg
    BY <2>1, <2>5 DEF AnyMsg
  <2>15. v2 = Cat(v, <<m>>) /\ <<m>> \in Seq(AnyMsg) /\ v2 \in Seq(AnyMsg)
    BY <2>14, CatLast
  <2> HIDE DEF v2
  <2>16. Coming(c) = v /\ Coming(c)' = v2
    BY <2>10, <2>13, <2>14, <2>15, CatEmpty
  <2>17. Cat(p, v) \in Seq(AnyMsg)
    <3>1. v \in Seq(AnyMsg)
      BY <2>14
    <3> QED
      BY <2>6, <3>1, CatFacts
  <2>18. Cat(p, v2) = Cat(Cat(p, v), <<m>>)
    <3> DEFINE o == <<m>>
    <3>1. p \in Seq(AnyMsg) /\ v \in Seq(AnyMsg) /\ o \in Seq(AnyMsg) /\ v2 = Cat(v, o)
      BY <2>6, <2>14, <2>15
    <3> HIDE DEF o
    <3>2. Cat(Cat(p, v), o) = Cat(p, Cat(v, o))
      BY <3>1, CatTwice
    <3> QED
      BY <3>1, <3>2 DEF o
  <2>19. Append(Cat(p, v), m) = Cat(Cat(p, v), <<m>>)
    BY <2>14, <2>17, CatLast
  <2>20. Unread(c)' = Append(Unread(c), m)
    BY <2>7, <2>16, <2>18, <2>19
  <2> QED
    BY <1>2, <1>6, <2>5, <2>20, IsSend
<1> QED
  BY <1>5, <1>6

\* What has not been transmitted is lost, from some message on.
LEMMA CloseThereStep ==
  ASSUME IInv, NEW c \in Conn, CloseThere(c), NEW d \in Conn
  PROVE  StepOK(d)
<1>1. PICK n \in 0..wire[c] : wire' = [wire EXCEPT ![c] = n]
  BY DEF CloseThere
<1>2. /\ link[c] = "open" /\ link' = [link EXCEPT ![c] = "closing"]
      /\ UNCHANGED <<type, master, interrupts, m_msgs, first, status, got>>
  BY DEF CloseThere
<1>3. TransportType
  BY TransportAt
<1>4. Pending(d)' = Pending(d)
  BY <1>2, PendingStays DEF interrupts
<1>5. CASE d # c
  <2>1. link'[d] = link[d] /\ wire'[d] = wire[d]
    BY <1>1, <1>2, <1>3, <1>5 DEF TransportType
  <2> QED
    BY <1>2, <1>4, <2>1, StaysUnread
<1>6. CASE d = c /\ status[c] = "Gone"
  BY <1>2, <1>6, StaysGone
<1>7. CASE d = c /\ status[c] # "Gone"
  <2> DEFINE v == m_msgs[c]
             b == first[c] + wire[c]
             b2 == first[c] + n
             w == Whole(v, b)
             p == Pending(c)
             z == Zero(c)
  <2>1. v \in Seq(Message) /\ Sized(v) /\ b \in Nat /\ b2 \in Nat /\ b2 <= b
    <3>1. first[c] \in Nat /\ wire[c] \in Nat /\ v \in Seq(Message) /\ Sized(v)
      BY TransportAt DEF TransportOK
    <3> QED
      BY <3>1
  <2>2. link'[c] = "closing" /\ wire'[c] = n
    BY <1>1, <1>2, <1>3 DEF TransportType
  <2>3. Close(link[c], c) = << >> /\ Close(link'[c], c) = <<z>>
    BY <1>2, <2>2 DEF Close
  <2>4. /\ Unread(c) = Cat(p, Coming(c)) /\ Unread(c)' = Cat(p, Coming(c)')
    BY <1>2, <1>4, <1>7, UnreadIs, UnreadIsPrime
  <2>5. Coming(c) = Cat(w, << >>)
    BY <2>3, ComingIs
  <2>6. Coming(c)' = Cat(Whole(v, b2), <<z>>)
    BY <1>2, <2>2, <2>3, ComingIs
  <2>7. p \in Seq(AnyMsg) /\ z \in Message /\ z \in AnyMsg /\ w \in Seq(AnyMsg)
    BY PartsTyped, ZeroTyped
  <2> HIDE DEF v, b, b2, p, z
  <2>8. PICK j \in 0..Len(w) : Whole(v, b2) = SubSeq(w, 1, j)
    BY <2>1, WholeLess
  <2> HIDE DEF w
  <2> DEFINE s == SubSeq(w, 1, j)
             u == Cat(p, w)
             i == Len(p) + j
  <2>9. Coming(c) = w
    BY <2>5, <2>7, CatEmpty
  <2>10. s \in Seq(AnyMsg) /\ i \in 0..Len(u) /\ Cat(p, s) = SubSeq(u, 1, i)
    BY <2>7, CatCut
  <2> HIDE DEF s, i
  <2>11. Unread(c)' = Cat(p, Cat(s, <<z>>))
    BY <2>4, <2>6, <2>8 DEF s
  <2>12. <<z>> \in Seq(AnyMsg)
    BY <2>7
  <2>13. Cat(p, Cat(s, <<z>>)) = Cat(Cat(p, s), <<z>>)
    <3> DEFINE o == <<z>>
    <3>1. p \in Seq(AnyMsg) /\ s \in Seq(AnyMsg) /\ o \in Seq(AnyMsg)
      BY <2>7, <2>10, <2>12
    <3> HIDE DEF o
    <3>2. Cat(Cat(p, s), o) = Cat(p, Cat(s, o))
      BY <3>1, CatTwice
    <3> QED
      BY <3>2 DEF o
  <2>14. Cat(p, s) \in Seq(AnyMsg)
    <3>1. p \in Seq(AnyMsg) /\ s \in Seq(AnyMsg)
      BY <2>7, <2>10
    <3> QED
      BY <3>1, CatFacts
  <2>15. Append(Cat(p, s), z) = Cat(Cat(p, s), <<z>>)
    BY <2>7, <2>14, CatLast
  <2>16. Unread(c)' = Append(SubSeq(u, 1, i), z)
    BY <2>10, <2>11, <2>13, <2>15
  <2>17. Unread(c) = u
    BY <2>4, <2>9
  <2> HIDE DEF u
  <2> QED
    BY <1>2, <1>7, <2>7, <2>10, <2>16, <2>17, IsCloseThere
<1> QED
  BY <1>5, <1>6, <1>7

\* Every step is a step of each channel, or leaves it alone.
LEMMA NextStep == ASSUME IInv, [Next]_vars, NEW c \in Conn PROVE StepOK(c)
<1>1. CASE FetchAtOnce
  BY <1>1, FetchAtOnceStep
<1>2. CASE StartWait
  BY <1>2, StartWaitStep
<1>3. CASE EndWait
  BY <1>3, EndWaitStep
<1>4. CASE ReadConnecting
  <2>1. /\ Calls("bgp_read") /\ got' = [got EXCEPT ![Callee] = ReceivedMsg]
        /\ UNCHANGED <<interrupts, transport, status>>
    BY <1>4 DEF ReadConnecting
  <2>2. \A d \in Conn : On(master', Read(d)) <=> On(master, Read(d)) /\ d # Callee
    BY <1>4, ReadConnectingInv
  <2> QED
    BY <2>1, <2>2, ReadStep
<1>5. CASE ReadMessage
  <2>1. /\ Calls("bgp_read") /\ got' = [got EXCEPT ![Callee] = ReceivedMsg]
        /\ UNCHANGED <<interrupts, transport, status>>
    BY <1>5 DEF ReadMessage
  <2>2. \A d \in Conn : On(master', Read(d)) <=> On(master, Read(d)) /\ d # Callee
    BY <1>5, ReadMessageInv
  <2> QED
    BY <2>1, <2>2, ReadStep
<1>6. CASE EventOpened
  BY <1>6, EventOpenedStep
<1>7. CASE EventStop
  BY <1>7, EventStopStep
<1>8. CASE RunOther
  BY <1>8, RunPlainStep DEF RunOther
<1>9. CASE RunFreed
  <2>1. "timer" \in {"other", "timer", "bgp_write"}
    OBVIOUS
  <2> QED
    BY <1>9, <2>1, RunPlainStep DEF RunFreed
<1>10. CASE Command
  BY <1>10, CommandStep
<1>11. CASE Tick
  BY <1>11, TickStep
<1>12. ASSUME NEW e \in Conn, Network(e) \/ SendMessage(e) \/ CloseThere(e) PROVE StepOK(c)
  BY <1>12, AnswerStep, RecvStep, FinStep, SendMessageStep, CloseThereStep DEF Network
<1>13. CASE UNCHANGED vars
  <2>1. UNCHANGED <<type, master, interrupts, transport, status, got>>
    BY <1>13 DEF vars
  <2>2. Pending(c)' = Pending(c)
    BY <2>1, PendingStays DEF interrupts
  <2> QED
    BY <2>1, <2>2, StaysUnread DEF transport
<1> QED
  BY <1>1, <1>2, <1>3, <1>4, <1>5, <1>6, <1>7, <1>8, <1>9, <1>10, <1>11, <1>12, <1>13
  DEF Next, Timeout

\* Every channel is empty at first.
LEMMA InitStep == ASSUME Init, NEW c \in Conn PROVE C(c)!Init
<1>1. /\ type = "FETCH1" /\ InterruptQueue = << >> /\ link[c] = "opening"
      /\ m_msgs[c] = << >> /\ first[c] + wire[c] = 0 /\ got[c] = Zero(c)
      /\ master.ready = << >> /\ master.fetched = None
  BY DEF Init
<1>2. ~On(master, Read(c))
  <2>1. Range(<< >>) = {}
    BY DEF Range
  <2> QED
    BY <1>1, <2>1, Threads DEF On, IsFetched
<1>3. << >> \in Seq(AnyMsg) /\ << >> \in Seq(Message)
  OBVIOUS
<1>4. Taken(c) = << >>
  BY <1>1, <1>2 DEF Taken
<1>5. Queued(c) = << >>
  <2>1. None \in Conn \cup {None} /\ None # c
    BY NoneAssumption
  <2>2. MessagesOf(Entries(None, << >>), c) = << >>
    BY <1>3, <2>1, MessagesOfEntries
  <2>3. /\ Entries(None, << >>) \in Seq(Interrupt)
        /\ Len(Entries(None, << >>)) = Len(<< >>)
    BY <1>3, <2>1, EntriesTyped
  <2>4. Entries(None, << >>) = << >>
    BY <2>3
  <2> QED
    BY <1>1, <2>2, <2>4 DEF Queued
<1>6. Coming(c) = << >>
  <2>1. Sized(<< >>) /\ 0 \in Nat
    BY DEF Sized
  <2>2. Whole(<< >>, 0) = << >>
    BY <1>3, <2>1, WholeNone
  <2>3. Close(link[c], c) = << >>
    BY <1>1 DEF Close
  <2>4. Coming(c) = Cat(<< >>, << >>)
    BY <1>1, <2>2, <2>3, ComingIs
  <2> QED
    BY <1>3, <2>4, CatEmpty
<1>7. Unread(c) = << >>
  <2>1. Pending(c) = << >>
    BY <1>3, <1>4, <1>5, CatEmpty DEF Pending
  <2>2. Cat(<< >>, << >>) = << >>
    BY <1>3, CatEmpty
  <2> QED
    BY <1>6, <2>1, <2>2, UnreadIs
<1> QED
  BY <1>1, <1>7, ZeroTyped DEF C!Init

-----------------------------------------------------------------------------
(* The theorems.                                                           *)

\* In every reachable state the variables have their types: the queues hold
\* threads and interrupts, a thread is fetched exactly when it is about to run, and
\* the counters of bytes stay natural numbers.
THEOREM TypeCorrect == Spec => []TypeOK
BY Invariance, InvIsTyped, PTL

\* bgp_read always listens again: a session that is up has a reader, which waits
\* for the agent or is about to run, and never two; a session that is closed has
\* none, so no message can reach a peer that is gone.
THEOREM AlwaysListening == Spec => []Listening
<1>1. ASSUME IInv, NEW c \in Conn
      PROVE  /\ status[c] = "Open" => (c \in master.read) # On(master, Read(c))
             /\ status[c] = "Gone" => c \notin master.read /\ ~On(master, Read(c))
             /\ \A i, j \in DOMAIN master.ready :
                  master.ready[i] = Read(c) /\ master.ready[j] = Read(c) => i = j
  <2>1. MasterOK(master) /\ ConnOK(master, type, status[c], c)
    BY <1>1 DEF IInv, Sched, Conns
  <2>2. ReadOnce(master, c)
    BY <2>1 DEF MasterOK
  <2>3. On(master, Read(c)) => c \notin master.read
    BY <2>1, <2>2, OnIs DEF ReadOnce
  <2>4. \A i, j \in DOMAIN master.ready :
          master.ready[i] = Read(c) /\ master.ready[j] = Read(c) => i = j
    <3>1. DOMAIN master.ready = 1..Len(master.ready)
      BY <2>1, Fields DEF MasterOK
    <3> QED
      BY <2>2, <3>1 DEF ReadOnce, Once
  <2>5. status[c] = "Open" => (c \in master.read) # On(master, Read(c))
    <3>1. CASE c \in master.read
      BY <2>1, <2>3, <3>1 DEF ConnOK
    <3>2. CASE c \notin master.read
      BY <2>1, <2>3, <3>2 DEF ConnOK
    <3> QED
      BY <3>1, <3>2
  <2>6. status[c] = "Gone" => c \notin master.read /\ ~On(master, Read(c))
    BY <2>1 DEF ConnOK
  <2> QED
    BY <2>4, <2>5, <2>6
<1>2. IInv => Listening
  BY <1>1 DEF Listening
<1> QED
  BY <1>2, Invariance, PTL

\* Bgp::recv keeps bytes and messages in step: while neither end has closed, the
\* bytes that have been counted or are on their way are those of the messages in the
\* list, and a message whose bytes are all there is never left in it.
THEOREM BytesMatchMessages == Spec => []BytesMatch
<1>1. ASSUME IInv, NEW c \in Conn
      PROVE  /\ status[c] # "Gone" /\ link[c] = "open" =>
                  first[c] + wire[c] = Bytes(m_msgs[c], Len(m_msgs[c]))
             /\ m_msgs[c] # << >> => first[c] < Head(m_msgs[c]).size
  BY <1>1, TransportAt DEF TransportOK
<1>2. IInv => BytesMatch
  BY <1>1 DEF BytesMatch
<1> QED
  BY <1>2, Invariance, PTL

\* The wait that stands for select() never oversleeps: the simulator timer of the
\* router expires before any of its own timers is overdue, and while the router
\* waits no thread, event or interrupt is left behind.
THEOREM WaitsNoLonger == Spec => []WakesInTime
<1>1. IInv => WakesInTime
  BY DEF IInv, Sched, WaitOK, WakesInTime
<1> QED
  BY <1>1, Invariance, PTL

\* Interrupts, threads and bytes together implement a FIFO channel for each
\* connection: whatever the interleaving of bytes, timers, commands and closes, no
\* message of an open session is lost, read twice, out of order or by another peer.
THEOREM ImplementsChannel == Spec => IsChannel
<1>1. Init => \A c \in Conn : C(c)!Init
  BY InitStep
<1>2. IInv /\ [Next]_vars => \A c \in Conn : UNCHANGED <<Unread(c), got[c]>> \/ C(c)!Next
  <2>1. IInv /\ [Next]_vars => \A c \in Conn : StepOK(c)
    BY NextStep
  <2> QED
    BY <2>1 DEF StepOK
<1> QED
  BY <1>1, <1>2, Invariance, PTL DEF Spec, IsChannel
=============================================================================
