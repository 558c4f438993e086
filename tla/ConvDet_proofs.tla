--------------------------- MODULE ConvDet_proofs ---------------------------
(***************************************************************************)
(* Proofs about ConvDet, for any number of routers, any topology and any   *)
(* bounds.  AccountedFor, NeverNegative and LeftOverIsMarked are inductive *)
(* together with TypeOK; ExactWithoutMrai also needs that nothing is ever  *)
(* held back or marked when MRAI is off (Unsuppressed).  The first part is *)
(* about Total, the second about the books that are kept of messages.      *)
(***************************************************************************)
EXTENDS ConvDet, FiniteSetTheorems, TLAPS

\* With MRAI off no interval ever runs, so nothing is held back or marked, and
\* the entry lives exactly as long as a message is counted.
Unsuppressed ==
  mrai_type = "off" =>
    /\ \A r, n \in Router : ~session[r][n].window /\ ~session[r][n].held
    /\ \A r \in Router : ~mrai_map[r]
    /\ prefix_map <=> network_queue # Zero

IInv ==
  /\ TypeOK
  /\ AccountedFor
  /\ NeverNegative
  /\ LeftOverIsMarked
  /\ Unsuppressed

-----------------------------------------------------------------------------
\* the messages that Total counts, of the senders in S
Cells(from, S) == UNION {{n} \X (1..from[n]) : n \in S}

\* A router has finitely many messages.
LEMMA CellsFinite ==
  ASSUME NEW from \in [Router -> Nat], NEW S \in SUBSET Router
  PROVE  IsFiniteSet(Cells(from, S))
<1> DEFINE T == {{n} \X (1..from[n]) : n \in S}
           g == [n \in S |-> {n} \X (1..from[n])]
<1>1. IsFiniteSet(S)
  BY RouterAssumption, FS_Subset
<1>2. g \in Surjection(S, T)
  BY DEF Surjection
<1>3. IsFiniteSet(T)
  BY <1>1, <1>2, FS_Surjection
<1>4. \A n \in S : IsFiniteSet({n} \X (1..from[n]))
  <2> TAKE n \in S
  <2>1. from[n] \in Int
    OBVIOUS
  <2>2. IsFiniteSet(1..from[n])
    BY <2>1, FS_Interval
  <2> QED
    BY <2>2, FS_Singleton, FS_Product
<1>5. \A C \in T : IsFiniteSet(C)
  BY <1>4
<1> HIDE DEF T
<1>6. IsFiniteSet(UNION T)
  BY <1>3, <1>5, FS_UNION
<1> QED
  BY <1>6 DEF Cells, T

\* The total is what one sender has sent and what the others have.
LEMMA TotalSplit ==
  ASSUME NEW from \in [Router -> Nat], NEW m \in Router
  PROVE  /\ Total(from) = Cardinality(Cells(from, Router \ {m})) + from[m]
         /\ Cardinality(Cells(from, Router \ {m})) \in Nat
<1> DEFINE A == Cells(from, Router \ {m})
           B == {m} \X (1..from[m])
<1>1. Cells(from, Router) = A \cup B
  BY DEF Cells
<1>2. A \cap B = {}
  BY DEF Cells
<1>3. IsFiniteSet(B) /\ Cardinality(B) = from[m]
  <2>1. from[m] \in Nat
    OBVIOUS
  <2>2. IsFiniteSet(1..from[m]) /\ Cardinality(1..from[m]) = from[m]
    <3>1. IsFiniteSet(1..from[m]) /\ Cardinality(1..from[m]) = IF 1 > from[m] THEN 0 ELSE from[m] - 1 + 1
      BY <2>1, 1 \in Int, from[m] \in Int, FS_Interval
    <3> QED
      BY <2>1, <3>1
  <2>3. IsFiniteSet(B) /\ Cardinality(B) = Cardinality({m}) * Cardinality(1..from[m])
    BY <2>2, FS_Singleton, FS_Product
  <2>4. Cardinality({m}) = 1
    BY FS_Singleton
  <2> QED
    BY <2>1, <2>2, <2>3, <2>4
<1>4. IsFiniteSet(A) /\ Cardinality(A) \in Nat
  BY CellsFinite, FS_CardinalityType
<1>5. Cardinality(A \cup B) = Cardinality(A) + Cardinality(B) - Cardinality(A \cap B)
  BY <1>3, <1>4, FS_Union
<1>6. Cardinality(A \cap B) = 0
  BY <1>2, FS_EmptySet
<1>7. Total(from) = Cardinality(A \cup B)
  BY <1>1 DEF Total, Cells
<1> HIDE DEF A, B
<1>8. Total(from) = Cardinality(A) + from[m]
  BY <1>3, <1>4, <1>5, <1>6, <1>7
<1> QED
  BY <1>4, <1>8 DEF A

\* One sender more or less, the others as they were.
LEMMA TotalChange ==
  ASSUME NEW from \in [Router -> Nat], NEW to \in [Router -> Nat], NEW m \in Router,
         \A x \in Router \ {m} : to[x] = from[x]
  PROVE  /\ Total(to) = Total(from) - from[m] + to[m]
         /\ Total(from) \in Nat /\ Total(from) >= from[m]
<1>1. Cells(to, Router \ {m}) = Cells(from, Router \ {m})
  BY DEF Cells
<1>2. /\ Total(to) = Cardinality(Cells(to, Router \ {m})) + to[m]
      /\ Total(from) = Cardinality(Cells(from, Router \ {m})) + from[m]
      /\ Cardinality(Cells(from, Router \ {m})) \in Nat
  BY TotalSplit
<1>3. from[m] \in Nat /\ to[m] \in Nat
  OBVIOUS
<1> QED
  BY <1>1, <1>2, <1>3

\* The total is zero if there is nothing from anyone.
LEMMA TotalZero ==
  ASSUME NEW from \in [Router -> Nat]
  PROVE  Total(from) \in Nat /\ (Total(from) = 0 <=> from = Zero)
<1>1. IsFiniteSet(Cells(from, Router))
  BY CellsFinite
<1>2. Total(from) \in Nat
  BY <1>1, FS_CardinalityType DEF Total, Cells
<1>3. CASE from = Zero
  <2>1. Cells(from, Router) = {}
    BY <1>3 DEF Cells, Zero
  <2> QED
    BY <1>2, <1>3, <2>1, FS_EmptySet DEF Total, Cells
<1>4. CASE from # Zero
  <2>1. PICK m \in Router : from[m] # 0
    BY <1>4 DEF Zero
  <2>2. Total(from) >= from[m]
    BY TotalChange
  <2> QED
    BY <1>2, <1>4, <2>1, <2>2
<1> QED
  BY <1>3, <1>4

-----------------------------------------------------------------------------
(* The books: what is counted for a router is what it is going to parse    *)
(* and what is missing.                                                    *)

Booked(queue, messages, missing) ==
  \A x \in Router : queue[x] = Total(messages[x]) + missing[x]

\* The queues indexed by receiver grow by one where a message is sent.
LEMMA PlusType ==
  ASSUME NEW S, S = Nat \/ S = Int, NEW queue \in [Router -> S], NEW to
  PROVE  /\ Plus(queue, to) \in [Router -> S]
         /\ to = {} => Plus(queue, to) = queue
  <1>1. Plus(queue, to) \in [Router -> S]
    BY DEF Plus
  <1>2. to = {} => Plus(queue, to) = queue
    BY DEF Plus
  <1> QED
    BY <1>1, <1>2

\* Nothing is counted for less than there is.
LEMMA BookedNat ==
  ASSUME NEW queue \in [Router -> Int],
         NEW messages \in [Router -> [Router -> Nat]],
         NEW missing \in [Router -> Nat],
         Booked(queue, messages, missing)
  PROVE  /\ \A x \in Router : queue[x] >= missing[x] /\ queue[x] >= 0
         /\ queue = Zero <=> (\A x \in Router : messages[x] = Zero) /\ missing = Zero
  <1>1. \A x \in Router : /\ Total(messages[x]) \in Nat
                          /\ Total(messages[x]) = 0 <=> messages[x] = Zero
    BY TotalZero
  <1>2. \A x \in Router : queue[x] >= missing[x] /\ queue[x] >= 0
    BY <1>1 DEF Booked
  <1>3. ASSUME queue = Zero
        PROVE  (\A x \in Router : messages[x] = Zero) /\ missing = Zero
    <2>1. \A x \in Router : Total(messages[x]) = 0 /\ missing[x] = 0
      BY <1>1, <1>3 DEF Booked, Zero
    <2> QED
      BY <1>1, <2>1 DEF Zero
  <1>4. ASSUME \A x \in Router : messages[x] = Zero, missing = Zero
        PROVE  queue = Zero
    <2>1. \A x \in Router : queue[x] = 0
      BY <1>1, <1>4 DEF Booked, Zero
    <2> QED
      BY <2>1 DEF Zero
  <1> QED
    BY <1>2, <1>3, <1>4

\* A message that is sent is booked as on its way or as missing.
LEMMA SentBooked ==
  ASSUME NEW queue \in [Router -> Int],
         NEW messages \in [Router -> [Router -> Nat]],
         NEW missing \in [Router -> Nat],
         Booked(queue, messages, missing),
         NEW r \in Router, NEW to \in SUBSET Router, NEW part \in SUBSET to
  PROVE  /\ Plus(queue, to) \in [Router -> Int]
         /\ Sent(messages, r, part) \in [Router -> [Router -> Nat]]
         /\ Plus(missing, to \ Arrives(r, part)) \in [Router -> Nat]
         /\ Booked(Plus(queue, to), Sent(messages, r, part),
                   Plus(missing, to \ Arrives(r, part)))
  <1> DEFINE A == Arrives(r, part)
             more(x) == [messages[x] EXCEPT ![r] = @ + 1]
             sent == Sent(messages, r, part)
             absent == Plus(missing, to \ A)
  <1>1. Plus(queue, to) \in [Router -> Int] /\ absent \in [Router -> Nat]
    BY PlusType
  <1>2. A \subseteq part
    BY DEF Arrives
  <1>3. \A x \in Router :
          sent[x] = IF x \in A THEN more(x) ELSE messages[x]
    BY DEF Sent
  <1>4. \A x \in Router :
          /\ messages[x] \in [Router -> Nat] /\ messages[x][r] \in Nat
          /\ more(x) \in [Router -> Nat] /\ more(x)[r] = messages[x][r] + 1
          /\ \A y \in Router \ {r} : more(x)[y] = messages[x][y]
    OBVIOUS
  <1> HIDE DEF more
  <1>5. \A x \in Router : /\ Total(more(x)) = Total(messages[x]) + 1
                          /\ Total(messages[x]) \in Nat
    <2> TAKE x \in Router
    <2>1. /\ Total(more(x)) = Total(messages[x]) - messages[x][r] + more(x)[r]
          /\ Total(messages[x]) \in Nat
      BY <1>4, TotalChange
    <2> QED
      BY <1>4, <2>1
  <1>6. sent \in [Router -> [Router -> Nat]]
    <2>1. sent = [x \in Router |-> sent[x]]
      BY DEF Sent
    <2>2. \A x \in Router : sent[x] \in [Router -> Nat]
      <3> HIDE DEF sent, A
      <3> QED
        BY <1>3, <1>4
    <2> HIDE DEF sent
    <2> QED
      BY <2>1, <2>2
  <1>7. \A x \in Router : Total(sent[x]) = Total(messages[x]) + (IF x \in A THEN 1 ELSE 0)
    <2> TAKE x \in Router
    <2> HIDE DEF sent, A
    <2>1. CASE x \in A
      BY <1>3, <1>5, <2>1
    <2>2. CASE x \notin A
      <3>1. sent[x] = messages[x]
        BY <1>3, <2>2
      <3>2. Total(messages[x]) \in Nat
        BY <1>5
      <3> QED
        BY <2>2, <3>1, <3>2
    <2> QED
      BY <2>1, <2>2
  <1>8. \A x \in Router :
          /\ Plus(queue, to)[x] = queue[x] + (IF x \in to THEN 1 ELSE 0)
          /\ absent[x] = missing[x] + (IF x \in to /\ x \notin A THEN 1 ELSE 0)
    BY DEF Plus
  <1> HIDE DEF sent, absent, A
  <1>9. Booked(Plus(queue, to), sent, absent)
    <2> SUFFICES ASSUME NEW x \in Router
                 PROVE  Plus(queue, to)[x] = Total(sent[x]) + absent[x]
      BY DEF Booked
    <2>1. queue[x] = Total(messages[x]) + missing[x]
      BY DEF Booked
    <2>2. /\ Plus(queue, to)[x] = queue[x] + (IF x \in to THEN 1 ELSE 0)
          /\ absent[x] = missing[x] + (IF x \in to /\ x \notin A THEN 1 ELSE 0)
          /\ Total(sent[x]) = Total(messages[x]) + (IF x \in A THEN 1 ELSE 0)
          /\ x \in A => x \in to
      BY <1>2, <1>7, <1>8
    <2>3. Total(messages[x]) \in Nat /\ missing[x] \in Nat
      BY <1>5
    <2> QED
      BY <2>1, <2>2, <2>3
  <1> QED
    BY <1>1, <1>6, <1>9 DEF sent, absent, A

\* A message that is taken in is no longer on its way nor counted.
LEMMA TakenBooked ==
  ASSUME NEW queue \in [Router -> Int],
         NEW messages \in [Router -> [Router -> Nat]],
         NEW missing \in [Router -> Nat],
         Booked(queue, messages, missing),
         NEW r \in Router, NEW n \in Router, messages[r][n] > 0
  PROVE  /\ [queue EXCEPT ![r] = @ - 1] \in [Router -> Int]
         /\ [messages EXCEPT ![r][n] = @ - 1] \in [Router -> [Router -> Nat]]
         /\ Booked([queue EXCEPT ![r] = @ - 1], [messages EXCEPT ![r][n] = @ - 1], missing)
  <1> DEFINE k == messages[r][n] - 1
             less == [messages[r] EXCEPT ![n] = k]
  <1>1. k \in Nat /\ messages[r][n] \in Nat /\ messages[r] \in [Router -> Nat]
    OBVIOUS
  <1>2. /\ less \in [Router -> Nat]
        /\ Total(less) = Total(messages[r]) - messages[r][n] + k
        /\ Total(messages[r]) \in Nat
    <2>1. /\ less \in [Router -> Nat] /\ less[n] = k
          /\ \A y \in Router \ {n} : less[y] = messages[r][y]
      BY <1>1
    <2> HIDE DEF less
    <2> QED
      BY <1>1, <2>1, TotalChange
  <1>3. [messages EXCEPT ![r][n] = @ - 1] = [messages EXCEPT ![r] = less]
    OBVIOUS
  <1> HIDE DEF less
  <1>4. [messages EXCEPT ![r] = less] \in [Router -> [Router -> Nat]]
    BY <1>2
  <1>5. ASSUME NEW x \in Router
        PROVE  [queue EXCEPT ![r] = @ - 1][x]
                 = Total([messages EXCEPT ![r] = less][x]) + missing[x]
    <2>1. queue[x] = Total(messages[x]) + missing[x]
      BY DEF Booked
    <2>2. CASE x = r
      <3>1. [queue EXCEPT ![r] = @ - 1][x] = queue[r] - 1
        BY <2>2
      <3>2. [messages EXCEPT ![r] = less][x] = less
        BY <2>2
      <3>3. Total(less) = Total(messages[r]) - 1
        BY <1>1, <1>2
      <3>4. queue[r] \in Int /\ missing[r] \in Nat
        OBVIOUS
      <3> QED
        BY <1>2, <2>1, <2>2, <3>1, <3>2, <3>3, <3>4
    <2>3. CASE x # r
      BY <2>1, <2>3
    <2> QED
      BY <2>2, <2>3
  <1> QED
    BY <1>3, <1>4, <1>5 DEF Booked

\* The entry is there as soon as something is counted.
LEMMA EntryKept ==
  ASSUME TypeOK, AccountedFor, NEW to \in SUBSET Router,
         network_queue' = Plus(network_queue, to),
         prefix_map' = (prefix_map \/ to # {})
  PROVE  /\ prefix_map' \in BOOLEAN
         /\ ~prefix_map' => network_queue' = Zero
         /\ (prefix_map <=> network_queue # Zero) => (prefix_map' <=> network_queue' # Zero)
  <1>1. network_queue \in [Router -> Int] /\ prefix_map \in BOOLEAN
    BY DEF TypeOK
  <1>2. \A x \in Router : network_queue[x] >= 0
    BY BookedNat DEF TypeOK, AccountedFor, Booked
  <1>3. CASE to = {}
    <2>1. network_queue' = network_queue /\ prefix_map' = prefix_map
      BY <1>1, <1>3, PlusType
    <2> QED
      BY <1>1, <2>1 DEF AccountedFor
  <1>4. CASE to # {}
    <2>1. PICK n \in to : TRUE
      BY <1>4
    <2>2. network_queue'[n] = network_queue[n] + 1 /\ Zero[n] = 0
      BY <2>1 DEF Plus, Zero
    <2>3. network_queue[n] + 1 # 0
      BY <1>1, <1>2, <2>1
    <2> QED
      BY <1>4, <2>2, <2>3
  <1> QED
    BY <1>3, <1>4

-----------------------------------------------------------------------------
\* What one session becomes when its router has decided.
LEMMA ToldType ==
  ASSUME mrai_type \in Mode, NEW s \in SessionType, NEW announce \in BOOLEAN
  PROVE  /\ Told(s, announce) \in SessionType
         /\ mrai_type = "off" /\ ~s.window /\ ~s.held
              => ~Told(s, announce).window /\ ~Told(s, announce).held
  BY DEF Told, Sends, Suppresses, SessionType

\* What the sessions and the mark of a router become when it decides.
LEMMA OutcomeType ==
  ASSUME TypeOK,
         NEW r \in Router,
         NEW s \in [Router -> SessionType],
         NEW advertise \in [Adjacent[r] -> BOOLEAN]
  PROVE  /\ Outcome(r, s, advertise) \in [Router -> SessionType]
         /\ Marked(r, s, advertise) \in BOOLEAN
         /\ mrai_map[r] => Marked(r, s, advertise)
         /\ mrai_type = "off" /\ (\A n \in Router : ~s[n].window /\ ~s[n].held) =>
              /\ \A n \in Router : /\ ~Outcome(r, s, advertise)[n].window
                                   /\ ~Outcome(r, s, advertise)[n].held
              /\ Marked(r, s, advertise) => mrai_map[r]
  <1>1. Adjacent[r] \subseteq Router
    BY AdjacentAssumption
  <1>2. mrai_map[r] \in BOOLEAN
    BY DEF TypeOK
  <1>3. Outcome(r, s, advertise) \in [Router -> SessionType]
    BY <1>1, ToldType DEF TypeOK, Outcome
  <1>4. Marked(r, s, advertise) \in BOOLEAN /\ (mrai_map[r] => Marked(r, s, advertise))
    BY <1>2 DEF Marked
  <1>5. ASSUME mrai_type = "off", \A n \in Router : ~s[n].window /\ ~s[n].held
        PROVE  /\ \A n \in Router : /\ ~Outcome(r, s, advertise)[n].window
                                    /\ ~Outcome(r, s, advertise)[n].held
               /\ Marked(r, s, advertise) => mrai_map[r]
    BY <1>1, <1>5, ToldType DEF TypeOK, Suppresses, Outcome, Marked
  <1> QED
    BY <1>3, <1>4, <1>5

\* What a decision does to the sessions and to the marks.
LEMMA DecideEffect ==
  ASSUME TypeOK,
         NEW r \in Router,
         NEW s \in [Router -> SessionType],
         NEW advertise \in [Adjacent[r] -> BOOLEAN],
         Decide(r, s, advertise),
         UNCHANGED mrai_type
  PROVE  /\ session' \in [Router -> [Router -> SessionType]]
         /\ mrai_map' \in [Router -> BOOLEAN]
         /\ \A x \in Router : mrai_map[x] => mrai_map'[x]
         /\ /\ mrai_type = "off"
            /\ \A n \in Router : ~s[n].window /\ ~s[n].held
            /\ \A x, n \in Router : ~session[x][n].window /\ ~session[x][n].held
            /\ \A x \in Router : ~mrai_map[x]
            => /\ \A x, n \in Router : ~session'[x][n].window /\ ~session'[x][n].held
               /\ \A x \in Router : ~mrai_map'[x]
  <1> DEFINE f == Outcome(r, s, advertise)
             b == Marked(r, s, advertise)
  <1>2. session' = [session EXCEPT ![r] = f] /\ mrai_map' = [mrai_map EXCEPT ![r] = b]
    BY DEF Decide
  <1>3. f \in [Router -> SessionType] /\ b \in BOOLEAN /\ (mrai_map[r] => b)
    BY OutcomeType
  <1>4. ASSUME mrai_type = "off", \A n \in Router : ~s[n].window /\ ~s[n].held
        PROVE  (b => mrai_map[r]) /\ \A n \in Router : ~f[n].window /\ ~f[n].held
    BY <1>4, OutcomeType
  <1> HIDE DEF f, b
  <1>5. session' \in [Router -> [Router -> SessionType]]
    BY <1>2, <1>3 DEF TypeOK
  <1>7. mrai_map' \in [Router -> BOOLEAN] /\ \A x \in Router : mrai_map[x] => mrai_map'[x]
    BY <1>2, <1>3, Zenon DEF TypeOK
  <1>8. ASSUME mrai_type = "off",
               \A n \in Router : ~s[n].window /\ ~s[n].held,
               \A x, n \in Router : ~session[x][n].window /\ ~session[x][n].held,
               \A x \in Router : ~mrai_map[x]
        PROVE  /\ \A x, n \in Router : ~session'[x][n].window /\ ~session'[x][n].held
               /\ \A x \in Router : ~mrai_map'[x]
    <2>1. ~b /\ \A n \in Router : ~f[n].window /\ ~f[n].held
      BY <1>3, <1>4, <1>8
    <2>2. \A x \in Router : session'[x] = IF x = r THEN f ELSE session[x]
      BY <1>2 DEF TypeOK
    <2>3. \A x, n \in Router : ~session'[x][n].window /\ ~session'[x][n].held
      BY <1>8, <2>1, <2>2
    <2>4. \A x \in Router : ~mrai_map'[x]
      BY <1>2, <1>8, <2>1 DEF TypeOK
    <2> QED
      BY <2>3, <2>4
  <1> QED
    BY <1>5, <1>7, <1>8

-----------------------------------------------------------------------------
\* What a router sends outside of nlri_parse is counted.
LEMMA SendToInv ==
  ASSUME TypeOK, AccountedFor, NEW r \in Router, NEW to \in SUBSET Router, SendTo(r, to)
  PROVE  /\ inbox' \in [Router -> [Router -> Nat]]
         /\ lost' \in [Router -> Nat]
         /\ network_queue' \in [Router -> Int]
         /\ prefix_map' \in BOOLEAN
         /\ UNCHANGED <<mrai_type, process_queue>>
         /\ AccountedFor'
         /\ (prefix_map <=> network_queue # Zero) => (prefix_map' <=> network_queue' # Zero)
  <1>1. /\ inbox' = Sent(inbox, r, to) /\ lost' = Plus(lost, to \ Arrives(r, to))
        /\ network_queue' = Plus(network_queue, to)
        /\ prefix_map' = (prefix_map \/ to # {})
        /\ UNCHANGED <<mrai_type, process_queue>>
    BY DEF SendTo
  <1>2. Booked(network_queue, inbox, lost)
    BY DEF AccountedFor, Booked
  <1>3. /\ Plus(network_queue, to) \in [Router -> Int]
        /\ Sent(inbox, r, to) \in [Router -> [Router -> Nat]]
        /\ Plus(lost, to \ Arrives(r, to)) \in [Router -> Nat]
        /\ Booked(Plus(network_queue, to), Sent(inbox, r, to),
                  Plus(lost, to \ Arrives(r, to)))
    BY <1>2, SentBooked DEF TypeOK
  <1>4. /\ prefix_map' \in BOOLEAN /\ (~prefix_map' => network_queue' = Zero)
        /\ (prefix_map <=> network_queue # Zero) => (prefix_map' <=> network_queue' # Zero)
    BY <1>1, EntryKept
  <1>5. AccountedFor'
    BY <1>1, <1>3, <1>4 DEF AccountedFor, Booked
  <1> QED
    BY <1>1, <1>3, <1>4, <1>5

\* Parsing a message keeps the books, whatever is decided on the way.
LEMMA ParseInv ==
  ASSUME TypeOK, AccountedFor, NeverNegative, LeftOverIsMarked,
         mrai_map' \in [Router -> BOOLEAN],
         \A x \in Router : mrai_map[x] => mrai_map'[x],
         NEW r \in Router, NEW n \in Router,
         NEW to \in SUBSET Router,
         Parse(r, n, to)
  PROVE  /\ inbox' \in [Router -> [Router -> Nat]]
         /\ lost' \in [Router -> Nat]
         /\ network_queue' \in [Router -> Int]
         /\ process_queue' \in [Router -> Int]
         /\ prefix_map' \in BOOLEAN
         /\ UNCHANGED mrai_type
         /\ AccountedFor' /\ NeverNegative' /\ LeftOverIsMarked'
         /\ mrai_type = "off" /\ (\A x \in Router : ~mrai_map'[x])
              => (prefix_map' <=> network_queue' # Zero)
  <1> DEFINE nq == Plus([network_queue EXCEPT ![r] = @ - 1], to)
             ib == Sent([inbox EXCEPT ![r][n] = @ - 1], r, to)
             ls == Plus(lost, to \ Arrives(r, to))
             begun == [process_queue EXCEPT ![r] = @ + 1]
             done == [begun EXCEPT ![r] = @ - 1]
  <1>1. /\ inbox[r][n] > 0 /\ prefix_map
        /\ inbox' = ib /\ lost' = ls
        /\ \/ /\ mrai_map'[r]
              /\ process_queue' = begun /\ network_queue' = nq
              /\ UNCHANGED prefix_map
           \/ /\ ~mrai_map'[r] /\ done[r] # 0
              /\ process_queue' = done /\ network_queue' = nq
              /\ UNCHANGED prefix_map
           \/ /\ ~mrai_map'[r] /\ done[r] = 0
              /\ CheckConvergence(nq, done)
        /\ UNCHANGED mrai_type
    BY DEF Parse, Exchange
  <1>2. Booked(nq, ib, ls) /\ ib \in [Router -> [Router -> Nat]]
        /\ nq \in [Router -> Int] /\ ls \in [Router -> Nat]
    <2> DEFINE q == [network_queue EXCEPT ![r] = @ - 1]
               m == [inbox EXCEPT ![r][n] = @ - 1]
    <2>1. Booked(network_queue, inbox, lost)
      BY DEF AccountedFor, Booked
    <2>2. /\ network_queue \in [Router -> Int] /\ inbox \in [Router -> [Router -> Nat]]
          /\ lost \in [Router -> Nat]
      BY DEF TypeOK
    <2>3. /\ q \in [Router -> Int] /\ m \in [Router -> [Router -> Nat]]
          /\ Booked(q, m, lost)
      BY <1>1, <2>1, <2>2, TakenBooked
    <2> HIDE DEF q, m
    <2>4. /\ Plus(q, to) \in [Router -> Int] /\ Sent(m, r, to) \in [Router -> [Router -> Nat]]
          /\ ls \in [Router -> Nat]
          /\ Booked(Plus(q, to), Sent(m, r, to), ls)
      BY <2>2, <2>3, SentBooked
    <2> QED
      BY <2>4 DEF q, m
  <1>4. begun \in [Router -> Int] /\ done = process_queue
    <2>1. process_queue \in [Router -> Int]
      BY DEF TypeOK
    <2>2. begun \in [Router -> Int] /\ done \in [Router -> Int]
      BY <2>1
    <2>3. \A x \in Router : done[x] = process_queue[x]
      BY <2>1
    <2> HIDE DEF done
    <2>4. done = process_queue
      BY <2>1, <2>2, <2>3
    <2> QED
      BY <2>2, <2>4
  <1>5. \A x \in Router : begun[x] = IF x = r THEN process_queue[x] + 1
                                              ELSE process_queue[x]
    BY DEF TypeOK
  <1> HIDE DEF nq, ib, ls, begun, done
  <1>6. ASSUME mrai_type # "peer"
        PROVE  \A x \in Router : /\ process_queue[x] >= 0
                                 /\ process_queue[x] > 0 => mrai_map'[x]
    BY <1>6 DEF NeverNegative, LeftOverIsMarked
  <1>7. CASE /\ mrai_map'[r]
             /\ process_queue' = begun /\ network_queue' = nq
             /\ UNCHANGED prefix_map
    <2>1. AccountedFor'
      BY <1>1, <1>2, <1>7 DEF AccountedFor, Booked
    <2>2. NeverNegative' /\ LeftOverIsMarked'
      <3>1. mrai_type' = mrai_type
        BY <1>1
      <3>2. ASSUME mrai_type # "peer", NEW x \in Router
            PROVE  /\ process_queue'[x] >= 0
                   /\ process_queue'[x] > 0 => mrai_map'[x]
        <4>1. process_queue[x] \in Int
          BY DEF TypeOK
        <4>2. process_queue[x] >= 0 /\ (process_queue[x] > 0 => mrai_map'[x])
          BY <1>6, <3>2
        <4>3. process_queue'[x] = IF x = r THEN process_queue[x] + 1
                                           ELSE process_queue[x]
          BY <1>5, <1>7
        <4> QED
          BY <1>7, <4>1, <4>2, <4>3
      <3> QED
        BY <3>1, <3>2 DEF NeverNegative, LeftOverIsMarked
    <2> QED
      BY <1>1, <1>2, <1>4, <1>7, <2>1, <2>2 DEF TypeOK
  <1>8. CASE /\ ~mrai_map'[r] /\ done[r] # 0
             /\ process_queue' = done /\ network_queue' = nq
             /\ UNCHANGED prefix_map
    <2>1. AccountedFor'
      BY <1>1, <1>2, <1>8 DEF AccountedFor, Booked
    <2>2. mrai_type = "peer"
      BY <1>4, <1>6, <1>8 DEF TypeOK
    <2> QED
      <3>1. mrai_type' # "off" /\ mrai_type' = mrai_type
        BY <1>1, <2>2
      <3> QED
        BY <1>1, <1>2, <1>4, <1>8, <2>1, <2>2, <3>1
           DEF TypeOK, NeverNegative, LeftOverIsMarked
  <1>9. CASE ~mrai_map'[r] /\ done[r] = 0 /\ CheckConvergence(nq, done)
    <2>1. CASE \A x \in Router : nq[x] = 0 /\ done[x] = 0
      <3>1. prefix_map' = FALSE /\ network_queue' = Zero /\ process_queue' = Zero
        BY <1>9, <2>1 DEF CheckConvergence
      <3>2. nq = Zero
        BY <1>2, <2>1 DEF Zero
      <3>3. Zero \in [Router -> Nat] /\ Zero \in [Router -> Int] /\ \A x \in Router : Zero[x] = 0
        BY DEF Zero
      <3>4. AccountedFor'
        BY <1>1, <1>2, <3>1, <3>2 DEF AccountedFor, Booked
      <3>5. NeverNegative' /\ LeftOverIsMarked'
        BY <3>1, <3>3 DEF NeverNegative, LeftOverIsMarked
      <3> QED
        BY <1>1, <1>2, <3>1, <3>3, <3>4, <3>5
    <2>2. CASE ~\A x \in Router : nq[x] = 0 /\ done[x] = 0
      <3>1. prefix_map' = TRUE /\ network_queue' = nq /\ process_queue' = done
        BY <1>9, <2>2 DEF CheckConvergence
      <3>2. AccountedFor'
        BY <1>1, <1>2, <3>1 DEF AccountedFor, Booked
      <3>3. NeverNegative' /\ LeftOverIsMarked'
        BY <1>1, <1>4, <1>6, <3>1 DEF NeverNegative, LeftOverIsMarked
      <3>4. ASSUME mrai_type = "off", \A x \in Router : ~mrai_map'[x]
            PROVE  network_queue' # Zero
        <4>1. \A x \in Router : process_queue[x] = 0
          BY <1>6, <3>4 DEF TypeOK
        <4>2. PICK x \in Router : nq[x] # 0
          BY <1>4, <2>2, <4>1
        <4>3. network_queue'[x] # 0 /\ Zero[x] = 0
          BY <3>1, <4>2 DEF Zero
        <4> QED
          BY <4>3
      <3> QED
        BY <1>1, <1>2, <1>4, <3>1, <3>2, <3>3, <3>4 DEF TypeOK
    <2> QED
      BY <2>1, <2>2
  <1> QED
    BY <1>1, <1>7, <1>8, <1>9

-----------------------------------------------------------------------------
\* Nothing has been sent or held back at the start.
LEMMA InitInv == Init => IInv
  <1> SUFFICES ASSUME Init PROVE IInv
    OBVIOUS
  <1>1. Zero \in [Router -> Nat] /\ Zero \in [Router -> Int]
        /\ \A r \in Router : Zero[r] = 0
    BY DEF Zero
  <1>2. session \in [Router -> [Router -> SessionType]]
    BY DEF Init, Fresh, SessionType
  <1>3. TypeOK
    <2>1. mrai_map \in [Router -> BOOLEAN]
      BY Zenon DEF Init
    <2>2. budget \in [changes : Nat, commands : Nat, stops : Nat]
      BY BudgetAssumption DEF Init
    <2> QED
      BY <1>1, <1>2, <2>1, <2>2 DEF Init, TypeOK
  <1>4. AccountedFor
    <2>1. Total(Zero) = 0
      BY <1>1, TotalZero
    <2> QED
      BY <1>1, <2>1 DEF Init, AccountedFor
  <1>5. NeverNegative /\ LeftOverIsMarked
    BY <1>1 DEF Init, NeverNegative, LeftOverIsMarked
  <1>6. Unsuppressed
    <2>1. \A r, n \in Router : ~session[r][n].window /\ ~session[r][n].held
      BY DEF Init, Fresh
    <2>2. \A r \in Router : ~mrai_map[r]
      BY DEF Init
    <2> QED
      BY <2>1, <2>2 DEF Unsuppressed, Init
  <1> QED
    BY <1>3, <1>4, <1>5, <1>6 DEF IInv

\* The sessions to which a decision sends are sessions of the router.
LEMMA MessagesType ==
  ASSUME NEW r \in Router, NEW s, NEW advertise \in [Adjacent[r] -> BOOLEAN]
  PROVE  Messages(s, advertise) \in SUBSET Router
  BY AdjacentAssumption DEF Messages

\* A step outside of nlri_parse leaves process_queue alone and clears no mark.
LEMMA LeftOverKept ==
  ASSUME NeverNegative, LeftOverIsMarked, UNCHANGED <<mrai_type, process_queue>>,
         \A x \in Router : mrai_map[x] => mrai_map'[x]
  PROVE  NeverNegative' /\ LeftOverIsMarked'
  BY DEF NeverNegative, LeftOverIsMarked

\* What is left of the bounds is a number.
LEMMA SpendType ==
  ASSUME TypeOK, NEW n \in {0, 1}, Spend(n)
  PROVE  budget' \in [changes : Nat, commands : Nat, stops : Nat]
  <1>1. budget \in [changes : Nat, commands : Nat, stops : Nat]
    BY DEF TypeOK
  <1>2. budget.changes - 1 \in Nat /\ budget.commands - n \in Nat
    BY <1>1 DEF Spend
  <1>3. budget' = [budget EXCEPT !.changes = budget.changes - 1,
                                 !.commands = budget.commands - n]
    BY DEF Spend
  <1> QED
    BY <1>1, <1>2, <1>3

\* A decision taken outside of nlri_parse.
LEMMA DecideSendInv ==
  ASSUME IInv,
         NEW r \in Router,
         NEW s \in [Router -> SessionType],
         NEW advertise \in [Adjacent[r] -> BOOLEAN],
         Decide(r, s, advertise),
         SendTo(r, Messages(s, advertise)),
         budget' \in [changes : Nat, commands : Nat, stops : Nat],
         mrai_type = "off" => \A n \in Router : ~s[n].window /\ ~s[n].held
  PROVE  IInv'
  <1>1. TypeOK /\ AccountedFor /\ NeverNegative /\ LeftOverIsMarked /\ Unsuppressed
    BY DEF IInv
  <1>2. Messages(s, advertise) \in SUBSET Router
    BY MessagesType
  <1>3. UNCHANGED <<mrai_type, process_queue>>
    BY DEF SendTo
  <1>4. /\ session' \in [Router -> [Router -> SessionType]]
        /\ mrai_map' \in [Router -> BOOLEAN]
        /\ \A x \in Router : mrai_map[x] => mrai_map'[x]
    BY <1>1, <1>3, DecideEffect
  <1>5. mrai_type = "off" =>
          /\ \A x, n \in Router : ~session'[x][n].window /\ ~session'[x][n].held
          /\ \A x \in Router : ~mrai_map'[x]
    BY <1>1, <1>3, DecideEffect DEF Unsuppressed
  <1>6. /\ inbox' \in [Router -> [Router -> Nat]] /\ lost' \in [Router -> Nat]
        /\ network_queue' \in [Router -> Int]
        /\ prefix_map' \in BOOLEAN
        /\ AccountedFor'
        /\ (prefix_map <=> network_queue # Zero) => (prefix_map' <=> network_queue' # Zero)
    BY <1>1, <1>2, SendToInv
  <1>7. TypeOK'
    BY <1>1, <1>3, <1>4, <1>6 DEF TypeOK
  <1>8. NeverNegative' /\ LeftOverIsMarked'
    BY <1>1, <1>3, <1>4, LeftOverKept
  <1>9. Unsuppressed'
    BY <1>1, <1>3, <1>5, <1>6 DEF Unsuppressed
  <1> QED
    BY <1>6, <1>7, <1>8, <1>9 DEF IInv

\* A command that makes a router decide.
LEMMA CommandInv ==
  ASSUME IInv, NEW r \in Router, NEW advertise \in [Adjacent[r] -> BOOLEAN],
         Command(r, advertise)
  PROVE  IInv'
  <1>1. Decide(r, session[r], advertise) /\ SendTo(r, Messages(session[r], advertise))
    BY DEF Command
  <1>2. budget' \in [changes : Nat, commands : Nat, stops : Nat]
    BY SpendType DEF Command, IInv
  <1>3. session[r] \in [Router -> SessionType]
    BY DEF IInv, TypeOK
  <1>4. mrai_type = "off" => \A n \in Router : ~session[r][n].window /\ ~session[r][n].held
    BY DEF IInv, Unsuppressed
  <1> QED
    BY <1>1, <1>2, <1>3, <1>4, DecideSendInv

\* A network that is configured.
LEMMA NetworkCommandInv ==
  ASSUME IInv, NEW r \in Router, NEW advertise \in [Adjacent[r] -> BOOLEAN],
         NetworkCommand(r, advertise)
  PROVE  IInv'
  <1>1. budget' \in [changes : Nat, commands : Nat, stops : Nat]
    BY SpendType DEF NetworkCommand, IInv
  <1>2. session \in [Router -> [Router -> SessionType]]
    BY DEF IInv, TypeOK
  <1>3. Cancelled(r) \in [Router -> SessionType]
    <2>1. session[r] \in [Router -> SessionType]
      BY <1>2
    <2>2. \A n \in Router :
            [session[r][n] EXCEPT !.held = FALSE, !.window = FALSE] \in SessionType
      BY <2>1 DEF SessionType
    <2> QED
      BY <2>1, <2>2 DEF Cancelled
  <1>4. mrai_type = "off" => \A n \in Router : ~Cancelled(r)[n].window /\ ~Cancelled(r)[n].held
    BY DEF IInv, Unsuppressed, Cancelled
  <1>5. CASE /\ Decide(r, Cancelled(r), advertise)
             /\ SendTo(r, Messages(Cancelled(r), advertise))
    BY <1>1, <1>3, <1>4, <1>5, DecideSendInv
  <1>6. CASE /\ session' = [session EXCEPT ![r] = Cancelled(r)]
             /\ UNCHANGED mrai_map
             /\ SendTo(r, {})
    <2>1. TypeOK /\ AccountedFor /\ NeverNegative /\ LeftOverIsMarked /\ Unsuppressed
      BY DEF IInv
    <2>2. UNCHANGED <<mrai_type, process_queue>>
      BY <1>6 DEF SendTo
    <2>3. /\ inbox' \in [Router -> [Router -> Nat]] /\ lost' \in [Router -> Nat]
          /\ network_queue' \in [Router -> Int]
          /\ prefix_map' \in BOOLEAN
          /\ AccountedFor'
          /\ (prefix_map <=> network_queue # Zero) => (prefix_map' <=> network_queue' # Zero)
      BY <1>6, <2>1, SendToInv
    <2>4. session' \in [Router -> [Router -> SessionType]]
      BY <1>2, <1>3, <1>6
    <2>5. TypeOK'
      BY <1>1, <1>6, <2>1, <2>2, <2>3, <2>4 DEF TypeOK
    <2>6. NeverNegative' /\ LeftOverIsMarked'
      BY <1>6, <2>1, <2>2, LeftOverKept
    <2>7. Unsuppressed'
      <3>1. mrai_type = "off" =>
              \A x, n \in Router : ~session'[x][n].window /\ ~session'[x][n].held
        BY <1>2, <1>4, <1>6, <2>1 DEF Unsuppressed
      <3> QED
        BY <1>6, <2>1, <2>2, <2>3, <3>1 DEF Unsuppressed
    <2> QED
      BY <2>3, <2>5, <2>6, <2>7 DEF IInv
  <1> QED
    BY <1>5, <1>6 DEF NetworkCommand

\* A message that makes a router decide.
LEMMA ReceiveChangeInv ==
  ASSUME IInv, NEW r \in Router, NEW n \in Adjacent[r],
         NEW advertise \in [Adjacent[r] -> BOOLEAN],
         ReceiveChange(r, n, advertise)
  PROVE  IInv'
  <1>1. TypeOK /\ AccountedFor /\ NeverNegative /\ LeftOverIsMarked /\ Unsuppressed
    BY DEF IInv
  <1>2. Decide(r, session[r], advertise) /\ Parse(r, n, Messages(session[r], advertise))
    BY DEF ReceiveChange
  <1>3. budget' \in [changes : Nat, commands : Nat, stops : Nat]
    BY <1>1, SpendType DEF ReceiveChange
  <1>4. session[r] \in [Router -> SessionType] /\ UNCHANGED mrai_type
    BY <1>1, <1>2 DEF TypeOK, Parse
  <1>5. /\ session' \in [Router -> [Router -> SessionType]]
        /\ mrai_map' \in [Router -> BOOLEAN]
        /\ \A x \in Router : mrai_map[x] => mrai_map'[x]
    BY <1>1, <1>2, <1>4, DecideEffect
  <1>6. mrai_type = "off" =>
          /\ \A x, y \in Router : ~session'[x][y].window /\ ~session'[x][y].held
          /\ \A x \in Router : ~mrai_map'[x]
    BY <1>1, <1>2, <1>4, DecideEffect DEF Unsuppressed
  <1>7. /\ inbox' \in [Router -> [Router -> Nat]] /\ lost' \in [Router -> Nat]
        /\ network_queue' \in [Router -> Int]
        /\ process_queue' \in [Router -> Int]
        /\ prefix_map' \in BOOLEAN
        /\ AccountedFor' /\ NeverNegative' /\ LeftOverIsMarked'
        /\ mrai_type = "off" /\ (\A x \in Router : ~mrai_map'[x])
             => (prefix_map' <=> network_queue' # Zero)
    <2>1. n \in Router /\ Messages(session[r], advertise) \in SUBSET Router
      BY AdjacentAssumption, MessagesType
    <2> QED
      BY <1>1, <1>2, <1>5, <2>1, ParseInv
  <1>8. TypeOK'
    BY <1>1, <1>3, <1>4, <1>5, <1>7 DEF TypeOK
  <1>9. Unsuppressed'
    BY <1>4, <1>6, <1>7 DEF Unsuppressed
  <1> QED
    BY <1>7, <1>8, <1>9 DEF IInv

\* A message that changes nothing.
LEMMA ReceiveNoChangeInv ==
  ASSUME IInv, NEW r \in Router, NEW n \in Adjacent[r],
         ReceiveNoChange(r, n)
  PROVE  IInv'
  <1>1. TypeOK /\ AccountedFor /\ NeverNegative /\ LeftOverIsMarked /\ Unsuppressed
    BY DEF IInv
  <1>2. n \in Router /\ Parse(r, n, {}) /\ UNCHANGED <<session, mrai_map, budget>>
    BY AdjacentAssumption DEF ReceiveNoChange
  <1>3. /\ mrai_map' \in [Router -> BOOLEAN]
        /\ \A x \in Router : mrai_map[x] => mrai_map'[x]
    BY <1>1, <1>2 DEF TypeOK
  <1>4. /\ inbox' \in [Router -> [Router -> Nat]] /\ lost' \in [Router -> Nat]
        /\ network_queue' \in [Router -> Int]
        /\ process_queue' \in [Router -> Int]
        /\ prefix_map' \in BOOLEAN
        /\ UNCHANGED mrai_type
        /\ AccountedFor' /\ NeverNegative' /\ LeftOverIsMarked'
        /\ mrai_type = "off" /\ (\A x \in Router : ~mrai_map'[x])
             => (prefix_map' <=> network_queue' # Zero)
    BY <1>1, <1>2, <1>3, ParseInv
  <1>5. TypeOK'
    BY <1>1, <1>2, <1>4 DEF TypeOK
  <1>6. Unsuppressed'
    BY <1>1, <1>2, <1>4 DEF Unsuppressed
  <1> QED
    BY <1>4, <1>5, <1>6 DEF IInv

-----------------------------------------------------------------------------
\* The steps that release an update.  None is possible without MRAI.
LEMMA ReleaseEffect ==
  ASSUME IInv, NEW r \in Router, NEW n \in Adjacent[r], NEW window \in BOOLEAN,
         Release(r, n, window)
  PROVE  /\ inbox' \in [Router -> [Router -> Nat]] /\ lost' \in [Router -> Nat]
         /\ network_queue' \in [Router -> Int]
         /\ session' \in [Router -> [Router -> SessionType]]
         /\ prefix_map' = TRUE
         /\ UNCHANGED <<mrai_type, budget>>
         /\ AccountedFor'
         /\ mrai_type # "off"
  <1>1. n \in Router
    BY AdjacentAssumption
  <1>2. /\ inbox' = Sent(inbox, r, {n}) /\ lost' = Plus(lost, {n} \ Arrives(r, {n}))
        /\ network_queue' = Plus(network_queue, {n})
    BY DEF Release
  <1>3. /\ inbox' \in [Router -> [Router -> Nat]] /\ lost' \in [Router -> Nat]
        /\ network_queue' \in [Router -> Int]
        /\ Booked(network_queue', inbox', lost')
    <2>1. Booked(network_queue, inbox, lost)
      BY DEF IInv, AccountedFor, Booked
    <2>2. {n} \in SUBSET Router /\ {n} \in SUBSET {n}
      BY <1>1
    <2> QED
      BY <1>2, <2>1, <2>2, SentBooked DEF IInv, TypeOK
  <1>4. session' \in [Router -> [Router -> SessionType]]
    <2>1. session \in [Router -> [Router -> SessionType]]
      BY DEF IInv, TypeOK
    <2>2. \A s \in SessionType :
            [s EXCEPT !.adj_out = TRUE, !.held = FALSE, !.window = window] \in SessionType
      BY DEF SessionType
    <2>3. session[r][n] \in SessionType
      BY <1>1, <2>1
    <2> DEFINE new == [session[r][n] EXCEPT !.adj_out = TRUE, !.held = FALSE,
                                            !.window = window]
    <2>4. new \in SessionType
      BY <2>2, <2>3
    <2>5. session' = [session EXCEPT ![r][n] = new]
      BY DEF Release
    <2> HIDE DEF new
    <2> QED
      BY <1>1, <2>1, <2>4, <2>5
  <1>5. prefix_map' = TRUE /\ UNCHANGED <<mrai_type, budget>>
    BY DEF Release
  <1>6. AccountedFor'
    BY <1>3, <1>5 DEF AccountedFor, Booked
  <1>7. mrai_type # "off"
    BY <1>1 DEF IInv, Unsuppressed, Release
  <1> QED
    BY <1>3, <1>4, <1>5, <1>6, <1>7

\* A timer that expires, per prefix.
LEMMA TimerPrefixInv ==
  ASSUME IInv, NEW r \in Router, NEW n \in Adjacent[r], TimerPrefix(r, n)
  PROVE  IInv'
  <1>1. Release(r, n, TRUE) /\ mrai_type = "prefix"
        /\ mrai_map' = [mrai_map EXCEPT ![r] = FALSE]
        /\ process_queue' = [process_queue EXCEPT ![r] = 0]
    BY DEF TimerPrefix
  <1>2. /\ inbox' \in [Router -> [Router -> Nat]] /\ lost' \in [Router -> Nat]
        /\ network_queue' \in [Router -> Int]
        /\ session' \in [Router -> [Router -> SessionType]]
        /\ prefix_map' = TRUE
        /\ UNCHANGED <<mrai_type, budget>>
        /\ AccountedFor'
    BY <1>1, ReleaseEffect
  <1>3. TypeOK'
    <2>1. mrai_map' \in [Router -> BOOLEAN]
      BY <1>1, Zenon DEF IInv, TypeOK
    <2>2. process_queue' \in [Router -> Int]
      BY <1>1 DEF IInv, TypeOK
    <2> QED
      BY <1>1, <1>2, <2>1, <2>2 DEF IInv, TypeOK
  <1>4. NeverNegative' /\ LeftOverIsMarked'
    BY <1>1, <1>2 DEF IInv, TypeOK, NeverNegative, LeftOverIsMarked
  <1> QED
    BY <1>1, <1>2, <1>3, <1>4 DEF IInv, Unsuppressed

\* A timer that expires or a flush, per peer.
LEMMA PeerStepInv ==
  ASSUME IInv, NEW r \in Router, NEW n \in Adjacent[r],
         TimerPeer(r, n) \/ Flush(r, n)
  PROVE  IInv'
  <1>1. mrai_type = "peer"
    BY DEF TimerPeer, Flush
  <1>2. PICK window \in BOOLEAN : Release(r, n, window)
    BY DEF TimerPeer, Flush
  <1>3. /\ inbox' \in [Router -> [Router -> Nat]] /\ lost' \in [Router -> Nat]
        /\ network_queue' \in [Router -> Int]
        /\ session' \in [Router -> [Router -> SessionType]]
        /\ prefix_map' = TRUE
        /\ UNCHANGED <<mrai_type, budget>>
        /\ AccountedFor'
    BY <1>2, ReleaseEffect
  <1>4. mrai_map' \in [Router -> BOOLEAN] /\ process_queue' \in [Router -> Int]
    <2>1. mrai_map' = [mrai_map EXCEPT ![r] = FALSE] \/ UNCHANGED mrai_map
      BY DEF TimerPeer, Flush
    <2>2. mrai_map' \in [Router -> BOOLEAN]
      <3>1. mrai_map \in [Router -> BOOLEAN]
        BY DEF IInv, TypeOK
      <3>2. CASE mrai_map' = [mrai_map EXCEPT ![r] = FALSE]
        BY <3>1, <3>2, Zenon
      <3>3. CASE UNCHANGED mrai_map
        BY <3>1, <3>3
      <3> QED
        BY <2>1, <3>2, <3>3
    <2>3. process_queue' \in [Router -> Int]
      <3>1. process_queue \in [Router -> Int]
        BY DEF IInv, TypeOK
      <3>2. \/ process_queue' = [process_queue EXCEPT ![r] = @ - 1]
            \/ process_queue' = process_queue
        BY DEF TimerPeer, Flush
      <3> QED
        BY <3>1, <3>2
    <2> QED
      BY <2>2, <2>3
  <1>5. TypeOK'
    BY <1>3, <1>4 DEF IInv, TypeOK
  <1> QED
    BY <1>1, <1>3, <1>5 DEF IInv, NeverNegative, LeftOverIsMarked, Unsuppressed

\* An interval that begins or ends.
LEMMA WindowInv ==
  ASSUME IInv, NEW r \in Router, NEW n \in Adjacent[r],
         WindowEnd(r, n) \/ WindowBegin(r, n)
  PROVE  IInv'
  <1>1. n \in Router
    BY AdjacentAssumption
  <1>2. UNCHANGED <<mrai_type, inbox, lost, queues, mrai_map, budget>>
    BY DEF WindowEnd, WindowBegin
  <1>3. mrai_type # "off"
    BY <1>1 DEF IInv, Unsuppressed, WindowEnd, WindowBegin
  <1>4. PICK w \in BOOLEAN : session' = [session EXCEPT ![r][n].window = w]
    BY DEF WindowEnd, WindowBegin
  <1>5. session' \in [Router -> [Router -> SessionType]]
    <2>1. session \in [Router -> [Router -> SessionType]]
      BY DEF IInv, TypeOK
    <2>2. [session[r][n] EXCEPT !.window = w] \in SessionType
      <3>1. session[r][n] \in SessionType
        BY <1>1, <2>1
      <3>2. [session[r][n] EXCEPT !.window = TRUE] \in SessionType
        BY <3>1 DEF SessionType
      <3>3. [session[r][n] EXCEPT !.window = FALSE] \in SessionType
        BY <3>1 DEF SessionType
      <3>4. w = TRUE \/ w = FALSE
        OBVIOUS
      <3> QED
        BY <3>2, <3>3, <3>4, Zenon
    <2>3. [session[r] EXCEPT ![n].window = w] \in [Router -> SessionType]
      BY <1>1, <2>1, <2>2
    <2>4. session' = [session EXCEPT ![r] = [@ EXCEPT ![n].window = w]]
      BY <1>4
    <2> QED
      BY <2>1, <2>3, <2>4
  <1>6. TypeOK'
    BY <1>2, <1>5 DEF IInv, TypeOK, queues
  <1> QED
    BY <1>2, <1>3, <1>6
       DEF IInv, queues, AccountedFor, NeverNegative, LeftOverIsMarked, Unsuppressed

-----------------------------------------------------------------------------
(* A refresh, and sessions that stop and are established again.            *)

\* One session of a router changes, and what it sends is counted.
LEMMA SessionSendInv ==
  ASSUME IInv, NEW r \in Router, NEW n \in Router, NEW new \in SessionType,
         NEW to \in SUBSET Router,
         session' = [session EXCEPT ![r][n] = new],
         SendTo(r, to), UNCHANGED mrai_map,
         budget' \in [changes : Nat, commands : Nat, stops : Nat],
         mrai_type = "off" => ~new.window /\ ~new.held
  PROVE  IInv'
  <1>1. TypeOK /\ AccountedFor /\ NeverNegative /\ LeftOverIsMarked /\ Unsuppressed
    BY DEF IInv
  <1>2. /\ inbox' \in [Router -> [Router -> Nat]] /\ lost' \in [Router -> Nat]
        /\ network_queue' \in [Router -> Int]
        /\ prefix_map' \in BOOLEAN
        /\ UNCHANGED <<mrai_type, process_queue>>
        /\ AccountedFor'
        /\ (prefix_map <=> network_queue # Zero) => (prefix_map' <=> network_queue' # Zero)
    BY <1>1, SendToInv
  <1>3. session \in [Router -> [Router -> SessionType]]
    BY <1>1 DEF TypeOK
  <1>4. session' \in [Router -> [Router -> SessionType]]
    BY <1>3
  <1>5. \A x, y \in Router :
          session'[x][y] = IF x = r /\ y = n THEN new ELSE session[x][y]
    BY <1>3
  <1>6. TypeOK'
    BY <1>1, <1>2, <1>4 DEF TypeOK
  <1>7. NeverNegative' /\ LeftOverIsMarked'
    BY <1>1, <1>2, LeftOverKept
  <1>8. Unsuppressed'
    BY <1>1, <1>2, <1>5 DEF Unsuppressed
  <1> QED
    BY <1>2, <1>6, <1>7, <1>8 DEF IInv

\* A refresh sends what it counts.
LEMMA RefreshInv ==
  ASSUME IInv, NEW r \in Router, NEW n \in Adjacent[r], NEW announce \in BOOLEAN,
         RefreshCommand(r, n, announce)
  PROVE  IInv'
  <1> DEFINE s == session[r][n]
             to == IF announce \/ s.adj_out THEN {n} ELSE {}
             new == IF announce
                    THEN [s EXCEPT !.adj_out = TRUE, !.window = (mrai_type # "off")]
                    ELSE [s EXCEPT !.adj_out = FALSE, !.held = FALSE]
  <1>1. TypeOK /\ AccountedFor /\ NeverNegative /\ LeftOverIsMarked /\ Unsuppressed
    BY DEF IInv
  <1>2. /\ session' = [session EXCEPT ![r][n] = new]
        /\ SendTo(r, to) /\ UNCHANGED mrai_map
    BY DEF RefreshCommand
  <1>3. budget' \in [changes : Nat, commands : Nat, stops : Nat]
    BY <1>1, SpendType DEF RefreshCommand
  <1>4. n \in Router /\ to \in SUBSET Router
    BY AdjacentAssumption
  <1>5. new \in SessionType
    <2>1. s \in SessionType
      BY <1>1, <1>4 DEF TypeOK
    <2>2. \A w \in BOOLEAN : [s EXCEPT !.adj_out = TRUE, !.window = w] \in SessionType
      BY <2>1 DEF SessionType
    <2>3. [s EXCEPT !.adj_out = FALSE, !.held = FALSE] \in SessionType
      BY <2>1 DEF SessionType
    <2>4. (mrai_type # "off") \in BOOLEAN
      OBVIOUS
    <2> HIDE DEF s
    <2> QED
      BY <2>2, <2>3, <2>4
  <1>6. mrai_type = "off" => ~new.window /\ ~new.held
    <2> SUFFICES ASSUME mrai_type = "off" PROVE ~new.window /\ ~new.held
      OBVIOUS
    <2>1. s \in SessionType /\ ~s.window /\ ~s.held
      BY <1>1, <1>4 DEF TypeOK, Unsuppressed
    <2> HIDE DEF s
    <2> QED
      BY <2>1 DEF SessionType
  <1> HIDE DEF new, to
  <1> QED
    BY <1>1, <1>2, <1>3, <1>4, <1>5, <1>6, SessionSendInv

\* The table is counted when a session is established.
LEMMA EstablishInv ==
  ASSUME IInv, NEW r \in Router, NEW n \in Adjacent[r], NEW announce \in BOOLEAN,
         Establish(r, n, announce)
  PROVE  IInv'
  <1> DEFINE to == IF announce THEN {n} ELSE {}
             new == [status |-> "up", adj_out |-> announce, held |-> FALSE,
                     window |-> announce /\ mrai_type # "off"]
  <1>1. /\ session' = [session EXCEPT ![r][n] = new]
        /\ SendTo(r, to) /\ UNCHANGED <<mrai_map, budget>>
    BY DEF Establish
  <1>2. n \in Router /\ to \in SUBSET Router
    BY AdjacentAssumption
  <1>3. new \in SessionType /\ (mrai_type = "off" => ~new.window /\ ~new.held)
    BY DEF SessionType
  <1>4. budget' \in [changes : Nat, commands : Nat, stops : Nat]
    BY <1>1 DEF IInv, TypeOK
  <1> HIDE DEF new, to
  <1> QED
    BY <1>1, <1>2, <1>3, <1>4, SessionSendInv

\* What becomes of messages when an end of a session stops.
LEMMA CloseBooks ==
  ASSUME TypeOK, AccountedFor, NEW r \in Router, NEW n \in Adjacent[r], NEW changes,
         NEW s, NEW to \in SUBSET Router, r \notin to,
         Close(r, n, changes, s, to)
  PROVE  /\ inbox' \in [Router -> [Router -> Nat]] /\ lost' \in [Router -> Nat]
         /\ network_queue' \in [Router -> Int]
         /\ prefix_map' \in BOOLEAN
         /\ AccountedFor'
         /\ (prefix_map <=> network_queue # Zero) => (prefix_map' <=> network_queue' # Zero)
  <1> DEFINE part == to \ {n}
             sent == Sent(inbox, r, part)
             absent == Plus(lost, to \ Arrives(r, part))
             queue == Plus(network_queue, to)
  <1>1. n \in Router /\ r # n
    BY AdjacentAssumption
  <1>2. PICK kept \in 0..inbox[n][r] :
          /\ inbox' = [sent EXCEPT ![r][n] = 0, ![n][r] = kept]
          /\ lost' = [absent EXCEPT ![r] = @ + inbox[r][n], ![n] = @ + inbox[n][r] - kept]
    BY DEF Close
  <1>3. network_queue' = queue /\ prefix_map' = (prefix_map \/ to # {})
    BY DEF Close
  <1>4. /\ queue \in [Router -> Int]
        /\ sent \in [Router -> [Router -> Nat]]
        /\ absent \in [Router -> Nat]
        /\ Booked(queue, sent, absent)
        /\ sent[r] = inbox[r] /\ sent[n] = inbox[n]
    <2>1. Booked(network_queue, inbox, lost)
      BY DEF AccountedFor, Booked
    <2>2. part \in SUBSET to /\ r \in Router \ part /\ n \in Router \ part
      BY <1>1
    <2>3. /\ network_queue \in [Router -> Int] /\ lost \in [Router -> Nat]
          /\ inbox \in [Router -> [Router -> Nat]]
      BY DEF TypeOK
    <2> HIDE DEF part
    <2>4. /\ Plus(network_queue, to) \in [Router -> Int]
          /\ Sent(inbox, r, part) \in [Router -> [Router -> Nat]]
          /\ Plus(lost, to \ Arrives(r, part)) \in [Router -> Nat]
          /\ Booked(Plus(network_queue, to), Sent(inbox, r, part),
                    Plus(lost, to \ Arrives(r, part)))
      BY <2>1, <2>2, <2>3, SentBooked
    <2>5. \A x \in Router \ part : Sent(inbox, r, part)[x] = inbox[x]
      BY DEF Sent, Arrives
    <2> QED
      BY <2>2, <2>4, <2>5
  <1> HIDE DEF sent, absent, queue
  <1>5. /\ inbox' \in [Router -> [Router -> Nat]]
        /\ lost' \in [Router -> Nat]
        /\ Booked(queue, inbox', lost')
    <2>1. /\ kept \in 0..sent[n][r] /\ kept \in Nat
          /\ inbox[r][n] \in Nat /\ inbox[n][r] \in Nat /\ inbox[n][r] >= kept
      BY <1>1, <1>4 DEF TypeOK
    <2>2. /\ inbox' \in [Router -> [Router -> Nat]]
          /\ \A x \in Router \ {r, n} : inbox'[x] = sent[x]
          /\ inbox'[r][n] = 0 /\ \A y \in Router \ {n} : inbox'[r][y] = sent[r][y]
          /\ inbox'[n][r] = kept /\ \A y \in Router \ {r} : inbox'[n][y] = sent[n][y]
      BY <1>1, <1>2, <1>4, <2>1
    <2>3. \A x \in Router :
            lost'[x] = IF x = r THEN absent[r] + sent[r][n]
                       ELSE IF x = n THEN absent[n] + sent[n][r] - kept
                       ELSE absent[x]
      BY <1>1, <1>2, <1>4
    <2>4. \A x \in Router : lost'[x] \in Nat
      BY <1>1, <1>4, <2>1, <2>3
    <2>5. lost' \in [Router -> Nat]
      <3>1. lost' = [x \in Router |-> lost'[x]]
        BY <1>2, <1>4
      <3> QED
        BY <2>4, <3>1
    <2>6. Booked(queue, inbox', lost')
      <3>1. /\ sent[r] \in [Router -> Nat] /\ sent[n] \in [Router -> Nat]
            /\ inbox'[r] \in [Router -> Nat] /\ inbox'[n] \in [Router -> Nat]
            /\ sent[r][n] \in Nat /\ sent[n][r] \in Nat
        BY <1>1, <1>4, <2>2
      <3>2. /\ Total(inbox'[r]) = Total(sent[r]) - sent[r][n] + 0
            /\ Total(sent[r]) \in Nat
        BY <1>1, <2>2, <3>1, TotalChange
      <3>3. /\ Total(inbox'[n]) = Total(sent[n]) - sent[n][r] + kept
            /\ Total(sent[n]) \in Nat
        BY <1>1, <2>2, <3>1, TotalChange
      <3> SUFFICES ASSUME NEW x \in Router
                   PROVE  queue[x] = Total(inbox'[x]) + lost'[x]
        BY DEF Booked
      <3>4. /\ queue[x] = Total(sent[x]) + absent[x]
            /\ queue[x] \in Int /\ absent[x] \in Nat
        BY <1>4 DEF Booked
      <3>5. CASE x = r
        BY <2>3, <3>1, <3>2, <3>4, <3>5
      <3>6. CASE x = n
        BY <1>1, <2>1, <2>3, <3>1, <3>3, <3>4, <3>6
      <3>7. CASE x # r /\ x # n
        BY <2>2, <2>3, <3>4, <3>7
      <3> QED
        BY <3>5, <3>6, <3>7
    <2> QED
      BY <2>2, <2>5, <2>6
  <1>6. /\ prefix_map' \in BOOLEAN /\ (~prefix_map' => network_queue' = Zero)
        /\ (prefix_map <=> network_queue # Zero) => (prefix_map' <=> network_queue' # Zero)
    BY <1>3, EntryKept DEF queue
  <1> QED
    BY <1>3, <1>4, <1>5, <1>6 DEF AccountedFor, Booked

\* No message is found again when an end of a session stops.
LEMMA CloseLoss ==
  ASSUME TypeOK, NEW r \in Router, NEW n \in Adjacent[r], NEW changes, NEW s, NEW to,
         Close(r, n, changes, s, to)
  PROVE  \A x \in Router : lost'[x] >= lost[x]
  <1> DEFINE absent == Plus(lost, to \ Arrives(r, to \ {n}))
  <1>1. n \in Router /\ r # n
    BY AdjacentAssumption
  <1>2. PICK kept \in 0..inbox[n][r] :
          lost' = [absent EXCEPT ![r] = @ + inbox[r][n], ![n] = @ + inbox[n][r] - kept]
    BY DEF Close
  <1>3. absent \in [Router -> Nat] /\ \A x \in Router : absent[x] >= lost[x]
    BY DEF TypeOK, Plus
  <1>4. inbox[r][n] \in Nat /\ inbox[n][r] \in Nat /\ inbox[n][r] >= kept /\ kept \in Nat
    BY <1>1 DEF TypeOK
  <1> HIDE DEF absent
  <1>5. \A x \in Router : lost'[x] = IF x = r THEN absent[r] + inbox[r][n]
                                     ELSE IF x = n THEN absent[n] + inbox[n][r] - kept
                                     ELSE absent[x]
    BY <1>1, <1>2, <1>3
  <1>6. \A x \in Router : absent[x] \in Nat /\ lost[x] \in Nat
    BY <1>3 DEF TypeOK
  <1> SUFFICES ASSUME NEW x \in Router
               PROVE  lost'[x] >= lost[x]
    OBVIOUS
  <1>7. CASE x = r
    BY <1>3, <1>4, <1>5, <1>6, <1>7
  <1>8. CASE x = n
    <2>1. lost'[n] = absent[n] + inbox[n][r] - kept
      BY <1>1, <1>5
    <2>2. absent[n] \in Nat /\ lost[n] \in Nat /\ absent[n] >= lost[n]
      BY <1>1, <1>3, <1>6
    <2> QED
      BY <1>4, <1>8, <2>1, <2>2
  <1>9. CASE x # r /\ x # n
    BY <1>3, <1>5, <1>9
  <1> QED
    BY <1>7, <1>8, <1>9

\* An end of a session that stops keeps the invariant, whatever is decided.
LEMMA CloseInv ==
  ASSUME IInv, NEW r \in Router, NEW n \in Adjacent[r], NEW changes \in {0, 1},
         NEW s \in [Router -> SessionType], NEW to \in SUBSET Router, r \notin to,
         Close(r, n, changes, s, to),
         mrai_map' \in [Router -> BOOLEAN],
         \A x \in Router : mrai_map[x] => mrai_map'[x],
         mrai_type = "off" => /\ \A x \in Router : ~s[x].window /\ ~s[x].held
                              /\ \A x \in Router : ~mrai_map'[x]
  PROVE  IInv'
  <1>1. TypeOK /\ AccountedFor /\ NeverNegative /\ LeftOverIsMarked /\ Unsuppressed
    BY DEF IInv
  <1>2. n \in Router
    BY AdjacentAssumption
  <1>3. /\ inbox' \in [Router -> [Router -> Nat]] /\ lost' \in [Router -> Nat]
        /\ network_queue' \in [Router -> Int]
        /\ prefix_map' \in BOOLEAN
        /\ AccountedFor'
        /\ (prefix_map <=> network_queue # Zero) => (prefix_map' <=> network_queue' # Zero)
    BY <1>1, CloseBooks
  <1>4. UNCHANGED <<mrai_type, process_queue>>
    BY DEF Close
  <1> DEFINE new == [s EXCEPT ![n] = Fresh("down")]
  <1>5. session' = [session EXCEPT ![r] = new]
    BY DEF Close
  <1>6. Fresh("down") \in SessionType /\ ~Fresh("down").window /\ ~Fresh("down").held
    BY DEF Fresh, SessionType
  <1>7. new \in [Router -> SessionType]
        /\ \A x \in Router : new[x] = IF x = n THEN Fresh("down") ELSE s[x]
    BY <1>2, <1>6
  <1> HIDE DEF new
  <1>8. session' \in [Router -> [Router -> SessionType]]
        /\ \A x \in Router : session'[x] = IF x = r THEN new ELSE session[x]
    BY <1>1, <1>5, <1>7 DEF TypeOK
  <1>9. budget' \in [changes : Nat, commands : Nat, stops : Nat]
    <2>1. budget \in [changes : Nat, commands : Nat, stops : Nat]
      BY <1>1 DEF TypeOK
    <2>2. budget.changes - changes \in Nat /\ budget.stops - 1 \in Nat
      BY <2>1 DEF Close
    <2>3. budget' = [budget EXCEPT !.changes = budget.changes - changes,
                                   !.stops = budget.stops - 1]
      BY DEF Close
    <2> QED
      BY <2>1, <2>2, <2>3
  <1>10. TypeOK'
    BY <1>1, <1>3, <1>4, <1>8, <1>9 DEF TypeOK
  <1>11. NeverNegative' /\ LeftOverIsMarked'
    BY <1>1, <1>4, LeftOverKept
  <1>12. Unsuppressed'
    <2>1. mrai_type = "off" => \A x, y \in Router : ~session'[x][y].window /\ ~session'[x][y].held
      BY <1>1, <1>6, <1>7, <1>8 DEF Unsuppressed
    <2> QED
      BY <1>1, <1>3, <1>4, <2>1 DEF Unsuppressed
  <1> QED
    BY <1>3, <1>10, <1>11, <1>12 DEF IInv

\* An Established session that stops.
LEMMA StopInv ==
  ASSUME IInv, NEW r \in Router, NEW n \in Adjacent[r],
         NEW advertise \in [Adjacent[r] -> BOOLEAN],
         Stop(r, n, advertise)
  PROVE  IInv'
  <1> DEFINE s == Outcome(r, session[r], advertise)
             to == Messages(session[r], advertise)
             b == Marked(r, session[r], advertise)
  <1>1. TypeOK /\ Unsuppressed /\ session[r] \in [Router -> SessionType]
    BY DEF IInv, TypeOK
  <1>2. CASE Close(r, n, 1, s, to) /\ mrai_map' = [mrai_map EXCEPT ![r] = b]
    <2>1. to \in SUBSET Router /\ r \notin to
      BY AdjacentAssumption DEF Messages
    <2>2. s \in [Router -> SessionType] /\ b \in BOOLEAN /\ (mrai_map[r] => b)
      BY <1>1, OutcomeType
    <2>3. mrai_type = "off" => /\ \A x \in Router : ~s[x].window /\ ~s[x].held
                               /\ b => mrai_map[r]
      BY <1>1, OutcomeType DEF Unsuppressed
    <2> HIDE DEF s, to, b
    <2>4. mrai_map' \in [Router -> BOOLEAN]
      BY <1>1, <1>2, <2>2, Zenon DEF TypeOK
    <2>5. \A x \in Router : mrai_map'[x] = IF x = r THEN b ELSE mrai_map[x]
      BY <1>1, <1>2, Zenon DEF TypeOK
    <2>6. \A x \in Router : mrai_map[x] => mrai_map'[x]
      BY <2>2, <2>5
    <2>7. mrai_type = "off" => \A x \in Router : ~mrai_map'[x]
      BY <1>1, <2>3, <2>5 DEF Unsuppressed
    <2> QED
      BY <1>2, <2>1, <2>2, <2>3, <2>4, <2>6, <2>7, CloseInv
  <1>3. CASE Close(r, n, 0, session[r], {}) /\ UNCHANGED mrai_map
    <2>1. mrai_map' \in [Router -> BOOLEAN] /\ \A x \in Router : mrai_map[x] => mrai_map'[x]
      BY <1>1, <1>3 DEF TypeOK
    <2>2. mrai_type = "off" =>
            /\ \A x \in Router : ~session[r][x].window /\ ~session[r][x].held
            /\ \A x \in Router : ~mrai_map'[x]
      BY <1>1, <1>3 DEF Unsuppressed
    <2> QED
      BY <1>1, <1>3, <2>1, <2>2, CloseInv
  <1> QED
    BY <1>2, <1>3 DEF Stop

\* A connection that ends before the session is Established.
LEMMA AbandonInv ==
  ASSUME IInv, NEW r \in Router, NEW n \in Adjacent[r], Abandon(r, n)
  PROVE  IInv'
  <1>1. Close(r, n, 0, session[r], {}) /\ UNCHANGED mrai_map
    BY DEF Abandon
  <1>2. session[r] \in [Router -> SessionType] /\ mrai_map' \in [Router -> BOOLEAN]
        /\ \A x \in Router : mrai_map[x] => mrai_map'[x]
    BY <1>1 DEF IInv, TypeOK
  <1>3. mrai_type = "off" =>
          /\ \A x \in Router : ~session[r][x].window /\ ~session[r][x].held
          /\ \A x \in Router : ~mrai_map'[x]
    BY <1>1 DEF IInv, Unsuppressed
  <1> QED
    BY <1>1, <1>2, <1>3, CloseInv

\* A new connection sends nothing that is counted.
LEMMA ConnectInv ==
  ASSUME IInv, NEW r \in Router, NEW n \in Adjacent[r], Connect(r, n)
  PROVE  IInv'
  <1>1. n \in Router /\ r # n
    BY AdjacentAssumption
  <1>2. UNCHANGED <<mrai_type, inbox, lost, queues, mrai_map, budget>>
    BY DEF Connect
  <1>3. session \in [Router -> [Router -> SessionType]]
    BY DEF IInv, TypeOK
  <1> DEFINE ready(x, y) == [session[x][y] EXCEPT !.status = "ready"]
             f == [session[r] EXCEPT ![n] = ready(r, n)]
             g == [session[n] EXCEPT ![r] = ready(n, r)]
  <1>4. \A x, y \in Router :
          /\ ready(x, y) \in SessionType
          /\ ready(x, y).window = session[x][y].window
          /\ ready(x, y).held = session[x][y].held
    <2>1. \A s \in SessionType : /\ [s EXCEPT !.status = "ready"] \in SessionType
                                  /\ [s EXCEPT !.status = "ready"].window = s.window
                                  /\ [s EXCEPT !.status = "ready"].held = s.held
      BY DEF SessionType
    <2> TAKE x, y \in Router
    <2>2. session[x][y] \in SessionType
      BY <1>3
    <2> QED
      BY <2>1, <2>2
  <1>5. session' = [session EXCEPT ![r] = f, ![n] = g]
    BY <1>1, <1>3 DEF Connect
  <1>6. /\ f \in [Router -> SessionType] /\ g \in [Router -> SessionType]
        /\ \A y \in Router : f[y] = IF y = n THEN ready(r, n) ELSE session[r][y]
        /\ \A y \in Router : g[y] = IF y = r THEN ready(n, r) ELSE session[n][y]
    BY <1>1, <1>3, <1>4
  <1> HIDE DEF ready, f, g
  <1>7. session' \in [Router -> [Router -> SessionType]]
        /\ \A x \in Router : session'[x] = IF x = n THEN g ELSE IF x = r THEN f ELSE session[x]
    BY <1>1, <1>3, <1>5, <1>6
  <1>8. \A x, y \in Router : /\ session'[x][y].window = session[x][y].window
                             /\ session'[x][y].held = session[x][y].held
    BY <1>1, <1>4, <1>6, <1>7
  <1>9. TypeOK'
    BY <1>2, <1>7 DEF IInv, TypeOK, queues
  <1> QED
    BY <1>2, <1>8, <1>9
       DEF IInv, queues, AccountedFor, NeverNegative, LeftOverIsMarked, Unsuppressed

-----------------------------------------------------------------------------
\* Every step preserves the invariant.
LEMMA NextInv == IInv /\ [Next]_vars => IInv'
  <1> SUFFICES ASSUME IInv, [Next]_vars PROVE IInv'
    OBVIOUS
  <1>1. ASSUME NEW r \in Router, NEW advertise \in [Adjacent[r] -> BOOLEAN],
               NetworkCommand(r, advertise) \/ Command(r, advertise)
        PROVE  IInv'
    BY <1>1, NetworkCommandInv, CommandInv
  <1>2. ASSUME NEW r \in Router, NEW advertise \in [Adjacent[r] -> BOOLEAN],
               NEW n \in Adjacent[r],
               ReceiveChange(r, n, advertise) \/ Stop(r, n, advertise)
        PROVE  IInv'
    BY <1>2, ReceiveChangeInv, StopInv
  <1>3. ASSUME NEW r \in Router, NEW n \in Adjacent[r], NEW announce \in BOOLEAN,
               RefreshCommand(r, n, announce) \/ Establish(r, n, announce)
        PROVE  IInv'
    BY <1>3, RefreshInv, EstablishInv
  <1>4. ASSUME NEW r \in Router, NEW n \in Adjacent[r],
               \/ ReceiveNoChange(r, n)
               \/ TimerPrefix(r, n) \/ TimerPeer(r, n) \/ Flush(r, n)
               \/ WindowEnd(r, n) \/ WindowBegin(r, n)
               \/ Abandon(r, n) \/ Connect(r, n)
        PROVE  IInv'
    BY <1>4, ReceiveNoChangeInv, TimerPrefixInv, PeerStepInv, WindowInv, AbandonInv, ConnectInv
  <1>5. CASE UNCHANGED vars
    BY <1>5 DEF IInv, TypeOK, AccountedFor, NeverNegative, LeftOverIsMarked,
                Unsuppressed, vars
  <1> QED
    BY <1>1, <1>2, <1>3, <1>4, <1>5 DEF Next

\* A message that was lost stays lost.
LEMMA LossKept == IInv /\ [Next]_vars => \A x \in Router : lost'[x] >= lost[x]
  <1> SUFFICES ASSUME IInv, [Next]_vars PROVE \A x \in Router : lost'[x] >= lost[x]
    OBVIOUS
  <1>1. lost \in [Router -> Nat]
    BY DEF IInv, TypeOK
  <1>2. \A to : \A x \in Router : Plus(lost, to)[x] >= lost[x]
    BY <1>1 DEF Plus
  <1>3. ASSUME NEW r \in Router, NEW n \in Adjacent[r], NEW changes,
               NEW s, NEW to \in SUBSET Router, Close(r, n, changes, s, to)
        PROVE  \A x \in Router : lost'[x] >= lost[x]
    BY <1>3, CloseLoss DEF IInv
  <1>4. ASSUME NEW r \in Router, NEW n \in Adjacent[r],
               NEW advertise \in [Adjacent[r] -> BOOLEAN],
               Stop(r, n, advertise) \/ Abandon(r, n)
        PROVE  \A x \in Router : lost'[x] >= lost[x]
    BY <1>3, <1>4, MessagesType DEF Stop, Abandon
  <1>5. (\E to : lost' = Plus(lost, to)) => \A x \in Router : lost'[x] >= lost[x]
    BY <1>2
  <1>6. lost' = lost => \A x \in Router : lost'[x] >= lost[x]
    BY <1>1
  <1>7. ASSUME NEW r \in Router, NEW to, SendTo(r, to)
        PROVE  \A x \in Router : lost'[x] >= lost[x]
    BY <1>5, <1>7 DEF SendTo
  <1>8. ASSUME NEW r \in Router, NEW n \in Router, NEW to, Parse(r, n, to)
        PROVE  \A x \in Router : lost'[x] >= lost[x]
    BY <1>5, <1>8 DEF Parse, Exchange
  <1>9. ASSUME NEW r \in Router, NEW n \in Router, NEW window, Release(r, n, window)
        PROVE  \A x \in Router : lost'[x] >= lost[x]
    BY <1>5, <1>9 DEF Release
  <1>10. ASSUME NEW r \in Router, NEW advertise \in [Adjacent[r] -> BOOLEAN],
                NetworkCommand(r, advertise) \/ Command(r, advertise)
         PROVE  \A x \in Router : lost'[x] >= lost[x]
    BY <1>7, <1>10 DEF NetworkCommand, Command
  <1>11. ASSUME NEW r \in Router, NEW n \in Adjacent[r],
                NEW advertise \in [Adjacent[r] -> BOOLEAN],
                ReceiveChange(r, n, advertise) \/ ReceiveNoChange(r, n)
         PROVE  \A x \in Router : lost'[x] >= lost[x]
    BY <1>8, <1>11, AdjacentAssumption DEF ReceiveChange, ReceiveNoChange
  <1>12. ASSUME NEW r \in Router, NEW n \in Adjacent[r], NEW announce \in BOOLEAN,
                RefreshCommand(r, n, announce) \/ Establish(r, n, announce)
         PROVE  \A x \in Router : lost'[x] >= lost[x]
    BY <1>7, <1>12 DEF RefreshCommand, Establish
  <1>13. ASSUME NEW r \in Router, NEW n \in Adjacent[r],
                TimerPrefix(r, n) \/ TimerPeer(r, n) \/ Flush(r, n)
         PROVE  \A x \in Router : lost'[x] >= lost[x]
    BY <1>9, <1>13, AdjacentAssumption DEF TimerPrefix, TimerPeer, Flush
  <1>14. ASSUME NEW r \in Router, NEW n \in Adjacent[r],
                WindowEnd(r, n) \/ WindowBegin(r, n) \/ Connect(r, n)
         PROVE  \A x \in Router : lost'[x] >= lost[x]
    BY <1>6, <1>14 DEF WindowEnd, WindowBegin, Connect
  <1>15. CASE UNCHANGED vars
    BY <1>6, <1>15 DEF vars
  <1>16. ASSUME NEW r \in Router, NEW n \in Adjacent[r], ReceiveNoChange(r, n) \/ Abandon(r, n)
         PROVE  \A x \in Router : lost'[x] >= lost[x]
    <2>1. [x \in Adjacent[r] |-> TRUE] \in [Adjacent[r] -> BOOLEAN]
      OBVIOUS
    <2> QED
      BY <1>4, <1>11, <1>16, <2>1
  <1> QED
    BY <1>4, <1>10, <1>11, <1>12, <1>13, <1>14, <1>15, <1>16 DEF Next

\* The inductive invariant.
THEOREM InductiveInvariant == Spec => []IInv
  BY InitInv, NextInv, PTL DEF Spec

\* Type correctness: no counter leaves its range, whatever order the messages,
\* timers and commands come in.
THEOREM TypeCorrect == Spec => []TypeOK
  <1>1. IInv => TypeOK
    BY DEF IInv
  <1> QED
    BY <1>1, InductiveInvariant, PTL

\* network_queue counts the messages on their way, for every mode, and a message
\* is never parsed without an entry (nlri_parse, its index).
THEOREM EveryMessageCounted == Spec => []AccountedFor
  <1>1. IInv => AccountedFor
    BY DEF IInv
  <1> QED
    BY <1>1, InductiveInvariant, PTL

\* Without MRAI convergence is detected exactly when it is reached, unless a
\* message was lost.
THEOREM ExactDetection == Spec => []ExactWithoutMrai
  <1>1. IInv => ExactWithoutMrai
    <2> SUFFICES ASSUME IInv, mrai_type = "off"
                 PROVE  prefix_map <=> ~Quiet \/ lost # Zero
      BY DEF ExactWithoutMrai
    <2>1. prefix_map <=> network_queue # Zero
      BY DEF IInv, Unsuppressed
    <2>2. network_queue = Zero <=> (\A x \in Router : inbox[x] = Zero) /\ lost = Zero
      <3>1. Booked(network_queue, inbox, lost)
        BY DEF IInv, AccountedFor, Booked
      <3>2. /\ network_queue \in [Router -> Int] /\ lost \in [Router -> Nat]
            /\ inbox \in [Router -> [Router -> Nat]]
        BY DEF IInv, TypeOK
      <3> QED
        BY <3>1, <3>2, BookedNat
    <2>3. \A r, n \in Router : ~session[r][n].held
      BY DEF IInv, Unsuppressed
    <2> QED
      BY <2>1, <2>2, <2>3 DEF Quiet
  <1> QED
    BY <1>1, InductiveInvariant, PTL

\* A loss silences detection: no later step dumps the tables, in any mode.
THEOREM NoDetectionAfterLoss == Spec => SilentAfterLoss
  <1>1. IInv /\ IInv' /\ [Next]_vars => [lost # Zero => prefix_map']_vars
    <2> SUFFICES ASSUME IInv, IInv', [Next]_vars, lost # Zero
                 PROVE  prefix_map'
      OBVIOUS
    <2>1. PICK x \in Router : lost[x] # 0
      BY DEF IInv, TypeOK, Zero
    <2>2. lost[x] \in Nat /\ lost'[x] \in Nat /\ lost'[x] >= lost[x]
      BY LossKept DEF IInv, TypeOK
    <2>3. network_queue'[x] = Total(inbox'[x]) + lost'[x] /\ Total(inbox'[x]) \in Nat
      BY TotalZero DEF IInv, TypeOK, AccountedFor
    <2>4. network_queue'[x] # 0 /\ Zero[x] = 0
      BY <2>1, <2>2, <2>3 DEF Zero
    <2>5. network_queue' # Zero
      BY <2>4
    <2> QED
      BY <2>5 DEF IInv, TypeOK, AccountedFor
  <1> QED
    BY <1>1, InductiveInvariant, PTL DEF Spec, SilentAfterLoss

\* Per prefix, the counter of an AS never becomes negative and is left over only
\* under its mark.
THEOREM LeftOversAreMarked == Spec => [](NeverNegative /\ LeftOverIsMarked)
  <1>1. IInv => NeverNegative /\ LeftOverIsMarked
    BY DEF IInv
  <1> QED
    BY <1>1, InductiveInvariant, PTL
=============================================================================
