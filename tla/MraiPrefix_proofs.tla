-------------------------- MODULE MraiPrefix_proofs --------------------------
(***************************************************************************)
(* Proofs about MraiPrefix for every set of prefixes, routes, policies and *)
(* timer threads and every interval.                                       *)
(*                                                                         *)
(* The argument is about the session record.  Valid(s) says that s has its *)
(* type, that the listed threads are pending, that no listed thread is     *)
(* later than the end of its prefix's interval, and that a suppressed      *)
(* update has a thread.  One lemma for each operator on sessions shows     *)
(* that it keeps Valid; the invariance proof then has one step per action. *)
(***************************************************************************)
EXTENDS MraiPrefix, TLAPS

\* A thread in t_routeadv_list expires no later than the interval of its
\* prefix; this is why an update that finds a thread in the list needs no other.
ListedInTime(s) ==
  \A t \in s.listed : s.timer[t].left <= s.stamp[s.timer[t].prefix]

\* A session that is down has an empty t_routeadv_list.
DownUnlisted(s) == ~s.up => s.listed = {}

Valid(s) ==
  /\ s \in PeerType
  /\ ListPending(s)
  /\ ListedInTime(s)
  /\ DownUnlisted(s)
  /\ InTime(s)
  /\ Clean(s)

\* Valid, but an update suppressed for p may be without a thread
ValidBut(s, p) ==
  /\ s \in PeerType
  /\ ListPending(s)
  /\ ListedInTime(s)
  /\ DownUnlisted(s)
  /\ \A q \in Prefix \ {p} : HasThread(s, q)
  /\ Clean(s)

IInv ==
  /\ TypeOK
  /\ Valid(peer)
  /\ peer.adj_out = told
  /\ walk # {} => peer.up

USE NoTimerAssumption, MraiAssumption, NoRouteAssumption

-----------------------------------------------------------------------------
\* The operators on sessions.

LEMMA ValidWeaken ==
  ASSUME NEW s, NEW p \in Prefix, Valid(s)
  PROVE  ValidBut(s, p)
BY DEF Valid, ValidBut, InTime

LEMMA ValidStrengthen ==
  ASSUME NEW s, NEW p \in Prefix, ValidBut(s, p), HasThread(s, p)
  PROVE  Valid(s)
BY DEF Valid, ValidBut, InTime

\* The threads that routeadv_list_remove leaves in the list were in it
LEMMA ListRemoveFields ==
  ASSUME NEW s \in PeerType, NEW t \in Tid
  PROVE  LET r == ListRemove(s, t) IN
         /\ r \in PeerType
         /\ r.up = s.up /\ r.adj_out = s.adj_out /\ r.top_adv = s.top_adv
         /\ r.stamp = s.stamp /\ r.timer = s.timer
         /\ \/ r.newest = s.newest /\ r.listed = s.listed \ {t} /\ s.newest # t
            \/ r.newest = NoTimer /\ r.listed = {}
<1>1. CASE t = s.newest
  BY <1>1 DEF ListRemove, PeerType
<1>2. CASE t # s.newest
  BY <1>2 DEF ListRemove, PeerType
<1>. QED BY <1>1, <1>2

\* Taking a thread out of the list and ending it, as bgp_routeadv_timer and
\* bgp_cancel_timer_by_prefix do, disturbs the prefix of the thread only
LEMMA EndThread ==
  ASSUME NEW s, NEW t \in Tid, s.timer[t] # NoTimer,
         ValidBut(s, s.timer[t].prefix)
  PROVE  LET r == [ListRemove(s, t) EXCEPT !.timer[t] = NoTimer] IN
         /\ ValidBut(r, s.timer[t].prefix)
         /\ r.up = s.up /\ r.adj_out = s.adj_out /\ r.top_adv = s.top_adv
         /\ r.stamp = s.stamp /\ r.listed \subseteq s.listed \ {t}
         /\ \A u \in Tid \ {t} : r.timer[u] = s.timer[u]
<1>. DEFINE q == ListRemove(s, t)
            r == [q EXCEPT !.timer[t] = NoTimer]
<1>1. s \in PeerType
  BY DEF ValidBut
<1>2. /\ q \in PeerType
      /\ q.up = s.up /\ q.adj_out = s.adj_out /\ q.top_adv = s.top_adv
      /\ q.stamp = s.stamp /\ q.timer = s.timer
      /\ \/ q.newest = s.newest /\ q.listed = s.listed \ {t} /\ s.newest # t
         \/ q.newest = NoTimer /\ q.listed = {}
  BY <1>1, ListRemoveFields
<1>. HIDE DEF q
<1>3. /\ r \in PeerType
      /\ r.up = s.up /\ r.adj_out = s.adj_out /\ r.top_adv = s.top_adv
      /\ r.stamp = s.stamp /\ r.newest = q.newest /\ r.listed = q.listed
      /\ r.listed \subseteq s.listed \ {t}
      /\ r.timer = [s.timer EXCEPT ![t] = NoTimer]
  BY <1>2 DEF PeerType
<1>. HIDE DEF r
<1>4. s.timer \in [Tid -> Timer \cup {NoTimer}] /\ s.listed \subseteq Tid
  BY <1>1 DEF PeerType
<1>5. \A u \in Tid \ {t} : r.timer[u] = s.timer[u]
  BY <1>3, <1>4
<1>6. ListPending(r)
  BY <1>2, <1>3, <1>4, <1>5 DEF ValidBut, ListPending
<1>7. ListedInTime(r) /\ DownUnlisted(r) /\ Clean(r)
  BY <1>3, <1>4, <1>5 DEF ValidBut, ListedInTime, DownUnlisted, Clean
<1>8. \A p \in Prefix \ {s.timer[t].prefix} : HasThread(r, p)
  BY <1>3, <1>4, <1>5 DEF ValidBut, HasThread
<1>9. ValidBut(r, s.timer[t].prefix)
  BY <1>3, <1>6, <1>7, <1>8 DEF ValidBut
<1>. QED BY <1>3, <1>5, <1>9 DEF r, q

\* bgp_cancel_timer_by_prefix leaves no thread for p in the list
LEMMA CancelTimerValid ==
  ASSUME NEW s, NEW p \in Prefix, ValidBut(s, p)
  PROVE  LET r == CancelTimer(s, p) IN
         /\ ValidBut(r, p)
         /\ r.up = s.up /\ r.adj_out = s.adj_out /\ r.top_adv = s.top_adv
         /\ r.stamp = s.stamp
         /\ \A u \in r.listed : r.timer[u].prefix # p
<1>1. CASE ~HasListedTimer(s, p)
  BY <1>1 DEF CancelTimer, HasListedTimer
<1>2. CASE HasListedTimer(s, p)
  <2>. DEFINE t == CHOOSE u \in s.listed : s.timer[u].prefix = p
              r == [ListRemove(s, t) EXCEPT !.timer[t] = NoTimer]
  <2>1. t \in s.listed /\ s.timer[t].prefix = p
    BY <1>2 DEF HasListedTimer
  <2>2. CancelTimer(s, p) = r
    BY <1>2 DEF CancelTimer
  <2>. HIDE DEF t
  <2>3. t \in Tid /\ s.timer[t] # NoTimer /\ s.listed \subseteq Tid
    BY <2>1 DEF ValidBut, PeerType, ListPending
  <2>4. /\ ValidBut(r, p)
        /\ r.up = s.up /\ r.adj_out = s.adj_out /\ r.top_adv = s.top_adv
        /\ r.stamp = s.stamp /\ r.listed \subseteq s.listed \ {t}
        /\ \A u \in Tid \ {t} : r.timer[u] = s.timer[u]
    BY <2>1, <2>3, EndThread
  <2>. HIDE DEF r
  <2>5. \A u \in r.listed : r.timer[u].prefix # p
    BY <2>1, <2>3, <2>4 DEF ValidBut, ListPending
  <2>. QED BY <2>2, <2>4, <2>5
<1>. QED BY <1>1, <1>2

\* Freeing the suppressed advertisement for p
LEMMA ClearValid ==
  ASSUME NEW s, NEW p \in Prefix, ValidBut(s, p)
  PROVE  LET r == [s EXCEPT !.top_adv[p] = NoRoute] IN
         /\ Valid(r)
         /\ r.up = s.up /\ r.adj_out = s.adj_out
         /\ r.top_adv[p] = NoRoute
<1>. DEFINE r == [s EXCEPT !.top_adv[p] = NoRoute]
<1>1. s \in PeerType /\ s.top_adv \in [Prefix -> Told]
  BY DEF ValidBut, PeerType
<1>2. /\ r \in PeerType
      /\ r.up = s.up /\ r.adj_out = s.adj_out /\ r.stamp = s.stamp
      /\ r.timer = s.timer /\ r.listed = s.listed /\ r.newest = s.newest
      /\ r.top_adv = [s.top_adv EXCEPT ![p] = NoRoute]
  BY <1>1 DEF PeerType, Told
<1>. HIDE DEF r
<1>3. ListPending(r) /\ ListedInTime(r) /\ DownUnlisted(r)
  BY <1>2 DEF ValidBut, ListPending, ListedInTime, DownUnlisted
<1>4. Clean(r)
  BY <1>1, <1>2 DEF ValidBut, Clean
<1>5. \A q \in Prefix : HasThread(r, q)
  BY <1>1, <1>2 DEF ValidBut, HasThread
<1>6. Valid(r) /\ r.top_adv[p] = NoRoute
  BY <1>1, <1>2, <1>3, <1>4, <1>5 DEF Valid, InTime
<1>. QED BY <1>2, <1>6 DEF r

\* bgp_withdraw_send_check
LEMMA DropSuppressedValid ==
  ASSUME NEW s, NEW p \in Prefix, Valid(s)
  PROVE  LET r == DropSuppressed(s, p) IN
         /\ Valid(r)
         /\ r.up = s.up /\ r.adj_out = s.adj_out
         /\ r.top_adv[p] = NoRoute
<1>1. CASE s.top_adv[p] = NoRoute
  BY <1>1 DEF DropSuppressed
<1>2. CASE s.top_adv[p] # NoRoute
  <2>. DEFINE q == [s EXCEPT !.top_adv[p] = NoRoute]
              r == CancelTimer(q, p)
  <2>1. /\ Valid(q) /\ q.up = s.up /\ q.adj_out = s.adj_out
        /\ q.top_adv[p] = NoRoute
    BY ValidWeaken, ClearValid
  <2>. HIDE DEF q
  <2>2. /\ ValidBut(r, p) /\ r.up = q.up /\ r.adj_out = q.adj_out
        /\ r.top_adv = q.top_adv
    BY <2>1, ValidWeaken, CancelTimerValid
  <2>. HIDE DEF r
  <2>3. Valid(r)
    BY <2>1, <2>2, ValidStrengthen DEF HasThread
  <2>4. DropSuppressed(s, p) = r
    BY <1>2 DEF DropSuppressed, q, r
  <2>. QED BY <2>1, <2>2, <2>3, <2>4
<1>. QED BY <1>1, <1>2

\* Sending an update at once, with its timestamp, on a session that is up
LEMMA MarkSentValidBut ==
  ASSUME NEW s, NEW p \in Prefix, NEW a \in Attr, NEW o \in Prefix,
         ValidBut(s, o), s.up
  PROVE  LET r == MarkSent(s, p, a) IN
         ValidBut(r, o) /\ (HasThread(s, o) => HasThread(r, o))
<1>. DEFINE r == MarkSent(s, p, a)
<1>0. s \in PeerType
  BY DEF ValidBut
<1>1. /\ r \in PeerType
      /\ r.up = s.up /\ r.top_adv = s.top_adv
      /\ r.timer = s.timer /\ r.listed = s.listed /\ r.newest = s.newest
      /\ r.adj_out = [s.adj_out EXCEPT ![p] = a]
      /\ r.stamp = [s.stamp EXCEPT ![p] = Mrai]
  <2>1. /\ s.adj_out \in [Prefix -> Told] /\ s.stamp \in [Prefix -> 0..Mrai]
        /\ a \in Told /\ Mrai \in 0..Mrai
    BY <1>0 DEF PeerType, Told
  <2>2. /\ [s.adj_out EXCEPT ![p] = a] \in [Prefix -> Told]
        /\ [s.stamp EXCEPT ![p] = Mrai] \in [Prefix -> 0..Mrai]
    BY <2>1
  <2>. QED BY <1>0, <2>2 DEF MarkSent, PeerType
<1>. HIDE DEF r
<1>2. /\ s.stamp \in [Prefix -> 0..Mrai]
      /\ s.timer \in [Tid -> Timer \cup {NoTimer}]
      /\ s.listed \subseteq Tid
  BY <1>0 DEF PeerType
<1>3. \A q \in Prefix : s.stamp[q] <= r.stamp[q] /\ r.stamp[q] \in 0..Mrai
  BY <1>1, <1>2
<1>4. ListPending(r)
  BY <1>1 DEF ValidBut, ListPending
<1>5. DownUnlisted(r) /\ Clean(r)
  BY <1>1 DEF DownUnlisted, Clean
<1>6. \A t \in Tid : s.timer[t] # NoTimer =>
        s.timer[t].prefix \in Prefix /\ s.timer[t].left \in 0..Mrai
  BY <1>2 DEF Timer
<1>7. ListedInTime(r)
  BY <1>1, <1>2, <1>3, <1>6 DEF ValidBut, ListPending, ListedInTime
<1>8. \A q \in Prefix : HasThread(s, q) => HasThread(r, q)
  BY <1>1, <1>2, <1>3, <1>6 DEF HasThread
<1>9. ValidBut(r, o)
  BY <1>1, <1>4, <1>5, <1>7, <1>8 DEF ValidBut
<1>. QED BY <1>1, <1>8, <1>9 DEF r

LEMMA MarkSentValid ==
  ASSUME NEW s, NEW p \in Prefix, NEW a \in Attr, Valid(s), s.up
  PROVE  Valid(MarkSent(s, p, a))
<1>1. ValidBut(s, p) /\ HasThread(s, p)
  BY ValidWeaken DEF Valid, InTime
<1>2. ValidBut(MarkSent(s, p, a), p) /\ HasThread(MarkSent(s, p, a), p)
  BY <1>1, MarkSentValidBut
<1>. QED BY <1>2, ValidStrengthen

\* Arming the timer of p gives p a thread, the one in the list if there is one
LEMMA ArmTimerValid ==
  ASSUME NEW s, NEW p \in Prefix, ValidBut(s, p), s.up,
         HasListedTimer(s, p) \/ FreeTimers(s) # {}
  PROVE  LET r == ArmTimer(s, p) IN
         /\ Valid(r)
         /\ r.up = s.up /\ r.adj_out = s.adj_out /\ r.top_adv = s.top_adv
<1>1. CASE HasListedTimer(s, p)
  <2>1. PICK t \in s.listed : s.timer[t].prefix = p
    BY <1>1 DEF HasListedTimer
  <2>2. t \in Tid /\ s.timer[t] # NoTimer /\ s.timer[t].left <= s.stamp[p]
    BY <2>1 DEF ValidBut, PeerType, ListPending, ListedInTime
  <2>3. HasThread(s, p)
    BY <2>1, <2>2 DEF HasThread
  <2>. QED BY <1>1, <2>3, ValidStrengthen DEF ArmTimer
<1>2. CASE ~HasListedTimer(s, p)
  <2>. DEFINE t == CHOOSE u \in FreeTimers(s) : TRUE
              th == [prefix |-> p, left |-> s.stamp[p]]
              r == [s EXCEPT !.timer[t] = th,
                             !.listed = @ \cup {t},
                             !.newest = t]
  <2>1. t \in FreeTimers(s)
    BY <1>2
  <2>2. ArmTimer(s, p) = r
    BY <1>2 DEF ArmTimer
  <2>. HIDE DEF t
  <2>3. t \in Tid /\ s.timer[t] = NoTimer
    BY <2>1 DEF FreeTimers
  <2>4. /\ s \in PeerType
        /\ s.stamp \in [Prefix -> 0..Mrai]
        /\ s.timer \in [Tid -> Timer \cup {NoTimer}]
        /\ s.listed \subseteq Tid
    BY DEF ValidBut, PeerType
  <2>5. th \in Timer /\ th # NoTimer /\ th.prefix = p /\ th.left = s.stamp[p]
    BY <2>4 DEF Timer
  <2>. HIDE DEF th
  <2>6. /\ r \in PeerType
        /\ r.up = s.up /\ r.adj_out = s.adj_out /\ r.top_adv = s.top_adv
        /\ r.stamp = s.stamp
        /\ r.timer = [s.timer EXCEPT ![t] = th]
        /\ r.listed = s.listed \cup {t}
        /\ r.newest = t
    BY <2>3, <2>4, <2>5 DEF PeerType
  <2>. HIDE DEF r
  <2>7. r.timer[t] = th /\ \A u \in Tid \ {t} : r.timer[u] = s.timer[u]
    BY <2>3, <2>4, <2>6
  <2>8. t \notin s.listed /\ \A u \in s.listed : s.timer[u].prefix # p
    BY <1>2, <2>3 DEF ValidBut, ListPending, HasListedTimer
  <2>9. ListPending(r)
    BY <2>4, <2>5, <2>6, <2>7, <2>8 DEF ValidBut, ListPending
  <2>10. s.stamp[p] \in 0..Mrai
    BY <2>4
  <2>11. ListedInTime(r)
    BY <2>4, <2>5, <2>6, <2>7, <2>10 DEF ValidBut, ListedInTime
  <2>12. DownUnlisted(r) /\ Clean(r)
    BY <2>6 DEF DownUnlisted, Clean
  <2>13. \A q \in Prefix \ {p} : HasThread(r, q)
    BY <2>3, <2>6, <2>7 DEF ValidBut, HasThread
  <2>14. HasThread(r, p)
    BY <2>3, <2>5, <2>6, <2>7, <2>10 DEF HasThread
  <2>15. Valid(r)
    BY <2>6, <2>9, <2>11, <2>12, <2>13, <2>14 DEF Valid, InTime
  <2>. QED BY <2>2, <2>6, <2>15
<1>. QED BY <1>1, <1>2

\* The suppress branch of bgp_update_send_check
LEMMA SuppressValid ==
  ASSUME NEW s, NEW p \in Prefix, NEW a \in Attr, Valid(s), s.up,
         HasListedTimer(s, p) \/ FreeTimers(s) # {}
  PROVE  LET r == Suppress(s, p, a) IN
         /\ Valid(r)
         /\ r.up = s.up /\ r.adj_out = s.adj_out
         /\ r.top_adv = [s.top_adv EXCEPT ![p] = a]
<1>. DEFINE q == [s EXCEPT !.top_adv[p] = a]
<1>1. s \in PeerType
  BY DEF Valid
<1>2. /\ q \in PeerType
      /\ q.up = s.up /\ q.adj_out = s.adj_out /\ q.stamp = s.stamp
      /\ q.timer = s.timer /\ q.listed = s.listed /\ q.newest = s.newest
      /\ q.top_adv = [s.top_adv EXCEPT ![p] = a]
  BY <1>1 DEF PeerType, Told
<1>3. Suppress(s, p, a) = ArmTimer(q, p)
  BY DEF Suppress
<1>. HIDE DEF q
<1>4. s.top_adv \in [Prefix -> Told]
  BY <1>1 DEF PeerType
<1>5. ListPending(q) /\ ListedInTime(q) /\ DownUnlisted(q) /\ Clean(q)
  BY <1>2 DEF Valid, ListPending, ListedInTime, DownUnlisted, Clean
<1>6. \A o \in Prefix \ {p} : HasThread(q, o)
  BY <1>2, <1>4 DEF Valid, InTime, HasThread
<1>7. ValidBut(q, p)
  BY <1>2, <1>5, <1>6 DEF ValidBut
<1>8. HasListedTimer(q, p) \/ FreeTimers(q) # {}
  BY <1>2 DEF HasListedTimer, FreeTimers
<1>9. LET r == ArmTimer(q, p) IN
        Valid(r) /\ r.up = q.up /\ r.adj_out = q.adj_out /\ r.top_adv = q.top_adv
  BY <1>2, <1>7, <1>8, ArmTimerValid
<1>. QED BY <1>2, <1>3, <1>9

\* bgp_cancel_supressed_update_by_prefix
LEMMA CancelSuppressedValid ==
  ASSUME NEW s, NEW p \in Prefix, Valid(s)
  PROVE  LET r == CancelSuppressed(s, p) IN
         /\ Valid(r)
         /\ r.up = s.up /\ r.adj_out = s.adj_out
<1>. DEFINE c == [s EXCEPT !.top_adv[p] = NoRoute]
            q == CancelTimer(c, p)
            r == [q EXCEPT !.stamp[p] = 0]
<1>1. /\ Valid(c) /\ c.up = s.up /\ c.adj_out = s.adj_out
      /\ c.top_adv[p] = NoRoute
  BY ValidWeaken, ClearValid
<1>. HIDE DEF c
<1>2. /\ ValidBut(q, p) /\ q.up = c.up /\ q.adj_out = c.adj_out
      /\ q.top_adv = c.top_adv
      /\ \A u \in q.listed : q.timer[u].prefix # p
  BY <1>1, ValidWeaken, CancelTimerValid
<1>. HIDE DEF q
<1>3. q \in PeerType /\ q.stamp \in [Prefix -> 0..Mrai]
  BY <1>2 DEF ValidBut, PeerType
<1>4. /\ r \in PeerType
      /\ r.up = q.up /\ r.adj_out = q.adj_out /\ r.top_adv = q.top_adv
      /\ r.timer = q.timer /\ r.listed = q.listed /\ r.newest = q.newest
      /\ r.stamp = [q.stamp EXCEPT ![p] = 0]
  BY <1>3 DEF PeerType
<1>. HIDE DEF r
<1>5. ListPending(r) /\ DownUnlisted(r)
  BY <1>2, <1>4 DEF ValidBut, ListPending, DownUnlisted
<1>6. ListedInTime(r)
  <2>1. \A u \in q.listed : u \in Tid /\ q.timer[u] \in Timer
    BY <1>2 DEF ValidBut, PeerType, ListPending
  <2>2. \A u \in q.listed : r.stamp[q.timer[u].prefix] = q.stamp[q.timer[u].prefix]
    BY <1>2, <1>3, <1>4, <2>1 DEF Timer
  <2>. QED BY <1>2, <1>4, <2>2 DEF ValidBut, ListedInTime
<1>7. Clean(r)
  BY <1>2, <1>3, <1>4 DEF ValidBut, Clean
<1>8. \A o \in Prefix \ {p} : HasThread(r, o)
  BY <1>2, <1>3, <1>4 DEF ValidBut, HasThread
<1>9. HasThread(r, p)
  BY <1>1, <1>2, <1>4 DEF HasThread
<1>10. Valid(r)
  BY <1>4, <1>5, <1>6, <1>7, <1>8, <1>9 DEF Valid, InTime
<1>11. CancelSuppressed(s, p) = r
  BY DEF CancelSuppressed, c, q, r
<1>. QED BY <1>1, <1>2, <1>4, <1>10, <1>11

\* bgp_adj_unset
LEMMA AdjUnsetValid ==
  ASSUME NEW s, NEW p \in Prefix, Valid(s)
  PROVE  LET r == [s EXCEPT !.adj_out[p] = NoRoute] IN
         /\ Valid(r)
         /\ r.up = s.up /\ r.top_adv = s.top_adv
         /\ r.adj_out = [s.adj_out EXCEPT ![p] = NoRoute]
<1>. DEFINE r == [s EXCEPT !.adj_out[p] = NoRoute]
<1>1. s \in PeerType /\ s.adj_out \in [Prefix -> Told]
  BY DEF Valid, PeerType
<1>2. /\ r \in PeerType
      /\ r.up = s.up /\ r.top_adv = s.top_adv /\ r.stamp = s.stamp
      /\ r.timer = s.timer /\ r.listed = s.listed /\ r.newest = s.newest
      /\ r.adj_out = [s.adj_out EXCEPT ![p] = NoRoute]
  BY <1>1 DEF PeerType, Told
<1>. HIDE DEF r
<1>3. ListPending(r) /\ ListedInTime(r) /\ DownUnlisted(r)
  BY <1>2 DEF Valid, ListPending, ListedInTime, DownUnlisted
<1>4. InTime(r)
  BY <1>2 DEF Valid, InTime, HasThread
<1>5. Clean(r)
  BY <1>1, <1>2 DEF Valid, Clean
<1>6. Valid(r)
  BY <1>2, <1>3, <1>4, <1>5 DEF Valid
<1>. QED BY <1>2, <1>6 DEF r

\* Whatever bgp_process does about the session keeps it valid, and keeps the
\* Adj-RIB-Out equal to what the neighbour was told
LEMMA ProcessSessionValid ==
  ASSUME NEW s, NEW p \in Prefix, NEW a \in Told,
         Valid(s), s.adj_out = told, wanted \in [Prefix -> Told],
         ProcessSession(s, p, a)
  PROVE  /\ Valid(peer')
         /\ peer'.adj_out = told'
         /\ wanted' \in [Prefix -> Told]
         /\ peer'.up = s.up
<1>0. s \in PeerType /\ told \in [Prefix -> Told]
  BY DEF Valid, PeerType
<1>1. CASE ~s.up /\ peer' = s /\ UNCHANGED <<told, wanted>>
  BY <1>1
<1>2. CASE /\ a = NoRoute
           /\ peer' = [DropSuppressed(s, p) EXCEPT !.adj_out[p] = NoRoute]
           /\ told' = [told EXCEPT ![p] = IF s.adj_out[p] = NoRoute THEN @ ELSE NoRoute]
           /\ wanted' = [wanted EXCEPT ![p] = a]
  <2>. DEFINE d == DropSuppressed(s, p)
  <2>1. Valid(d) /\ d.up = s.up /\ d.adj_out = s.adj_out
    BY DropSuppressedValid
  <2>. HIDE DEF d
  <2>2. LET r == [d EXCEPT !.adj_out[p] = NoRoute] IN
        /\ Valid(r) /\ r.up = d.up
        /\ r.adj_out = [d.adj_out EXCEPT ![p] = NoRoute]
    BY <2>1, AdjUnsetValid
  <2>3. peer' = [d EXCEPT !.adj_out[p] = NoRoute]
    BY <1>2 DEF d
  <2>4. told' = [told EXCEPT ![p] = NoRoute]
    BY <1>0, <1>2
  <2>5. wanted' \in [Prefix -> Told]
    BY <1>2
  <2>. QED BY <2>1, <2>2, <2>3, <2>4, <2>5
<1>3. CASE /\ s.up /\ a # NoRoute
           /\ peer' = MarkSent(s, p, a)
           /\ told' = [told EXCEPT ![p] = a]
           /\ wanted' = [wanted EXCEPT ![p] = a]
  <2>1. a \in Attr
    BY <1>3 DEF Told
  <2>2. Valid(peer')
    BY <1>3, <2>1, MarkSentValid
  <2>3. peer'.up = s.up /\ peer'.adj_out = [s.adj_out EXCEPT ![p] = a]
    BY <1>0, <1>3 DEF MarkSent, PeerType
  <2>4. wanted' \in [Prefix -> Told]
    BY <1>3
  <2>. QED BY <1>3, <2>2, <2>3, <2>4
<1>4. CASE /\ s.up /\ a # NoRoute
           /\ HasListedTimer(s, p) \/ FreeTimers(s) # {}
           /\ peer' = Suppress(s, p, a)
           /\ wanted' = [wanted EXCEPT ![p] = a]
           /\ UNCHANGED told
  <2>1. a \in Attr
    BY <1>4 DEF Told
  <2>2. LET r == Suppress(s, p, a) IN
        Valid(r) /\ r.up = s.up /\ r.adj_out = s.adj_out
    BY <1>4, <2>1, SuppressValid
  <2>. QED BY <1>4, <2>2
<1>. QED BY <1>1, <1>2, <1>3, <1>4 DEF ProcessSession

LEMMA OutcomeType ==
  ASSUME TypeOK, NEW r \in Route \cup {NoRoute}
  PROVE  Outcome(r) \in Told
BY ExportAssumption DEF TypeOK, Outcome, Told

-----------------------------------------------------------------------------
\* Init establishes the invariant and every action keeps it.

LEMMA InitInv ==
  ASSUME Init
  PROVE  IInv
<1>1. /\ ~peer.up /\ peer.listed = {} /\ peer.newest = NoTimer
      /\ peer.adj_out = told
      /\ \A p \in Prefix : /\ peer.top_adv[p] = NoRoute
                           /\ peer.adj_out[p] = NoRoute
                           /\ peer.stamp[p] = 0
  BY DEF Init
<1>2. TypeOK
  <2>1. peer \in PeerType
    BY DEF Init, PeerType, Told
  <2>. QED BY <2>1 DEF Init, TypeOK, Told
<1>3. peer \in PeerType /\ walk = {}
  BY <1>2 DEF Init, TypeOK
<1>4. Valid(peer)
  BY <1>1, <1>3 DEF Valid, ListPending, ListedInTime, DownUnlisted, InTime,
     HasThread, Clean
<1>. QED BY <1>1, <1>2, <1>3, <1>4 DEF IInv

LEMMA ProcessInv ==
  ASSUME IInv, NEW p \in Prefix, NEW r \in Route \cup {NoRoute}, Process(p, r)
  PROVE  IInv'
<1>1. /\ Valid(peer) /\ peer.adj_out = told /\ wanted \in [Prefix -> Told]
      /\ Outcome(r) \in Told /\ sel \in [Prefix -> Route \cup {NoRoute}]
  BY OutcomeType DEF IInv, TypeOK
<1>2. ProcessSession(peer, p, Outcome(r))
  BY DEF Process
<1>3. /\ Valid(peer') /\ peer'.adj_out = told' /\ wanted' \in [Prefix -> Told]
  BY <1>1, <1>2, ProcessSessionValid
<1>4. sel' \in [Prefix -> Route \cup {NoRoute}] /\ walk = {}
      /\ UNCHANGED <<policy, walk>>
  BY <1>1 DEF Process
<1>5. peer' \in PeerType /\ told' \in [Prefix -> Told]
  BY <1>3 DEF Valid, PeerType
<1>. QED BY <1>3, <1>4, <1>5 DEF IInv, TypeOK

LEMMA NetworkCommandInv ==
  ASSUME IInv, NEW p \in Prefix, NEW r \in Route, NetworkCommand(p, r)
  PROVE  IInv'
<1>. DEFINE c == CancelSuppressed(peer, p)
<1>1. /\ Valid(peer) /\ peer.adj_out = told /\ wanted \in [Prefix -> Told]
      /\ told \in [Prefix -> Told]
      /\ Outcome(r) \in Told /\ sel \in [Prefix -> Route \cup {NoRoute}]
  BY OutcomeType DEF IInv, TypeOK
<1>2. Valid(c) /\ c.adj_out = told
  BY <1>1, CancelSuppressedValid
<1>. HIDE DEF c
<1>3. ProcessSession(c, p, Outcome(r)) =>
        Valid(peer') /\ peer'.adj_out = told' /\ wanted' \in [Prefix -> Told]
  BY <1>1, <1>2, ProcessSessionValid
<1>4. peer' = c /\ UNCHANGED <<told, wanted>> =>
        Valid(peer') /\ peer'.adj_out = told' /\ wanted' \in [Prefix -> Told]
  BY <1>1, <1>2
<1>5. Valid(peer') /\ peer'.adj_out = told' /\ wanted' \in [Prefix -> Told]
  BY <1>3, <1>4 DEF NetworkCommand, c
<1>6. sel' \in [Prefix -> Route \cup {NoRoute}] /\ walk = {}
      /\ UNCHANGED <<policy, walk>>
  BY <1>1 DEF NetworkCommand
<1>7. peer' \in PeerType /\ told' \in [Prefix -> Told]
  BY <1>5 DEF Valid, PeerType
<1>. QED BY <1>5, <1>6, <1>7 DEF IInv, TypeOK

LEMMA RouteadvTimerInv ==
  ASSUME IInv, NEW t \in Tid, RouteadvTimer(t)
  PROVE  IInv'
<1>. DEFINE p == peer.timer[t].prefix
            a == peer.top_adv[p]
            s == [ListRemove(peer, t) EXCEPT !.timer[t] = NoTimer]
            m == MarkSent(s, p, a)
<1>1. /\ Valid(peer) /\ peer \in PeerType /\ peer.adj_out = told
      /\ told \in [Prefix -> Told] /\ peer.timer[t] # NoTimer /\ walk = {}
  BY DEF IInv, TypeOK, RouteadvTimer
<1>2. p \in Prefix /\ a \in Told
  BY <1>1 DEF PeerType, Timer
<1>. HIDE DEF p
<1>3. ValidBut(peer, p)
  BY <1>1, <1>2, ValidWeaken
<1>4. /\ ValidBut(s, p) /\ s.up = peer.up /\ s.adj_out = peer.adj_out
      /\ s.top_adv = peer.top_adv
  BY <1>1, <1>3, EndThread DEF p
<1>5. RouteadvTimer(t) =>
        \/ a = NoRoute /\ peer' = s /\ UNCHANGED told
        \/ /\ a # NoRoute
           /\ peer' = [m EXCEPT !.top_adv[p] = NoRoute]
           /\ told' = [told EXCEPT ![p] = a]
  BY DEF RouteadvTimer, p
<1>. HIDE DEF s
<1>6. ASSUME a = NoRoute, peer' = s, UNCHANGED told
      PROVE  Valid(peer') /\ peer'.adj_out = told'
  <2>1. HasThread(s, p)
    BY <1>4, <1>6 DEF HasThread
  <2>2. Valid(s)
    BY <1>2, <1>4, <2>1, ValidStrengthen
  <2>. QED BY <1>1, <1>4, <1>6, <2>2
<1>7. ASSUME a # NoRoute,
             peer' = [m EXCEPT !.top_adv[p] = NoRoute],
             told' = [told EXCEPT ![p] = a]
      PROVE  Valid(peer') /\ peer'.adj_out = told'
  <2>1. a \in Attr /\ s.up
    BY <1>1, <1>2, <1>4, <1>7 DEF Valid, Clean, Told
  <2>2. ValidBut(m, p)
    BY <1>2, <1>4, <2>1, MarkSentValidBut
  <2>3. m.adj_out = [s.adj_out EXCEPT ![p] = a]
    BY <1>4 DEF ValidBut, PeerType, MarkSent
  <2>. HIDE DEF m
  <2>4. Valid(peer') /\ peer'.adj_out = m.adj_out
    BY <1>2, <1>7, <2>2, ClearValid
  <2>. QED BY <1>1, <1>4, <1>7, <2>3, <2>4
<1>8. Valid(peer') /\ peer'.adj_out = told'
  BY <1>5, <1>6, <1>7
<1>9. peer' \in PeerType /\ told' \in [Prefix -> Told]
  BY <1>8 DEF Valid, PeerType
<1>10. UNCHANGED <<sel, policy, wanted, walk>>
  BY DEF RouteadvTimer
<1>. QED BY <1>1, <1>8, <1>9, <1>10 DEF IInv, TypeOK

LEMMA RefreshPrefixInv ==
  ASSUME IInv, NEW p \in Prefix, RefreshPrefix(p)
  PROVE  IInv'
<1>. DEFINE a == Outcome(sel[p])
            m == MarkSent(peer, p, a)
<1>1. /\ Valid(peer) /\ peer \in PeerType /\ peer.adj_out = told
      /\ told \in [Prefix -> Told] /\ wanted \in [Prefix -> Told]
      /\ a \in Told /\ peer.up
  BY OutcomeType DEF IInv, TypeOK, RefreshPrefix
<1>2. \/ UNCHANGED <<peer, told, wanted>>
      \/ /\ a # NoRoute /\ peer' = m
         /\ told' = [told EXCEPT ![p] = a]
         /\ wanted' = [wanted EXCEPT ![p] = a]
      \/ ProcessSession(peer, p, a)
  BY DEF RefreshPrefix
<1>3. ASSUME a # NoRoute, peer' = m,
             told' = [told EXCEPT ![p] = a], wanted' = [wanted EXCEPT ![p] = a]
      PROVE  /\ Valid(peer') /\ peer'.adj_out = told' /\ peer'.up = peer.up
             /\ wanted' \in [Prefix -> Told]
  <2>1. a \in Attr
    BY <1>1, <1>3 DEF Told
  <2>2. Valid(m)
    BY <1>1, <2>1, MarkSentValid
  <2>3. m.adj_out = [peer.adj_out EXCEPT ![p] = a] /\ m.up = peer.up
    BY <1>1 DEF MarkSent, PeerType
  <2>4. wanted' \in [Prefix -> Told]
    BY <1>1, <1>3
  <2>. QED BY <1>1, <1>3, <2>2, <2>3, <2>4
<1>4. ASSUME ProcessSession(peer, p, a)
      PROVE  /\ Valid(peer') /\ peer'.adj_out = told' /\ peer'.up = peer.up
             /\ wanted' \in [Prefix -> Told]
  BY <1>1, <1>4, ProcessSessionValid
<1>5. /\ Valid(peer') /\ peer'.adj_out = told' /\ peer'.up = peer.up
      /\ wanted' \in [Prefix -> Told]
  BY <1>1, <1>2, <1>3, <1>4
<1>6. peer' \in PeerType /\ told' \in [Prefix -> Told]
  BY <1>5 DEF Valid, PeerType
<1>7. UNCHANGED <<sel, policy>> /\ walk' \subseteq walk
  BY DEF RefreshPrefix
<1>. QED BY <1>1, <1>5, <1>6, <1>7 DEF IInv, TypeOK

LEMMA EstablishInv ==
  ASSUME IInv, Establish
  PROVE  IInv'
<1>. DEFINE view == [p \in Prefix |-> Outcome(sel[p])]
            stamps == [p \in Prefix |-> IF view[p] = NoRoute THEN 0 ELSE Mrai]
<1>1. /\ Valid(peer) /\ peer \in PeerType /\ ~peer.up
      /\ TypeOK /\ walk = {}
      /\ sel \in [Prefix -> Route \cup {NoRoute}]
  BY DEF IInv, TypeOK, Establish
<1>2. view \in [Prefix -> Told]
  BY <1>1, OutcomeType
<1>3. stamps \in [Prefix -> 0..Mrai]
  OBVIOUS
<1>4. /\ peer' = [peer EXCEPT !.up = TRUE, !.adj_out = view, !.stamp = stamps]
      /\ told' = view /\ wanted' = view
      /\ UNCHANGED <<sel, policy, walk>>
  BY DEF Establish
<1>. HIDE DEF view, stamps
<1>5. /\ peer' \in PeerType
      /\ peer'.up /\ peer'.adj_out = view /\ peer'.top_adv = peer.top_adv
      /\ peer'.timer = peer.timer /\ peer'.listed = peer.listed
      /\ peer'.newest = peer.newest
  BY <1>1, <1>2, <1>3, <1>4 DEF PeerType
<1>6. peer'.listed = {} /\ \A p \in Prefix : peer'.top_adv[p] = NoRoute
  BY <1>1, <1>5 DEF Valid, DownUnlisted, Clean
<1>7. /\ ListPending(peer') /\ ListedInTime(peer') /\ DownUnlisted(peer')
      /\ InTime(peer') /\ Clean(peer')
  BY <1>1, <1>5, <1>6 DEF Valid, ListPending, ListedInTime, DownUnlisted, InTime,
     HasThread, Clean
<1>8. Valid(peer')
  BY <1>5, <1>7 DEF Valid
<1>. QED BY <1>1, <1>2, <1>4, <1>5, <1>8 DEF IInv, TypeOK

LEMMA StopInv ==
  ASSUME IInv, Stop
  PROVE  IInv'
<1>. DEFINE none == [p \in Prefix |-> NoRoute]
            zero == [p \in Prefix |-> 0]
            left == [t \in Tid |-> IF t \in peer.listed THEN NoTimer
                                   ELSE peer.timer[t]]
<1>1. Valid(peer) /\ peer \in PeerType /\ TypeOK /\ walk = {}
  BY DEF IInv, TypeOK, Stop
<1>2. /\ none \in [Prefix -> Told] /\ zero \in [Prefix -> 0..Mrai]
      /\ left \in [Tid -> Timer \cup {NoTimer}]
  BY <1>1 DEF PeerType, Told
<1>3. /\ peer'.up = FALSE /\ peer'.adj_out = none /\ peer'.top_adv = none
      /\ peer'.stamp = zero /\ peer'.timer = left
      /\ peer'.listed = {} /\ peer'.newest = NoTimer
      /\ peer' \in PeerType
  BY <1>1, <1>2 DEF Stop, Idle, PeerType
<1>4. told' = none /\ wanted' = none /\ UNCHANGED <<sel, policy, walk>>
  BY DEF Stop
<1>5. /\ ListPending(peer') /\ ListedInTime(peer') /\ DownUnlisted(peer')
      /\ InTime(peer') /\ Clean(peer')
  BY <1>3 DEF ListPending, ListedInTime, DownUnlisted, InTime, HasThread, Clean
<1>6. Valid(peer')
  BY <1>3, <1>5 DEF Valid
<1>. QED BY <1>1, <1>2, <1>3, <1>4, <1>6 DEF IInv, TypeOK

LEMMA TickInv ==
  ASSUME IInv, Tick
  PROVE  IInv'
<1>. DEFINE stamps == [p \in Prefix |-> Less(peer.stamp[p])]
            timers == [t \in Tid |->
                         IF peer.timer[t] = NoTimer THEN NoTimer
                         ELSE [prefix |-> peer.timer[t].prefix,
                               left |-> Less(peer.timer[t].left)]]
<1>1. /\ Valid(peer) /\ peer \in PeerType /\ TypeOK /\ walk = {}
      /\ peer.adj_out = told
  BY DEF IInv, TypeOK, Tick
<1>2. /\ peer.stamp \in [Prefix -> 0..Mrai]
      /\ \A t \in Tid : peer.timer[t] # NoTimer =>
            peer.timer[t].prefix \in Prefix /\ peer.timer[t].left \in 0..Mrai
  BY <1>1 DEF PeerType, Timer
<1>3. /\ \A n \in 0..Mrai : Less(n) \in 0..Mrai
      /\ \A n, m \in 0..Mrai : m <= n => Less(m) <= Less(n)
  BY DEF Less
<1>4. \A t \in Tid : peer.timer[t] # NoTimer =>
        /\ timers[t] \in Timer
        /\ timers[t].prefix = peer.timer[t].prefix
        /\ timers[t].left = Less(peer.timer[t].left)
        /\ timers[t] # NoTimer
  BY <1>2, <1>3 DEF Timer
<1>5. \A t \in Tid : peer.timer[t] = NoTimer => timers[t] = NoTimer
  OBVIOUS
<1>6. /\ stamps \in [Prefix -> 0..Mrai]
      /\ timers \in [Tid -> Timer \cup {NoTimer}]
      /\ \A p \in Prefix : stamps[p] = Less(peer.stamp[p])
  BY <1>2, <1>3, <1>4, <1>5
<1>7. /\ peer' = [peer EXCEPT !.stamp = stamps, !.timer = timers]
      /\ UNCHANGED <<sel, policy, told, wanted, walk>>
  BY DEF Tick
<1>. HIDE DEF stamps, timers
<1>8. /\ peer' \in PeerType
      /\ peer'.up = peer.up /\ peer'.adj_out = peer.adj_out
      /\ peer'.top_adv = peer.top_adv /\ peer'.stamp = stamps
      /\ peer'.timer = timers /\ peer'.listed = peer.listed
      /\ peer'.newest = peer.newest
  BY <1>1, <1>6, <1>7 DEF PeerType
<1>9. peer.listed \subseteq Tid
  BY <1>1 DEF PeerType
<1>10. ListPending(peer') /\ DownUnlisted(peer')
  BY <1>1, <1>4, <1>8, <1>9 DEF Valid, ListPending, DownUnlisted
<1>11. ListedInTime(peer')
  BY <1>1, <1>2, <1>3, <1>4, <1>6, <1>8, <1>9 DEF Valid, ListPending, ListedInTime
<1>12. ASSUME NEW p \in Prefix
       PROVE  HasThread(peer', p)
  <2>1. HasThread(peer, p)
    BY <1>1 DEF Valid, InTime
  <2>. QED BY <1>2, <1>3, <1>4, <1>6, <1>8, <2>1 DEF HasThread
<1>13. Clean(peer')
  BY <1>1, <1>6, <1>8 DEF Valid, Clean, Less
<1>14. Valid(peer')
  BY <1>8, <1>10, <1>11, <1>12, <1>13 DEF Valid, InTime
<1>. QED BY <1>1, <1>7, <1>8, <1>14 DEF IInv, TypeOK

LEMMA NextInv ==
  ASSUME IInv, [Next]_vars
  PROVE  IInv'
<1>1. ASSUME NEW p \in Prefix, NEW r \in Route \cup {NoRoute}, Process(p, r)
      PROVE  IInv'
  BY <1>1, ProcessInv
<1>2. ASSUME NEW p \in Prefix, NEW r \in Route, NetworkCommand(p, r)
      PROVE  IInv'
  BY <1>2, NetworkCommandInv
<1>3. ASSUME NEW t \in Tid, RouteadvTimer(t)
      PROVE  IInv'
  BY <1>3, RouteadvTimerInv
<1>4. ASSUME NEW c \in Policy, SetPolicy(c)
      PROVE  IInv'
  BY <1>4 DEF SetPolicy, IInv, TypeOK
<1>5. ASSUME Refresh
      PROVE  IInv'
  BY <1>5 DEF Refresh, IInv, TypeOK
<1>6. ASSUME NEW p \in Prefix, RefreshPrefix(p)
      PROVE  IInv'
  BY <1>6, RefreshPrefixInv
<1>7. CASE Establish
  BY <1>7, EstablishInv
<1>8. CASE Stop
  BY <1>8, StopInv
<1>9. CASE Tick
  BY <1>9, TickInv
<1>10. CASE UNCHANGED vars
  BY <1>10 DEF vars, IInv, TypeOK
<1>. QED
  BY <1>1, <1>2, <1>3, <1>4, <1>5, <1>6, <1>7, <1>8, <1>9, <1>10 DEF Next

-----------------------------------------------------------------------------
\* The results.

\* The inductive invariant holds in every reachable state.
THEOREM InductiveInvariant == Spec => []IInv
<1>1. Init => IInv
  BY InitInv
<1>2. IInv /\ [Next]_vars => IInv'
  BY NextInv
<1>. QED BY <1>1, <1>2, PTL DEF Spec

\* Every variable keeps its type, whatever the number of prefixes and threads.
THEOREM TypeCorrect == Spec => []TypeOK
<1>1. IInv => TypeOK
  BY DEF IInv
<1>. QED BY <1>1, InductiveInvariant, PTL

\* No suppressed update is stranded or late, for any interval: a pending thread
\* releases it by the end of the interval of its prefix.
THEOREM NoUpdateStranded == Spec => []ReleasedInTime
<1>1. IInv => ReleasedInTime
  BY DEF IInv, Valid, ReleasedInTime
<1>. QED BY <1>1, InductiveInvariant, PTL

\* t_routeadv_list never holds a thread that has run or was freed, and never two
\* threads for a prefix.
THEOREM ListNeverDangles == Spec => []ListIsPending
<1>1. IInv => ListIsPending
  BY DEF IInv, Valid, ListIsPending
<1>. QED BY <1>1, InductiveInvariant, PTL

\* The Adj-RIB-Out is what the neighbour was told.
THEOREM AdjOutExact == Spec => []AdjOutIsTold
<1>1. IInv => AdjOutIsTold
  BY DEF IInv, AdjOutIsTold
<1>. QED BY <1>1, InductiveInvariant, PTL

\* Nothing of a session survives in the peer structure when it goes down, save
\* the threads that the list has lost.
THEOREM StopCleans == Spec => []DownIsClean
<1>1. IInv => DownIsClean
  BY DEF IInv, Valid, DownIsClean
<1>. QED BY <1>1, InductiveInvariant, PTL

-----------------------------------------------------------------------------
(***************************************************************************)
(* What a step of MraiPrefix does to what an outside observer of the       *)
(* session sees: whether it is up, what the neighbour was told, what the   *)
(* decision process wants it told, and what is suppressed.  One lemma for  *)
(* each action says so; from them follow that the session implements       *)
(* Outbound, the two action properties about overtaken updates, and that   *)
(* nothing is ever held back when the interval is zero.                    *)
(***************************************************************************)

Top == peer.top_adv

LEMMA ViewType ==
  ASSUME IInv
  PROVE  /\ Valid(peer) /\ peer \in PeerType /\ peer.adj_out = told
         /\ told \in [Prefix -> Told] /\ wanted \in [Prefix -> Told]
         /\ Top \in [Prefix -> Told] /\ peer.stamp \in [Prefix -> 0..Mrai]
         /\ sel \in [Prefix -> Route \cup {NoRoute}]
         /\ peer.up \in BOOLEAN
BY DEF IInv, TypeOK, PeerType, Top

-----------------------------------------------------------------------------
\* What the operators on sessions do to the suppressed updates.

LEMMA DropSuppressedTop ==
  ASSUME NEW s, NEW p \in Prefix, Valid(s)
  PROVE  DropSuppressed(s, p).top_adv = [s.top_adv EXCEPT ![p] = NoRoute]
<1>. DEFINE c == [s EXCEPT !.top_adv[p] = NoRoute]
<1>1. s \in PeerType /\ s.top_adv \in [Prefix -> Told]
  BY DEF Valid, PeerType
<1>2. CASE s.top_adv[p] = NoRoute
  BY <1>1, <1>2 DEF DropSuppressed
<1>3. CASE s.top_adv[p] # NoRoute
  <2>1. ValidBut(c, p) /\ c.top_adv = [s.top_adv EXCEPT ![p] = NoRoute]
    BY <1>1, ValidWeaken, ClearValid DEF PeerType
  <2>. HIDE DEF c
  <2>2. CancelTimer(c, p).top_adv = c.top_adv
    BY <2>1, CancelTimerValid
  <2>. QED BY <1>3, <2>1, <2>2 DEF DropSuppressed, c
<1>. QED BY <1>2, <1>3

LEMMA CancelSuppressedTop ==
  ASSUME NEW s, NEW p \in Prefix, Valid(s)
  PROVE  CancelSuppressed(s, p).top_adv = [s.top_adv EXCEPT ![p] = NoRoute]
<1>. DEFINE c == [s EXCEPT !.top_adv[p] = NoRoute]
            q == CancelTimer(c, p)
<1>1. s \in PeerType
  BY DEF Valid
<1>2. ValidBut(c, p) /\ c.top_adv = [s.top_adv EXCEPT ![p] = NoRoute]
  BY <1>1, ValidWeaken, ClearValid DEF PeerType
<1>. HIDE DEF c
<1>3. q \in PeerType /\ q.top_adv = c.top_adv
  BY <1>2, CancelTimerValid DEF ValidBut
<1>. HIDE DEF q
<1>4. [q EXCEPT !.stamp[p] = 0].top_adv = q.top_adv
  BY <1>3 DEF PeerType
<1>. QED BY <1>2, <1>3, <1>4 DEF CancelSuppressed, c, q

\* bgp_process withdraws, sends or suppresses; only a stamped prefix is
\* suppressed
LEMMA ProcessSessionEffect ==
  ASSUME NEW s, NEW p \in Prefix, NEW a \in Told,
         Valid(s), s.adj_out = told, wanted \in [Prefix -> Told],
         ProcessSession(s, p, a)
  PROVE  \/ ~s.up /\ peer' = s /\ UNCHANGED <<told, wanted>>
         \/ /\ s.up /\ peer'.up = s.up
            /\ wanted' = [wanted EXCEPT ![p] = a]
            /\ \/ /\ a = NoRoute
                  /\ told' = [told EXCEPT ![p] = a]
                  /\ Top' = [s.top_adv EXCEPT ![p] = a]
               \/ /\ a \in Attr /\ s.stamp[p] = 0
                  /\ told' = [told EXCEPT ![p] = a]
                  /\ Top' = s.top_adv
               \/ /\ a \in Attr /\ s.stamp[p] > 0
                  /\ told' = told
                  /\ Top' = [s.top_adv EXCEPT ![p] = a]
<1>0. s \in PeerType /\ told \in [Prefix -> Told] /\ peer'.up = s.up
  BY ProcessSessionValid DEF Valid, PeerType
<1>1. CASE ~s.up /\ peer' = s /\ UNCHANGED <<told, wanted>>
  BY <1>1
<1>2. CASE /\ s.up /\ a = NoRoute
           /\ peer' = [DropSuppressed(s, p) EXCEPT !.adj_out[p] = NoRoute]
           /\ told' = [told EXCEPT ![p] = IF s.adj_out[p] = NoRoute THEN @ ELSE NoRoute]
           /\ wanted' = [wanted EXCEPT ![p] = a]
  <2>1. Valid(DropSuppressed(s, p))
        /\ DropSuppressed(s, p).top_adv = [s.top_adv EXCEPT ![p] = NoRoute]
    BY DropSuppressedValid, DropSuppressedTop
  <2>2. Top' = DropSuppressed(s, p).top_adv
    BY <1>2, <2>1, AdjUnsetValid DEF Top
  <2>3. told' = [told EXCEPT ![p] = NoRoute]
    BY <1>0, <1>2
  <2>. QED BY <1>0, <1>2, <2>1, <2>2, <2>3
<1>3. CASE /\ s.up /\ a # NoRoute /\ s.stamp[p] = 0
           /\ peer' = MarkSent(s, p, a)
           /\ told' = [told EXCEPT ![p] = a]
           /\ wanted' = [wanted EXCEPT ![p] = a]
  BY <1>0, <1>3 DEF MarkSent, PeerType, Top, Told
<1>4. CASE /\ s.up /\ a # NoRoute /\ s.stamp[p] > 0
           /\ HasListedTimer(s, p) \/ FreeTimers(s) # {}
           /\ peer' = Suppress(s, p, a)
           /\ wanted' = [wanted EXCEPT ![p] = a]
           /\ UNCHANGED told
  <2>1. a \in Attr
    BY <1>4 DEF Told
  <2>2. Suppress(s, p, a).top_adv = [s.top_adv EXCEPT ![p] = a]
    BY <1>4, <2>1, SuppressValid
  <2>. QED BY <1>0, <1>4, <2>1, <2>2 DEF Top
<1>. QED BY <1>1, <1>2, <1>3, <1>4 DEF ProcessSession

-----------------------------------------------------------------------------
\* What an outside observer sees of a step.

Seen == <<peer.up, told, wanted, Top>>

Clear(p) == [Top EXCEPT ![p] = NoRoute]

Nothing == [p \in Prefix |-> NoRoute]

\* bgp_process, bgp_static_set or bgp_refresh_rib decides a for p
Decided(p, a) ==
  /\ peer.up /\ peer'.up
  /\ wanted' = [wanted EXCEPT ![p] = a]
  /\ \/ /\ told' = [told EXCEPT ![p] = a]
        /\ Top' = Clear(p)
     \/ /\ a \in Attr
        /\ peer.stamp[p] = 0 \/ p \in walk
        /\ told' = [told EXCEPT ![p] = a]
        /\ Top' = Top
     \/ /\ a \in Attr
        /\ Mrai > 0
        /\ told' = told
        /\ Top' = [Top EXCEPT ![p] = a]

\* a timer sends what is suppressed for p
Released(p) ==
  /\ peer.up /\ peer'.up
  /\ Top[p] # NoRoute
  /\ \E t \in Tid : RouteadvTimer(t)
  /\ told' = [told EXCEPT ![p] = Top[p]]
  /\ Top' = Clear(p)
  /\ wanted' = wanted

\* the command `network p' keeps the route and drops what is suppressed
Forgotten(p) ==
  /\ peer.up /\ peer'.up
  /\ NetworkCommand(p, sel[p])
  /\ Top' = Clear(p)
  /\ UNCHANGED <<told, wanted>>

Opened ==
  /\ ~peer.up /\ peer'.up
  /\ told' \in [Prefix -> Told] /\ wanted' = told'
  /\ Top = Nothing /\ Top' = Nothing

Closed ==
  /\ peer.up /\ ~peer'.up
  /\ told' = Nothing /\ wanted' = Nothing /\ Top' = Nothing

Effect ==
  \/ UNCHANGED Seen
  \/ \E p \in Prefix, a \in Told : Decided(p, a)
  \/ \E p \in Prefix : Released(p) \/ Forgotten(p)
  \/ Opened
  \/ Closed

LEMMA ProcessEffect ==
  ASSUME IInv, NEW p \in Prefix, NEW r \in Route \cup {NoRoute}, Process(p, r)
  PROVE  Effect
<1>. DEFINE a == Outcome(r)
<1>1. a \in Told
  BY OutcomeType DEF IInv
<1>2. ProcessSession(peer, p, a)
  BY DEF Process
<1>. HIDE DEF a
<1>3. UNCHANGED Seen \/ Decided(p, a)
  <2>1. peer.stamp[p] > 0 => Mrai > 0
    BY ViewType
  <2>. QED BY <1>1, <1>2, <2>1, ViewType, ProcessSessionEffect
           DEF Decided, Clear, Seen, Top
<1>. QED BY <1>1, <1>3 DEF Effect

LEMMA NetworkCommandEffect ==
  ASSUME IInv, NEW p \in Prefix, NEW r \in Route, NetworkCommand(p, r)
  PROVE  Effect
<1>. DEFINE c == CancelSuppressed(peer, p)
            a == Outcome(r)
<1>1. a \in Told
  BY OutcomeType DEF IInv
<1>2. /\ Valid(c) /\ c.up = peer.up /\ c.adj_out = told
      /\ c.top_adv = Clear(p)
  BY ViewType, CancelSuppressedValid, CancelSuppressedTop DEF Clear, Top
<1>3. \/ ProcessSession(c, p, a)
      \/ r = sel[p] /\ peer' = c /\ UNCHANGED <<told, wanted>>
  BY DEF NetworkCommand
<1>. HIDE DEF a, c
<1>4. ~peer.up => Clear(p) = Top
  BY ViewType DEF Valid, Clean, Clear, Top
<1>5. CASE ProcessSession(c, p, a)
  <2>1. c.stamp[p] > 0 => Mrai > 0
    BY <1>2 DEF Valid, PeerType
  <2>2. /\ [Clear(p) EXCEPT ![p] = NoRoute] = Clear(p)
        /\ [Clear(p) EXCEPT ![p] = a] = [Top EXCEPT ![p] = a]
    BY ViewType DEF Clear
  <2>3. UNCHANGED Seen \/ Decided(p, a)
    BY <1>1, <1>2, <1>4, <1>5, <2>1, <2>2, ViewType, ProcessSessionEffect
       DEF Decided, Seen, Top
  <2>. QED BY <1>1, <2>3 DEF Effect
<1>6. CASE r = sel[p] /\ peer' = c /\ UNCHANGED <<told, wanted>>
  <2>1. UNCHANGED Seen \/ Forgotten(p)
    BY <1>2, <1>4, <1>6, ViewType DEF Forgotten, Seen, Top
  <2>. QED BY <2>1 DEF Effect
<1>. QED BY <1>3, <1>5, <1>6

LEMMA RouteadvTimerEffect ==
  ASSUME IInv, NEW t \in Tid, RouteadvTimer(t)
  PROVE  Effect
<1>. DEFINE p == peer.timer[t].prefix
            a == Top[p]
            s == [ListRemove(peer, t) EXCEPT !.timer[t] = NoTimer]
            m == MarkSent(s, p, a)
<1>1. p \in Prefix /\ peer.timer[t] # NoTimer
  BY ViewType DEF PeerType, Timer, RouteadvTimer
<1>2. \/ a = NoRoute /\ peer' = s /\ UNCHANGED told
      \/ /\ a # NoRoute
         /\ peer' = [m EXCEPT !.top_adv[p] = NoRoute]
         /\ told' = [told EXCEPT ![p] = a]
  BY DEF RouteadvTimer, Top
<1>3. wanted' = wanted
  BY DEF RouteadvTimer
<1>4. s \in PeerType /\ s.up = peer.up /\ s.top_adv = Top
  <2>1. ValidBut(peer, p)
    BY <1>1, ViewType, ValidWeaken
  <2>2. ValidBut(s, p) /\ s.up = peer.up /\ s.top_adv = peer.top_adv
    BY <1>1, <2>1, EndThread
  <2>. QED BY <2>2 DEF ValidBut, Top
<1>. HIDE DEF s
<1>5. CASE a = NoRoute
  <2>1. UNCHANGED Seen
    BY <1>2, <1>3, <1>4, <1>5 DEF Seen, Top
  <2>. QED BY <2>1 DEF Effect
<1>6. CASE a # NoRoute
  <2>1. m.top_adv = s.top_adv /\ m.up = s.up
        /\ [m EXCEPT !.top_adv[p] = NoRoute].top_adv = [m.top_adv EXCEPT ![p] = NoRoute]
        /\ [m EXCEPT !.top_adv[p] = NoRoute].up = m.up
    BY <1>4 DEF MarkSent, PeerType
  <2>. HIDE DEF m
  <2>2. Top' = Clear(p) /\ peer'.up = peer.up
    BY <1>2, <1>4, <1>6, <2>1 DEF Top, Clear
  <2>3. peer.up
    BY <1>1, <1>6, ViewType DEF Valid, Clean, Top
  <2>4. Released(p)
    BY <1>2, <1>3, <1>6, <2>2, <2>3 DEF Released
  <2>. QED BY <1>1, <2>4 DEF Effect
<1>. QED BY <1>5, <1>6

LEMMA RefreshPrefixEffect ==
  ASSUME IInv, NEW p \in Prefix, RefreshPrefix(p)
  PROVE  Effect
<1>. DEFINE a == Outcome(sel[p])
            m == MarkSent(peer, p, a)
<1>1. a \in Told /\ peer.up /\ p \in walk
  BY OutcomeType, ViewType DEF IInv, RefreshPrefix
<1>2. \/ UNCHANGED <<peer, told, wanted>>
      \/ /\ a # NoRoute /\ peer' = m
         /\ told' = [told EXCEPT ![p] = a]
         /\ wanted' = [wanted EXCEPT ![p] = a]
      \/ a = NoRoute /\ ProcessSession(peer, p, a)
  BY DEF RefreshPrefix
<1>3. m.up = peer.up /\ m.top_adv = Top
  BY ViewType DEF MarkSent, PeerType, Top
<1>. HIDE DEF a, m
<1>4. CASE UNCHANGED <<peer, told, wanted>>
  BY <1>4 DEF Seen, Top, Effect
<1>5. CASE /\ a # NoRoute /\ peer' = m
           /\ told' = [told EXCEPT ![p] = a]
           /\ wanted' = [wanted EXCEPT ![p] = a]
  <2>1. a \in Attr
    BY <1>1, <1>5 DEF Told
  <2>2. peer'.up /\ Top' = Top
    BY <1>1, <1>3, <1>5 DEF Top
  <2>3. Decided(p, a)
    BY <1>1, <1>5, <2>1, <2>2 DEF Decided
  <2>. QED BY <1>1, <2>3 DEF Effect
<1>6. CASE a = NoRoute /\ ProcessSession(peer, p, a)
  <2>1. Decided(p, a)
    BY <1>1, <1>6, ViewType, ProcessSessionEffect DEF Decided, Clear, Top
  <2>. QED BY <1>1, <2>1 DEF Effect
<1>. QED BY <1>2, <1>4, <1>5, <1>6

\* Every step of the session is one of these to an outside observer.
LEMMA StepEffect ==
  ASSUME IInv, [Next]_vars
  PROVE  Effect
<1>1. ASSUME NEW p \in Prefix, NEW r \in Route \cup {NoRoute}, Process(p, r)
      PROVE  Effect
  BY <1>1, ProcessEffect
<1>2. ASSUME NEW p \in Prefix, NEW r \in Route, NetworkCommand(p, r)
      PROVE  Effect
  BY <1>2, NetworkCommandEffect
<1>3. ASSUME NEW t \in Tid, RouteadvTimer(t)
      PROVE  Effect
  BY <1>3, RouteadvTimerEffect
<1>4. ASSUME NEW p \in Prefix, RefreshPrefix(p)
      PROVE  Effect
  BY <1>4, RefreshPrefixEffect
<1>5. ASSUME NEW c \in Policy, SetPolicy(c)
      PROVE  Effect
  BY <1>5 DEF SetPolicy, Effect, Seen, Top
<1>6. CASE Refresh
  BY <1>6 DEF Refresh, Effect, Seen, Top
<1>7. CASE Establish
  <2>. DEFINE view == [p \in Prefix |-> Outcome(sel[p])]
  <2>1. view \in [Prefix -> Told]
    BY ViewType, OutcomeType DEF IInv
  <2>2. told' = view /\ wanted' = view /\ ~peer.up
    BY <1>7 DEF Establish
  <2>. HIDE DEF view
  <2>3. peer'.up /\ Top' = Top
    BY <1>7, ViewType DEF Establish, PeerType, Top
  <2>4. Top = Nothing
    BY <2>2, ViewType DEF Valid, Clean, Top, Nothing
  <2>. QED BY <2>1, <2>2, <2>3, <2>4 DEF Opened, Effect
<1>8. CASE Stop
  <2>1. ~peer'.up /\ Top' = Nothing
    BY <1>8, ViewType DEF Stop, Idle, PeerType, Top, Nothing
  <2>. QED BY <1>8, <2>1 DEF Stop, Closed, Nothing, Effect
<1>9. CASE Tick
  <2>1. peer'.up = peer.up /\ Top' = Top
    BY <1>9, ViewType DEF Tick, PeerType, Top
  <2>. QED BY <1>9, <2>1 DEF Tick, Effect, Seen
<1>10. CASE UNCHANGED vars
  BY <1>10 DEF vars, Effect, Seen, Top
<1>. QED
  BY <1>1, <1>2, <1>3, <1>4, <1>5, <1>6, <1>7, <1>8, <1>9, <1>10 DEF Next
-----------------------------------------------------------------------------
\* The results.

\* The session implements Outbound: whatever the prefixes, the policies, the
\* interval and the number of threads, what is suppressed for a prefix is the
\* last update that was held back, a withdrawal takes it away, and a timer
\* releases nothing else.
THEOREM ImplementsOutbound == Spec => KeepsPromise
<1>1. Init => Abstract!Init
  BY DEF Init, Abstract!Init, Abstract!Nothing
<1>2. IInv /\ [Next]_vars => [Abstract!Next]_(Abstract!vars)
  <2>. SUFFICES ASSUME IInv, [Next]_vars
                PROVE  [Abstract!Next]_(Abstract!vars)
    OBVIOUS
  <2>1. CASE UNCHANGED Seen
    BY <2>1 DEF Seen, Top, Abstract!vars
  <2>2. ASSUME NEW p \in Prefix, NEW a \in Told, Decided(p, a)
        PROVE  Abstract!Next
    <3>1. CASE a \in Attr
      <4>1. Abstract!Announce(p, a) \/ Abstract!Hold(p, a)
        BY <2>2, <3>1, ViewType
           DEF Decided, Clear, Top, Abstract!Announce, Abstract!Hold
      <4>. QED BY <3>1, <4>1 DEF Abstract!Next
    <3>2. CASE a = NoRoute
      <4>1. Abstract!Withdraw(p)
        BY <2>2, <3>2, ViewType DEF Decided, Clear, Top, Abstract!Withdraw
      <4>. QED BY <4>1 DEF Abstract!Next
    <3>. QED BY <3>1, <3>2 DEF Told
  <2>3. ASSUME NEW p \in Prefix, Released(p) \/ Forgotten(p)
        PROVE  Abstract!Next
    <3>1. Abstract!Release(p) \/ Abstract!Forget(p)
      BY <2>3, ViewType
         DEF Released, Forgotten, Clear, Top, Abstract!Release, Abstract!Forget
    <3>. QED BY <3>1 DEF Abstract!Next
  <2>4. CASE Opened
    BY <2>4, ViewType DEF Opened, Top, Told, Abstract!Open, Abstract!Next
  <2>5. CASE Closed
    BY <2>5, ViewType DEF Closed, Top, Nothing, Abstract!Close, Abstract!Nothing,
       Abstract!Next
  <2>. QED BY <2>1, <2>2, <2>3, <2>4, <2>5, StepEffect DEF Effect
<1>. QED
  BY <1>1, <1>2, InductiveInvariant, PTL DEF Spec, KeepsPromise, Abstract!Spec

\* The neighbour loses the last decision only to a late timer that sends an
\* overtaken update, or to `network p'.
THEOREM LossesExplained == Spec => LostOnlyByOvertaking
<1>. DEFINE A == \A p \in Prefix :
                   Synced(p) /\ ~Synced(p)'
                     => \/ Superseded(p) /\ \E t \in Tid : RouteadvTimer(t)
                        \/ NetworkCommand(p, sel[p])
<1>1. IInv /\ [Next]_vars => A
  <2>. SUFFICES ASSUME IInv, [Next]_vars, NEW p \in Prefix,
                       Synced(p), ~Synced(p)'
                PROVE  \/ Superseded(p) /\ \E t \in Tid : RouteadvTimer(t)
                       \/ NetworkCommand(p, sel[p])
    OBVIOUS
  <2>0. Synced(p) <=> told[p] = wanted[p] \/ Top[p] = wanted[p]
    BY DEF Synced, Top
  <2>1. ~(told'[p] = wanted'[p] \/ Top'[p] = wanted'[p])
    BY DEF Synced, Top
  <2>2. ~UNCHANGED Seen
    BY <2>0, <2>1 DEF Seen
  <2>3. ASSUME NEW q \in Prefix, NEW a \in Told
        PROVE  ~Decided(q, a)
    BY <2>0, <2>1, ViewType DEF Decided, Clear
  <2>4. ASSUME NEW q \in Prefix, Released(q)
        PROVE  q = p /\ Superseded(p)
    BY <2>0, <2>1, <2>4, ViewType DEF Released, Clear, Superseded, Top
  <2>5. ASSUME NEW q \in Prefix, Forgotten(q)
        PROVE  q = p
    BY <2>0, <2>1, <2>5, ViewType DEF Forgotten, Clear
  <2>6. ~Opened /\ ~Closed
    BY <2>1 DEF Opened, Closed, Nothing
  <2>. QED
    BY <2>2, <2>3, <2>4, <2>5, <2>6, StepEffect DEF Effect, Released, Forgotten
<1>. QED BY <1>1, InductiveInvariant, PTL DEF Spec, LostOnlyByOvertaking

\* An update in the queue is superseded only by a direct send, once the
\* interval is over or in a refresh.
THEOREM OvertakingExplained == Spec => SupersededOnlyByDirectSend
<1>. DEFINE A == \A p \in Prefix :
                   Superseded(p)' /\ ~Superseded(p)
                     => told'[p] = wanted'[p] /\ (peer.stamp[p] = 0 \/ p \in walk)
<1>1. IInv /\ [Next]_vars => A
  <2>. SUFFICES ASSUME IInv, [Next]_vars, NEW p \in Prefix,
                       Superseded(p)', ~Superseded(p)
                PROVE  told'[p] = wanted'[p] /\ (peer.stamp[p] = 0 \/ p \in walk)
    OBVIOUS
  <2>0. Top[p] = NoRoute \/ Top[p] = wanted[p]
    BY DEF Superseded, Top
  <2>1. Top'[p] # NoRoute /\ Top'[p] # wanted'[p]
    BY DEF Superseded, Top
  <2>2. ~UNCHANGED Seen
    BY <2>0, <2>1 DEF Seen
  <2>3. ASSUME NEW q \in Prefix, NEW a \in Told, Decided(q, a)
        PROVE  told'[p] = wanted'[p] /\ (peer.stamp[p] = 0 \/ p \in walk)
    BY <2>0, <2>1, <2>3, ViewType DEF Decided, Clear
  <2>4. ASSUME NEW q \in Prefix
        PROVE  ~Released(q) /\ ~Forgotten(q)
    BY <2>0, <2>1, ViewType DEF Released, Forgotten, Clear
  <2>5. ~Opened /\ ~Closed
    BY <2>1 DEF Opened, Closed, Nothing
  <2>. QED BY <2>2, <2>3, <2>4, <2>5, StepEffect DEF Effect
<1>. QED BY <1>1, InductiveInvariant, PTL DEF Spec, SupersededOnlyByDirectSend

\* When the interval is zero or MRAI is disabled nothing is ever held back.
THEOREM NoIntervalNoDelay == Spec => []DisabledIsSynchronous
<1>. DEFINE J == Mrai = 0 => told = wanted /\ Top = Nothing
<1>1. Init => J
  BY DEF Init, Top, Nothing
<1>2. IInv /\ J /\ [Next]_vars => J'
  <2>. SUFFICES ASSUME IInv, told = wanted, Top = Nothing, Mrai = 0, [Next]_vars
                PROVE  told' = wanted' /\ Top' = Nothing
    BY DEF Nothing
  <2>1. CASE UNCHANGED Seen
    BY <2>1 DEF Seen
  <2>2. ASSUME NEW p \in Prefix, NEW a \in Told, Decided(p, a)
        PROVE  told' = wanted' /\ Top' = Nothing
    BY <2>2 DEF Decided, Clear, Nothing
  <2>3. ASSUME NEW p \in Prefix, Released(p) \/ Forgotten(p)
        PROVE  told' = wanted' /\ Top' = Nothing
    BY <2>3 DEF Released, Forgotten, Clear, Nothing
  <2>4. CASE Opened \/ Closed
    BY <2>4 DEF Opened, Closed
  <2>. QED BY <2>1, <2>2, <2>3, <2>4, StepEffect DEF Effect
<1>3. J => DisabledIsSynchronous
  BY DEF DisabledIsSynchronous
<1>. QED BY <1>1, <1>2, <1>3, InductiveInvariant, PTL DEF Spec
=============================================================================
