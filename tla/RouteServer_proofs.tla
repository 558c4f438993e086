------------------------- MODULE RouteServer_proofs -------------------------
(***************************************************************************)
(* Proofs about RouteServer, for any events, any number of them and any    *)
(* number of faults.  ComputesEvent follows from what the two scripts have *)
(* at each step of a handling: nothing but the event of a handling that is *)
(* under way, unless the last handling that used the script did not        *)
(* restore it.                                                             *)
(***************************************************************************)
EXTENDS RouteServer, SequenceTheorems, FiniteSetTheorems, TLAPS

\* What a handler writes for an event; nothing, for a withdrawal.
LinesOf(e) == IF e = None THEN <<>> ELSE <<e, Run>>

\* A script that was restored is empty unless its handler is at work on it.
Restored ==
  \A p \in Place \ spoiled :
    handling = None \/ PlaceOf(handling.by) # p => script[p] = <<>>

\* The steps of a handling that began with a restored script.
InProgress ==
  handling # None /\ Here \notin spoiled =>
    /\ handling.step = "copy" =>
         script[Here] = LinesOf(handling.event) /\ ~handling.copyFailed
    /\ handling.step = "run" /\ ~handling.copyFailed =>
         copied[Here] = LinesOf(handling.event)

IInv == TypeOK /\ Restored /\ InProgress /\ ComputesEvent

-----------------------------------------------------------------------------

\* What NS2 executes are lines of the script it reads.
LEMMA ExecutedType ==
  ASSUME NEW lines \in Seq(Line)
  PROVE  Executed(lines) \in Seq(Line)
<1> DEFINE before == {i \in DOMAIN lines : \A j \in 1..i : lines[j] # Run}
           n == Cardinality(before)
<1>1. n \in 0..Len(lines)
  <2>1. before \subseteq 1..Len(lines)
    OBVIOUS
  <2>2. IsFiniteSet(1..Len(lines)) /\ Cardinality(1..Len(lines)) = Len(lines)
    <3>1. Len(lines) \in Nat
      OBVIOUS
    <3>2. \A b \in Int : IsFiniteSet(1..b) /\ Cardinality(1..b) = IF 1 > b THEN 0 ELSE b - 1 + 1
      BY FS_Interval
    <3>3. IsFiniteSet(1..Len(lines))
      BY <3>1, <3>2
    <3>4. Cardinality(1..Len(lines)) = IF 1 > Len(lines) THEN 0 ELSE Len(lines) - 1 + 1
      BY <3>1, <3>2
    <3> QED
      BY <3>1, <3>3, <3>4
  <2>3. IsFiniteSet(before) /\ n <= Len(lines)
    BY <2>1, <2>2, FS_Subset
  <2> QED
    BY <2>3, FS_CardinalityType
<1>2. SubSeq(lines, 1, n) \in Seq(Line)
  <2> HIDE DEF n
  <2> QED
    BY <1>1, SubSeqProperties
<1> QED
  BY <1>2 DEF Executed

\* NS2 executes exactly the lines written for the event.
LEMMA ExecutedLines ==
  ASSUME NEW e \in Event \cup {Scripted, None}
  PROVE  Executed(LinesOf(e)) = IF e = None THEN <<>> ELSE <<e>>
<1> DEFINE before(l) == {i \in DOMAIN l : \A j \in 1..i : l[j] # Run}
<1>1. CASE e = None
  <2>1. LinesOf(e) = <<>> /\ before(<<>>) = DOMAIN <<>>
    BY <1>1 DEF LinesOf
  <2> QED
    BY <1>1, <2>1 DEF Executed
<1>2. CASE e # None
  <2>1. e # Run /\ LinesOf(e) = <<e, Run>>
    BY <1>2, LineAssumption DEF LinesOf
  <2>2. before(<<e, Run>>) = {1} /\ DOMAIN <<e, Run>> = {1, 2}
    BY <2>1
  <2>3. Cardinality(before(<<e, Run>>)) = 1
    BY <2>2, FS_Singleton
  <2>4. Executed(LinesOf(e)) = SubSeq(<<e, Run>>, 1, 1)
    <3>1. before(<<e, Run>>) # DOMAIN <<e, Run>>
      <4>1. {1} # {1, 2}
        OBVIOUS
      <4> QED
        BY <2>2, <4>1
    <3> QED
      BY <2>1, <2>3, <3>1, Zenon DEF Executed
  <2>5. SubSeq(<<e, Run>>, 1, 1) = <<e>>
    <3> DEFINE L == {e, Run}
    <3>1. <<e, Run>> \in Seq(L) /\ Len(<<e, Run>>) = 2 /\ <<e, Run>>[1] = e
      OBVIOUS
    <3>2. SubSeq(<<e, Run>>, 1, 1) = <<e>> \o SubSeq(<<e, Run>>, 2, 1)
      BY <3>1, SubSeqRecursiveFirst, 1 \in 1..2, 1 + 1 = 2
    <3>3. SubSeq(<<e, Run>>, 2, 1) = <<>>
      BY SubSeqEmpty
    <3>4. <<e>> \o <<>> = <<e>>
      BY <<e>> \in Seq(L), ConcatEmptySeq
    <3> QED
      BY <3>2, <3>3, <3>4
  <2> QED
    BY <1>2, <2>4, <2>5
<1> QED
  BY <1>1, <1>2

\* Nothing is written, copied or run at the start.
LEMMA InitInv == Init => IInv
<1> SUFFICES ASSUME Init PROVE IInv
  OBVIOUS
<1>1. TypeOK
  <2>1. <<>> \in Seq(Line)
    OBVIOUS
  <2>2. script \in [Place -> Seq(Line)] /\ copied \in [Place -> Seq(Line)]
    BY <2>1 DEF Init
  <2>3. 0 \in 0..MaxEvents /\ 0 \in 0..MaxFaults
    BY BoundAssumption
  <2> QED
    BY <2>2, <2>3 DEF Init, TypeOK
<1>2. Restored /\ InProgress /\ ComputesEvent
  BY DEF Init, Restored, InProgress, ComputesEvent
<1> QED
  BY <1>1, <1>2 DEF IInv

-----------------------------------------------------------------------------

\* A handler that begins finds its script as the last one left it.
LEMMA StartInv ==
  ASSUME IInv, NEW h \in Handler, NEW e \in Event \cup {Scripted, None},
         event_received' \in BOOLEAN, Start(h, e, LinesOf(e))
  PROVE  IInv'
<1>1. LinesOf(e) \in Seq(Line)
  <2>1. CASE e = None
    BY <2>1 DEF LinesOf
  <2>2. CASE e # None
    <3>1. e \in Line /\ Run \in Line
      BY <2>2 DEF Line
    <3> QED
      BY <2>2, <3>1 DEF LinesOf
  <2> QED
    BY <2>1, <2>2
<1>2. PlaceOf(h) \in Place
  BY DEF PlaceOf, Place
<1>3. /\ script \in [Place -> Seq(Line)]
      /\ script' = [script EXCEPT ![PlaceOf(h)] = @ \o LinesOf(e)]
      /\ handling = None /\ spoiled' = spoiled /\ copied' = copied /\ result' = result
      /\ handling' = [by |-> h, event |-> e, step |-> "copy", copyFailed |-> FALSE]
  BY DEF IInv, TypeOK, Start
<1>9. handling' \in HandlingType /\ handling' # None
  <2>1. handling' \in HandlingType
    BY <1>3 DEF HandlingType
  <2> QED
    BY <2>1, NoneAssumption
<1>4. TypeOK'
  <2>1. script' \in [Place -> Seq(Line)]
    <3>1. script[PlaceOf(h)] \o LinesOf(e) \in Seq(Line)
      BY <1>1, <1>2, <1>3
    <3> QED
      BY <1>2, <1>3, <3>1
  <2>2. events' \in 0..MaxEvents
    BY BoundAssumption DEF IInv, TypeOK, Start
  <2>3. UNCHANGED <<time, faults>>
    BY DEF Start
  <2> QED
    BY <1>3, <1>9, <2>1, <2>2, <2>3 DEF IInv, TypeOK
<1>5. handling'.by = h /\ handling'.event = e /\ handling'.step = "copy" /\ ~handling'.copyFailed
  BY <1>3
<1>6. Restored'
  BY <1>3, <1>5, <1>9 DEF IInv, TypeOK, Restored
<1>7. InProgress'
  <2> SUFFICES ASSUME PlaceOf(h) \notin spoiled
               PROVE  script'[PlaceOf(h)] = LinesOf(e)
    BY <1>3, <1>5 DEF InProgress, Here
  <2>1. script[PlaceOf(h)] = <<>>
    BY <1>2, <1>3 DEF IInv, Restored
  <2>2. script'[PlaceOf(h)] = <<>> \o LinesOf(e)
    BY <1>2, <1>3, <2>1
  <2> QED
    BY <1>1, <2>2, ConcatEmptySeq
<1>8. ComputesEvent'
  BY <1>3 DEF IInv, ComputesEvent
<1> QED
  BY <1>4, <1>6, <1>7, <1>8 DEF IInv

\* What is copied is what the handler wrote, if the script had been restored.
LEMMA CopyInv ==
  ASSUME IInv, Copy
  PROVE  IInv'
<1>1. handling # None /\ handling.step = "copy" /\ Here \in Place
  BY DEF Copy, At, Here, PlaceOf, Place
<1>2. handling \in HandlingType
  BY <1>1 DEF IInv, TypeOK
<1>3. /\ handling' \in HandlingType /\ handling'.by = handling.by
      /\ handling'.event = handling.event /\ handling'.step = "run"
  BY <1>2 DEF Copy, HandlingType
<1>8. handling' # None
  BY <1>3, NoneAssumption
<1>4. TypeOK'
  <2>1. faults' \in 0..MaxFaults
    BY BoundAssumption DEF IInv, TypeOK, Copy, Fault
  <2>2. copied' \in [Place -> Seq(Line)]
    <3>1. script[Here] \in Seq(Line)
      BY <1>1 DEF IInv, TypeOK
    <3>2. copied' = copied \/ copied' = [copied EXCEPT ![Here] = script[Here]]
      BY DEF Copy
    <3> QED
      BY <3>1, <3>2 DEF IInv, TypeOK
  <2> QED
    BY <1>3, <2>1, <2>2 DEF IInv, TypeOK, Copy
<1>5. Restored'
  BY <1>1, <1>3, <1>8 DEF IInv, Restored, Copy
<1>6. InProgress'
  <2> SUFFICES ASSUME Here \notin spoiled, ~handling'.copyFailed
               PROVE  copied'[Here] = LinesOf(handling.event)
    BY <1>3 DEF InProgress, Here, Copy
  <2>1. copied' = [copied EXCEPT ![Here] = script[Here]]
    BY <1>2 DEF Copy, HandlingType
  <2> QED
    BY <1>1, <2>1 DEF IInv, TypeOK, InProgress
<1>7. ComputesEvent'
  BY DEF IInv, ComputesEvent, Copy
<1> QED
  BY <1>4, <1>5, <1>6, <1>7 DEF IInv

\* What NS2 computes is what it was started for, if all went well.
LEMMA RunInv ==
  ASSUME IInv, RunNS2
  PROVE  IInv'
<1>1. handling # None /\ handling.step = "run" /\ Here \in Place
  BY DEF RunNS2, At, Here, PlaceOf, Place
<1>2. handling \in HandlingType
  BY <1>1 DEF IInv, TypeOK
<1>3. /\ handling' \in HandlingType /\ handling'.by = handling.by
      /\ handling'.step = "restore"
  BY <1>2 DEF RunNS2, HandlingType
<1>4. handling' # None
  BY <1>3, NoneAssumption
<1> DEFINE r == [event |-> handling.event, computed |-> Executed(copied[Here]),
                 faulty |-> Here \in spoiled \/ handling.copyFailed]
<1>5. result' = r \/ result' = result
  BY DEF RunNS2
<1>6. r \in ResultType
  <2>1. copied[Here] \in Seq(Line)
    BY <1>1 DEF IInv, TypeOK
  <2>2. Executed(copied[Here]) \in Seq(Line)
    BY <2>1, ExecutedType
  <2>3. handling.event \in Event \cup {Scripted, None} /\ handling.copyFailed \in BOOLEAN
    BY <1>2 DEF HandlingType
  <2> QED
    BY <2>2, <2>3 DEF ResultType
<1>7. TypeOK'
  <2>1. faults' \in 0..MaxFaults
    BY BoundAssumption DEF IInv, TypeOK, RunNS2, Fault
  <2>2. result' \in ResultType \cup {None}
    BY <1>5, <1>6 DEF IInv, TypeOK
  <2> QED
    BY <1>3, <2>1, <2>2 DEF IInv, TypeOK, RunNS2
<1>8. Restored'
  BY <1>1, <1>3, <1>4 DEF IInv, Restored, RunNS2
<1>9. InProgress'
  BY <1>3 DEF InProgress
<1>10. ComputesEvent'
  <2>1. CASE result' = result
    BY <2>1 DEF IInv, ComputesEvent
  <2>2. CASE result' = r
    <3> SUFFICES ASSUME ~r.faulty
                 PROVE  r.computed = IF r.event = None THEN <<>> ELSE <<r.event>>
      BY <2>2 DEF ComputesEvent
    <3>1. Here \notin spoiled /\ ~handling.copyFailed
      OBVIOUS
    <3>2. copied[Here] = LinesOf(handling.event)
      BY <1>1, <3>1 DEF IInv, InProgress
    <3>3. handling.event \in Event \cup {Scripted, None}
      BY <1>2 DEF HandlingType
    <3>4. Executed(copied[Here]) = IF handling.event = None THEN <<>> ELSE <<handling.event>>
      BY <3>2, <3>3, ExecutedLines
    <3> QED
      BY <3>4
  <2> QED
    BY <1>5, <2>1, <2>2
<1> QED
  BY <1>7, <1>8, <1>9, <1>10 DEF IInv

\* A script is the basic one again, or it is known to be spoiled.
LEMMA RestoreInv ==
  ASSUME IInv, Restore
  PROVE  IInv'
<1>1. handling # None /\ handling' = None /\ Here \in Place
  BY DEF Restore, At, Here, PlaceOf, Place
<1>2. \/ script' = [script EXCEPT ![Here] = <<>>] /\ spoiled' = spoiled \ {Here}
      \/ script' = script /\ spoiled' = spoiled \cup {Here}
  BY DEF Restore
<1>3. TypeOK'
  <2>1. faults' \in 0..MaxFaults
    BY BoundAssumption DEF IInv, TypeOK, Restore, Fault
  <2>2. script' \in [Place -> Seq(Line)]
    <3>1. <<>> \in Seq(Line)
      OBVIOUS
    <3> QED
      BY <1>1, <1>2, <3>1 DEF IInv, TypeOK
  <2>3. spoiled' \subseteq Place
    BY <1>1, <1>2 DEF IInv, TypeOK
  <2> QED
    BY <1>1, <2>1, <2>2, <2>3 DEF IInv, TypeOK, Restore
<1>4. Restored'
  <2> SUFFICES ASSUME NEW p \in Place, p \notin spoiled'
               PROVE  script'[p] = <<>>
    BY DEF Restored
  <2>1. CASE p = Here
    BY <1>1, <1>2, <2>1 DEF IInv, TypeOK
  <2>2. CASE p # Here
    <3>1. p \notin spoiled /\ script'[p] = script[p]
      BY <1>2, <2>2 DEF IInv, TypeOK
    <3> QED
      BY <2>2, <3>1 DEF IInv, Restored, Here
  <2> QED
    BY <2>1, <2>2
<1>5. InProgress' /\ ComputesEvent'
  BY <1>1 DEF IInv, InProgress, ComputesEvent, Restore
<1> QED
  BY <1>3, <1>4, <1>5 DEF IInv

\* The files are the same after a restart.
LEMMA RestartInv ==
  ASSUME IInv, Restart
  PROVE  IInv'
<1>1. TypeOK'
  <2>1. faults' \in 0..MaxFaults
    BY BoundAssumption DEF IInv, TypeOK, Restart, Fault
  <2>2. spoiled' \subseteq Place
    <3>1. handling # None => Here \in Place
      BY DEF Here, PlaceOf, Place
    <3> QED
      BY <3>1 DEF IInv, TypeOK, Restart
  <2> QED
    BY <2>1, <2>2 DEF IInv, TypeOK, Restart
<1>2. Restored'
  BY DEF IInv, Restored, Restart, Here
<1>3. InProgress' /\ ComputesEvent'
  BY DEF IInv, InProgress, ComputesEvent, Restart
<1> QED
  BY <1>1, <1>2, <1>3 DEF IInv

-----------------------------------------------------------------------------

\* Every step preserves the invariant.
LEMMA NextInv == IInv /\ [Next]_vars => IInv'
<1> SUFFICES ASSUME IInv, [Next]_vars PROVE IInv'
  OBVIOUS
<1>1. ASSUME NEW h \in {"agent", "message"}, NEW e \in Event, Receive(h, e)
      PROVE  IInv'
  <2>1. LinesOf(e) = <<e, Run>>
    BY LineAssumption DEF LinesOf
  <2>2. h \in Handler /\ event_received' \in BOOLEAN
    BY <1>1 DEF Handler, Receive, IInv, TypeOK
  <2>3. Start(h, e, LinesOf(e))
    BY <1>1, <2>1 DEF Receive
  <2> QED
    BY <2>2, <2>3, StartInv
<1>2. ASSUME NEW a \in BOOLEAN, Parse(a)
      PROVE  IInv'
  <2> DEFINE e == IF a THEN Scripted ELSE None
  <2>1. LinesOf(e) = IF a THEN <<Scripted, Run>> ELSE <<>>
    BY LineAssumption DEF LinesOf
  <2>2. "update" \in Handler /\ event_received' \in BOOLEAN
    BY <1>2 DEF Handler, Parse
  <2>3. Start("update", e, LinesOf(e))
    BY <1>2, <2>1 DEF Parse
  <2>4. e \in Event \cup {Scripted, None}
    OBVIOUS
  <2> QED
    BY <2>2, <2>3, <2>4, StartInv
<1>3. CASE Copy
  BY <1>3, CopyInv
<1>4. CASE RunNS2
  BY <1>4, RunInv
<1>5. CASE Restore
  BY <1>5, RestoreInv
<1>6. CASE Advance
  BY <1>6 DEF Advance, IInv, TypeOK, Restored, InProgress, ComputesEvent, Here
<1>7. CASE Restart
  BY <1>7, RestartInv
<1>8. CASE UNCHANGED vars
  BY <1>8 DEF vars, IInv, TypeOK, Restored, InProgress, ComputesEvent, Here
<1> QED
  BY <1>1, <1>2, <1>3, <1>4, <1>5, <1>6, <1>7, <1>8 DEF Next

\* The scripts and the handling agree, in every state of NS1 and its files.
THEOREM InductiveInvariant == Spec => []IInv
<1> QED
  BY InitInv, NextInv, PTL DEF Spec

\* The state has its types.
THEOREM TypeCorrect == Spec => []TypeOK
<1>1. IInv => TypeOK
  BY DEF IInv
<1> QED
  BY <1>1, InductiveInvariant, PTL

(***************************************************************************)
(* NS2 computes the event it was started for and no other, in whichever    *)
(* order the three handlers run and wherever a command fails or NS1 is     *)
(* started again.                                                          *)
(***************************************************************************)
THEOREM EventComputed == Spec => []ComputesEvent
<1>1. IInv => ComputesEvent
  BY DEF IInv
<1> QED
  BY <1>1, InductiveInvariant, PTL

=============================================================================
