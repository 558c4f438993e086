----------------------------- MODULE RouteServer -----------------------------
(***************************************************************************)
(* How NS1, the simulator with the route server, has NS2 compute the       *)
(* effect of an event: it appends the event to a Tcl script, copies the    *)
(* script to where NS2 looks for it, runs NS2 and replaces the script by   *)
(* the basic one.  The steps are shell commands that block NS1; each may   *)
(* fail, and NS1 may be stopped between two of them and started again,     *)
(* while the files stay as they are.                                       *)
(*                                                                         *)
(* Three handlers do this.  RSAgent::recv and MessagePassingAgent::recv    *)
(* share a script; Bgp::nlri_parse has one of its own, does it once, for   *)
(* an UPDATE in a window of time, and always with the same event.          *)
(***************************************************************************)
EXTENDS Integers, Sequences, FiniteSets

CONSTANTS Event,      \* what may be announced to the route server
          Scripted,   \* the change of policy that nlri_parse writes
          Run,        \* the line "$ns run"
          None,
          MaxEvents,  \* bound on the events handled
          MaxFaults   \* bound on the commands that fail and the restarts

ASSUME LineAssumption ==
  /\ Scripted \notin Event /\ Run \notin Event \cup {Scripted}
  /\ None \notin Event \cup {Scripted, Run}
ASSUME BoundAssumption == MaxEvents \in Nat /\ MaxFaults \in Nat

Handler == {"agent", "message", "update"}
Place == {"3peers", "CDF_1K"}
PlaceOf(h) == IF h = "update" THEN "CDF_1K" ELSE "3peers"

VARIABLES
  script,          \* what ns.tcl and ns2.tcl have beyond the basic script
  copied,          \* the same of the script NS2 reads
  handling,        \* the handler that is under way, or None
  event_received,
  time,            \* of NS1: before, in or after the window from 310 to 320
  result,          \* of the last run of NS2
  spoiled,         \* the scripts that the last handling did not restore
  events, faults   \* how many there were

vars == <<script, copied, handling, event_received, time, result, spoiled,
          events, faults>>

Line == Event \cup {Scripted, Run}

HandlingType == [by : Handler, event : Event \cup {Scripted, None},
                 step : {"copy", "run", "restore"}, copyFailed : BOOLEAN]

\* faulty: the handling met a fault, or found the script spoiled by one.
ResultType == [event : Event \cup {Scripted, None}, computed : Seq(Line),
               faulty : BOOLEAN]

ASSUME NoneAssumption == None \notin HandlingType \cup ResultType

\* The types of the state.
TypeOK ==
  /\ script \in [Place -> Seq(Line)] /\ copied \in [Place -> Seq(Line)]
  /\ handling \in HandlingType \cup {None}
  /\ event_received \in BOOLEAN
  /\ time \in {"before", "window", "after"}
  /\ result \in ResultType \cup {None}
  /\ spoiled \subseteq Place
  /\ events \in 0..MaxEvents /\ faults \in 0..MaxFaults

\* NS2 schedules what it finds before the first "$ns run".
Executed(lines) ==
  LET before == {i \in DOMAIN lines : \A j \in 1..i : lines[j] # Run} IN
  IF before = DOMAIN lines THEN <<>> ELSE SubSeq(lines, 1, Cardinality(before))

\* Mutant: NS1 goes on while a thread runs the commands (see pthread_create).
StartThread(h, e, lines) ==
  /\ events < MaxEvents
  /\ script' = [script EXCEPT ![PlaceOf(h)] = @ \o lines]
  /\ handling' = [by |-> h, event |-> e, step |-> "copy", copyFailed |-> FALSE]
  /\ events' = events + 1
  /\ UNCHANGED <<copied, time, result, spoiled, faults>>

Start(h, e, lines) ==
  /\ handling = None /\ events < MaxEvents
  /\ script' = [script EXCEPT ![PlaceOf(h)] = @ \o lines]
  /\ handling' = [by |-> h, event |-> e, step |-> "copy", copyFailed |-> FALSE]
  /\ events' = events + 1
  /\ UNCHANGED <<copied, time, result, spoiled, faults>>

\* An agent receives a packet with a command for NS2.
Receive(h, e) == Start(h, e, <<e, Run>>) /\ UNCHANGED event_received

\* Mutant: "$ns run" is written after a withdrawal for which there is no line.
ParseRun(a) ==
  /\ ~event_received /\ time = "window"
  /\ LET e == IF a THEN Scripted ELSE None IN Start("update", e, <<e, Run>>)
  /\ event_received' = TRUE

\* The router of the route server parses an UPDATE, a withdrawal if a is FALSE.
Parse(a) ==
  /\ ~event_received /\ time = "window"
  /\ Start("update", IF a THEN Scripted ELSE None, IF a THEN <<Scripted, Run>> ELSE <<>>)
  /\ event_received' = TRUE

-----------------------------------------------------------------------------
(* The shell commands.                                                     *)

At(step) == handling # None /\ handling.step = step
Here == PlaceOf(handling.by)

Fault == faults < MaxFaults /\ faults' = faults + 1

Copy ==
  /\ At("copy")
  /\ \/ /\ copied' = [copied EXCEPT ![Here] = script[Here]]
        /\ handling' = [handling EXCEPT !.step = "run"]
        /\ UNCHANGED faults
     \/ /\ Fault
        /\ handling' = [handling EXCEPT !.step = "run", !.copyFailed = TRUE]
        /\ UNCHANGED copied
  /\ UNCHANGED <<script, event_received, time, result, spoiled, events>>

RunNS2 ==
  /\ At("run")
  /\ \/ /\ result' = [event |-> handling.event, computed |-> Executed(copied[Here]),
                      faulty |-> Here \in spoiled \/ handling.copyFailed]
        /\ UNCHANGED faults
     \/ Fault /\ UNCHANGED result
  /\ handling' = [handling EXCEPT !.step = "restore"]
  /\ UNCHANGED <<script, copied, event_received, time, spoiled, events>>

Restore ==
  /\ At("restore")
  /\ \/ /\ script' = [script EXCEPT ![Here] = <<>>]
        /\ spoiled' = spoiled \ {Here}
        /\ UNCHANGED faults
     \/ /\ Fault
        /\ spoiled' = spoiled \cup {Here}
        /\ UNCHANGED script
  /\ handling' = None
  /\ UNCHANGED <<copied, event_received, time, result, events>>

-----------------------------------------------------------------------------

\* Time does not pass in NS1 while a command runs.
Advance ==
  /\ handling = None
  /\ \/ time = "before" /\ time' = "window"
     \/ time = "window" /\ time' = "after"
  /\ UNCHANGED <<script, copied, handling, event_received, result, spoiled, events, faults>>

Restart ==
  /\ Fault
  /\ spoiled' = IF handling = None THEN spoiled ELSE spoiled \cup {Here}
  /\ handling' = None
  /\ event_received' = FALSE
  /\ time' = "before"
  /\ UNCHANGED <<script, copied, result, events>>

Init ==
  /\ script = [d \in Place |-> <<>>] /\ copied = [d \in Place |-> <<>>]
  /\ handling = None /\ event_received = FALSE /\ time = "before"
  /\ result = None /\ spoiled = {}
  /\ events = 0 /\ faults = 0

Next ==
  \/ \E e \in Event : Receive("agent", e) \/ Receive("message", e)
  \/ \E a \in BOOLEAN : Parse(a)
  \/ Copy \/ RunNS2 \/ Restore
  \/ Advance \/ Restart

Spec == Init /\ [][Next]_vars

-----------------------------------------------------------------------------

(***************************************************************************)
(* NS2 computes the event that it was started for, and no other.  A fault  *)
(* spoils at most the handling in which it happens and those up to the     *)
(* next that restores the script: no event is left over beyond, in         *)
(* whichever order the handlers use the two scripts.                       *)
(***************************************************************************)
ComputesEvent ==
  result # None /\ ~result.faulty =>
    result.computed = IF result.event = None THEN <<>> ELSE <<result.event>>

=============================================================================
