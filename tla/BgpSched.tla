------------------------------ MODULE BgpSched ------------------------------
(* The thread scheduler of one router, the interrupts that feed it, and the  *)
(* transport below it.  The daemon of Zebra waits in select(); here a        *)
(* simulator timer plays that part.  The router is in one of three states:   *)
(* FETCH1 looks for work that is ready and otherwise starts to wait, FETCH2  *)
(* is the wait (or its end), EXECUTE is about to run the thread that was     *)
(* fetched.  Between any two of them the simulator may deliver bytes, let    *)
(* time pass, or execute a command of the user.                              *)
(*                                                                           *)
(* A message does not travel with its bytes: sendMessage puts it in a list   *)
(* at the receiver and hands FullTcp a number of bytes; Bgp::recv releases   *)
(* the message when that many bytes have arrived.                            *)
(*                                                                           *)
(* What a thread function does to its peer is left open; what it does to the *)
(* scheduler is one of Effects, except for reading, opening and closing a    *)
(* connection, which are modelled in full.                                   *)
EXTENDS Naturals, Sequences, SequencesExt, FiniteSets

CONSTANTS
  Conn,         \* connections of the router, named by their local agents
  None,         \* no agent, no thread, no message
  Never,        \* DBL_MAX, as a time to wait
  Size,         \* sizes of messages, in bytes
  MaxMessages,  \* messages the other end of each connection sends
  Timer,        \* timers of the peers: the pointers to their threads
  Owner,        \* the connection whose peer has the timer
  Wait,         \* intervals that timers are set to, in ticks
  StartTime,    \* when each timer expires first
  MaxWorkload,  \* longest pause after a thread (workload())
  MaxEffects    \* effects of handlers and commands

ASSUME NeverAssumption == Never \notin Nat
ASSUME SizeAssumption == Size \subseteq Nat \ {0}
ASSUME TimerAssumption ==
  /\ IsFiniteSet(Timer)
  /\ Owner \in [Timer -> Conn]
  /\ Wait \subseteq Nat \ {0}
  /\ StartTime \in [Timer -> Nat \ {0}]
ASSUME BoundAssumption ==
  /\ MaxMessages \in [Conn -> Nat]
  /\ MaxWorkload \in Nat
  /\ MaxEffects \in Nat

VARIABLES
  type,           \* FETCH1, FETCH2 or EXECUTE
  expire,         \* ticks until the router's simulator timer expires
  master,         \* struct thread_master, and thread_to_be_fetched
  InterruptQueue, \* interrupts that came while the router was busy
  InterruptAgent, \* the agent that ended the wait
  ReceivedMsg,    \* the message it brought
  m_msgs,         \* messages sent on a connection, not complete here
  first,          \* bytes of them that have arrived
  wire,           \* bytes of them on their way
  link,           \* what FullTcp has told the router about a connection
  status,         \* of the peer that uses the connection
  sent,           \* history: messages sent on a connection
  got,            \* history: the last message read from a connection
  effects         \* effects so far

transport == <<m_msgs, first, wire, link>>
interrupts == <<InterruptQueue, InterruptAgent, ReceivedMsg>>
vars == <<type, expire, master, interrupts, transport, status, sent, got, effects>>

-----------------------------------------------------------------------------
\* The elements of seq in the places N, in their order.
Those(seq, N) ==
  LET kept[n \in 0..Len(seq)] ==
        IF n = 0 THEN << >>
        ELSE IF n \in N THEN Append(kept[n - 1], seq[n]) ELSE kept[n - 1]
  IN  kept[Len(seq)]

\* seq without the elements in S
Without(seq, S) == Those(seq, {n \in DOMAIN seq : seq[n] \notin S})

(* Threads.  A peer has at most one thread of each kind and for each timer:   *)
(* its pointer (t_read, t_write, ...) is set as long as the thread exists.    *)

Event == {"opened", "stop", "other"}
Thread ==
  [func : {"bgp_read", "bgp_write"} \cup Event, arg : Conn]
    \cup [func : {"timer"}, arg : Timer]

Read(c) == [func |-> "bgp_read", arg |-> c]
Write(c) == [func |-> "bgp_write", arg |-> c]
TimerThread(t) == [func |-> "timer", arg |-> t]

Message == UNION {[conn : {c}, id : 0..MaxMessages[c], size : Size \cup {0}] : c \in Conn}

\* RouteMsg(0): the connection is opening or closing.
Zero(c) == [conn |-> c, id |-> 0, size |-> 0]

ASSUME ConnAssumption == IsFiniteSet(Conn)
ASSUME NoneAssumption == None \notin Conn \cup Thread \cup Message

MasterType ==
  [ read : SUBSET Conn,              \* agents somebody listens to
    ready : Seq(Thread),
    timer : Seq(Timer),              \* in the order of the times
    left : [Timer -> Nat],           \* ticks until the time of a timer
    event : Seq(Thread),
    fetched : Thread \cup {None},
    freed : BOOLEAN ]                \* the fetched thread was cancelled

TypeOK ==
  /\ type \in {"FETCH1", "FETCH2", "EXECUTE"}
  /\ expire \in Nat \cup {Never}
  /\ master \in MasterType
  /\ master.fetched # None <=> type = "EXECUTE"
  /\ InterruptAgent \in Conn \cup {None}
  /\ InterruptQueue \in Seq([agent : Conn \cup {None}, msg : Message \cup {None}])
  /\ ReceivedMsg \in Message \cup {None}
  /\ m_msgs \in [Conn -> Seq(Message)]
  /\ first \in [Conn -> Nat]
  /\ wire \in [Conn -> Nat]
  /\ link \in [Conn -> {"opening", "open", "closing", "closed"}]
  /\ status \in [Conn -> {"Connect", "Open", "Gone"}]
  /\ sent \in [Conn -> Nat]
  /\ got \in [Conn -> Message]
  /\ effects \in 0..MaxEffects

\* Orders of the timers in which none comes before an earlier one.
TimerLists(left) ==
  {s \in [1..Cardinality(Timer) -> Timer] :
     \A i, j \in DOMAIN s : i < j => s[i] # s[j] /\ left[s[i]] <= left[s[j]]}

\* After bgp_start for every connection: SYN sent, timers (ConnectRetry) set.
Init ==
  /\ type = "FETCH1"
  /\ expire = 0
  /\ \E timer \in TimerLists(StartTime) :
       master = [ read |-> Conn, ready |-> << >>, timer |-> timer,
                  left |-> StartTime, event |-> << >>, fetched |-> None,
                  freed |-> FALSE ]
  /\ InterruptQueue = << >>
  /\ InterruptAgent = None
  /\ ReceivedMsg = None
  /\ m_msgs = [c \in Conn |-> << >>]
  /\ first = [c \in Conn |-> 0]
  /\ wire = [c \in Conn |-> 0]
  /\ link = [c \in Conn |-> "opening"]
  /\ status = [c \in Conn |-> "Connect"]
  /\ sent = [c \in Conn |-> 0]
  /\ got = [c \in Conn |-> Zero(c)]
  /\ effects = 0

-----------------------------------------------------------------------------
(* The macros BGP_READ_ON, BGP_WRITE_ON, BGP_TIMER_ON, ... on a master.       *)

\* The pointer is set until the thread's function runs, or it is cancelled.
IsFetched(m, th) == m.fetched = th /\ ~m.freed
On(m, th) == th \in Range(m.ready) \/ IsFetched(m, th)

ReadOn(m, c) ==
  IF On(m, Read(c)) THEN m ELSE [m EXCEPT !.read = @ \cup {c}]

ReadOff(m, c) ==
  [m EXCEPT !.read = @ \ {c},
            !.ready = Without(@, {Read(c)}),
            !.freed = @ \/ m.fetched = Read(c)]

\* There is no select() for writing: a write thread is ready at once.
WriteOn(m, c) ==
  IF On(m, Write(c)) THEN m ELSE [m EXCEPT !.ready = Append(@, Write(c))]

\* thread_add_timer puts the thread before the first one that is not earlier.
Before(m, d) ==
  Min({n \in DOMAIN m.timer : d <= m.left[m.timer[n]]} \cup {Len(m.timer) + 1})

TimerOn(m, t, d) ==
  IF t \in Range(m.timer) \/ On(m, TimerThread(t))
    THEN m
    ELSE [m EXCEPT !.timer = InsertAt(@, Before(m, d), t), !.left[t] = d]

\* thread_cancel takes a thread off its list; one that was fetched is on none.
TimersOff(m, off) ==
  [m EXCEPT !.timer = Without(@, off),
            !.left = [t \in Timer |-> IF t \in off THEN 0 ELSE @[t]],
            !.ready = Without(@, {TimerThread(t) : t \in off}),
            !.freed = @ \/ \E t \in off : m.fetched = TimerThread(t)]

EventAdd(m, c, e) == [m EXCEPT !.event = Append(@, [func |-> e, arg |-> c])]
EventDelete(m, c) == [m EXCEPT !.event = Without(@, [func : Event, arg : {c}])]

\* What a handler or a command may do to the scheduler, for one of its peers.
Effects(m) ==
  LET open == {c \in Conn : status[c] = "Open"}
  IN  {WriteOn(m, c) : c \in open}
        \cup {EventAdd(m, c, e) : c \in open, e \in {"stop", "other"}}
        \cup {TimerOn(m, t, d) : t \in Timer, d \in Wait}
        \cup {TimersOff(m, {t}) : t \in Timer}

\* Up to MaxEffects of them in a behaviour.
Affected(m, m2) ==
  \/ /\ m2 = m
     /\ UNCHANGED effects
  \/ /\ effects < MaxEffects
     /\ m2 \in Effects(m)
     /\ effects' = effects + 1

-----------------------------------------------------------------------------
(* Interrupts.                                                               *)

\* Mutant: any wait, also one that has been ended but not taken up yet.
WaitsMutant == type = "FETCH2"

Waits == type = "FETCH2" /\ expire # 0

Entries(agent, msgs) == [i \in 1..Len(msgs) |-> [agent |-> agent, msg |-> msgs[i]]]

\* bgp_interrupt for each of a sequence of messages: the first one ends a wait,
\* and the router that no longer waits queues the others.
Interrupted(agent, msgs) ==
  IF Waits /\ msgs # << >>
    THEN /\ InterruptAgent' = agent
         /\ ReceivedMsg' = Head(msgs)
         /\ expire' = 0
         /\ InterruptQueue' = InterruptQueue \o Entries(agent, Tail(msgs))
    ELSE /\ InterruptQueue' = InterruptQueue \o Entries(agent, msgs)
         /\ UNCHANGED <<InterruptAgent, ReceivedMsg, expire>>

-----------------------------------------------------------------------------
(* The scheduler.  Every step is an expiry of the router's timer.            *)

Fetch(m, th) == [m EXCEPT !.fetched = th, !.freed = FALSE]

\* thread_fetch_part1 finds an event, or a thread that is ready.
FetchAtOnce ==
  /\ type = "FETCH1" /\ expire = 0
  /\ \/ /\ master.event # << >>
        /\ master' = [Fetch(master, Head(master.event)) EXCEPT !.event = Tail(@)]
     \/ /\ master.event = << >>
        /\ master.ready # << >>
        /\ master' = [Fetch(master, Head(master.ready)) EXCEPT !.ready = Tail(@)]
  /\ type' = "EXECUTE"
  /\ UNCHANGED <<expire, interrupts, transport, status, sent, got, effects>>

\* Mutant: the queue is not looked at before the wait.
StartWaitMutant ==
  /\ type = "FETCH1" /\ expire = 0
  /\ master.event = << >> /\ master.ready = << >>
  /\ type' = "FETCH2"
  /\ expire' = IF master.timer = << >> THEN Never ELSE master.left[Head(master.timer)]
  /\ UNCHANGED <<master, interrupts, transport, status, sent, got, effects>>

\* Nothing to run: take up the oldest interrupt, or wait for the first timer.
StartWait ==
  /\ type = "FETCH1" /\ expire = 0
  /\ master.event = << >> /\ master.ready = << >>
  /\ type' = "FETCH2"
  /\ IF InterruptQueue = << >>
       THEN /\ expire' = IF master.timer = << >> THEN Never
                         ELSE master.left[Head(master.timer)]
            /\ UNCHANGED interrupts
       ELSE /\ InterruptAgent' = Head(InterruptQueue).agent
            /\ ReceivedMsg' = Head(InterruptQueue).msg
            /\ InterruptQueue' = Tail(InterruptQueue)
            /\ UNCHANGED expire
  /\ UNCHANGED <<master, transport, status, sent, got, effects>>

\* Who listens to the agent that ended the wait becomes ready.
Heard(m) ==
  IF InterruptAgent \in m.read
    THEN [m EXCEPT !.read = @ \ {InterruptAgent},
                   !.ready = Append(@, Read(InterruptAgent))]
    ELSE m

\* Mutant: a timer is due when its time is over, not when it has come.
DueMutant(m) == m

\* The timers that are due become ready.
Due(m) ==
  LET due == {t \in Timer : m.left[t] = 0}
      late == Without(m.timer, Timer \ due)
  IN  [m EXCEPT !.timer = Without(@, due),
                !.ready = @ \o [i \in 1..Len(late) |-> TimerThread(late[i])]]

\* Mutant: the type stays FETCH2.
EndWaitMutant ==
  /\ type = "FETCH2" /\ expire = 0
  /\ LET m == Due(Heard(master))
     IN  IF m.ready = << >>
           THEN master' = m /\ type' = "FETCH1"
           ELSE /\ master' = [Fetch(m, Head(m.ready)) EXCEPT !.ready = Tail(@)]
                /\ type' = type
  /\ InterruptAgent' = None
  /\ UNCHANGED <<expire, InterruptQueue, ReceivedMsg, transport, status, sent, got,
                 effects>>

\* thread_fetch_part2: both go behind what a command has made ready in the
\* meantime, and the first one is fetched.
EndWait ==
  /\ type = "FETCH2" /\ expire = 0
  /\ LET m == Due(Heard(master))
     IN  IF m.ready = << >>
           THEN master' = m /\ type' = "FETCH1"
           ELSE /\ master' = [Fetch(m, Head(m.ready)) EXCEPT !.ready = Tail(@)]
                /\ type' = "EXECUTE"
  /\ InterruptAgent' = None
  /\ UNCHANGED <<expire, InterruptQueue, ReceivedMsg, transport, status, sent, got,
                 effects>>

-----------------------------------------------------------------------------
(* thread_call runs the function of the fetched thread, gives the thread back *)
(* and pauses for workload().  Before the function does anything else it      *)
(* clears the pointer of its peer, so that the thread can be turned on again. *)

Calls(func) ==
  /\ type = "EXECUTE" /\ expire = 0
  /\ master.fetched.func = func
  /\ type' = "FETCH1"
  /\ expire' \in 0..MaxWorkload

Running == Fetch(master, None)
Callee == master.fetched.arg

\* bgp_read while the peer connects: bgp_connect_check.
ReadConnecting ==
  /\ Calls("bgp_read")
  /\ status[Callee] = "Connect"
  /\ master' = EventAdd(Running, Callee,
                        IF link[Callee] \in {"open", "closing"} THEN "opened" ELSE "stop")
  /\ got' = [got EXCEPT ![Callee] = ReceivedMsg]
  /\ UNCHANGED <<interrupts, transport, status, sent, effects>>

\* Mutant: listen again only when a message was read.
ReadMessageMutant ==
  /\ Calls("bgp_read")
  /\ status[Callee] # "Connect"
  /\ LET m == ReadOn(Running, Callee)
     IN  IF ReceivedMsg.size = 0
           THEN master' = EventAdd(Running, Callee, "stop") /\ UNCHANGED effects
           ELSE Affected(m, master')
  /\ got' = [got EXCEPT ![Callee] = ReceivedMsg]
  /\ UNCHANGED <<interrupts, transport, status, sent>>

\* bgp_read: listen again, and read the message; end of file is an event.
ReadMessage ==
  /\ Calls("bgp_read")
  /\ status[Callee] # "Connect"
  /\ LET m == ReadOn(Running, Callee)
     IN  IF ReceivedMsg.size = 0
           THEN master' = EventAdd(m, Callee, "stop") /\ UNCHANGED effects
           ELSE Affected(m, master')
  /\ got' = [got EXCEPT ![Callee] = ReceivedMsg]
  /\ UNCHANGED <<interrupts, transport, status, sent>>

\* bgp_connect_success: listen to the peer, and queue an OPEN.  Like after any
\* event, bgp_timer_set may then set a timer.
EventOpened ==
  /\ Calls("opened")
  /\ Affected(WriteOn(ReadOn(Running, Callee), Callee), master')
  /\ status' = [status EXCEPT ![Callee] = "Open"]
  /\ UNCHANGED <<interrupts, transport, sent, got>>

\* bgp_stop: cancel the threads and events of the peer, drop its messages, close.
\* The write thread stays.
EventStop ==
  /\ Calls("stop")
  /\ LET timers == {t \in Timer : Owner[t] = Callee}
     IN  Affected(EventDelete(TimersOff(ReadOff(Running, Callee), timers), Callee), master')
  /\ m_msgs' = [m_msgs EXCEPT ![Callee] = << >>]
  /\ first' = [first EXCEPT ![Callee] = 0]
  /\ status' = [status EXCEPT ![Callee] = "Gone"]
  /\ UNCHANGED <<interrupts, wire, link, sent, got>>

\* Any other event, timer or write thread.
RunOther ==
  /\ \E func \in {"other", "timer", "bgp_write"} : Calls(func)
  /\ ~master.freed
  /\ Affected(Running, master')
  /\ UNCHANGED <<interrupts, transport, status, sent, got>>

\* A cancelled thread is called all the same: its memory has been freed but, if
\* nothing was allocated since, still holds the function and its argument.
RunFreed ==
  /\ Calls("timer")
  /\ master.freed
  /\ Affected(Running, master')
  /\ UNCHANGED <<interrupts, transport, status, sent, got>>

\* Mutant: the command does not wake up the router.
CommandMutant ==
  /\ effects < MaxEffects
  /\ master' \in Effects(master)
  /\ effects' = effects + 1
  /\ UNCHANGED <<type, expire, interrupts, transport, status, sent, got>>

\* The Tcl command "command", at any time: it is executed at once, whatever the
\* router is doing, and then wakes it up.  It may cancel a timer (`network').
Command ==
  /\ effects < MaxEffects
  /\ master' \in Effects(master)
  /\ effects' = effects + 1
  /\ Interrupted(None, <<None>>)
  /\ UNCHANGED <<type, transport, status, sent, got>>

-----------------------------------------------------------------------------
(* The network and the other ends.                                           *)

\* The handshake is over, or has failed: recv(0).
Answer(c) ==
  /\ link[c] = "opening"
  /\ \E l \in {"open", "closed"} : link' = [link EXCEPT ![c] = l]
  /\ Interrupted(c, <<Zero(c)>>)
  /\ UNCHANGED <<type, master, m_msgs, first, wire, status, sent, got, effects>>

\* sendMessage of the other end, which gives up if it finds no list here.
SendMessage(c) ==
  /\ link[c] = "open" /\ status[c] # "Gone"
  /\ sent[c] < MaxMessages[c]
  /\ sent' = [sent EXCEPT ![c] = @ + 1]
  /\ \E s \in Size :
       /\ m_msgs' = [m_msgs EXCEPT ![c] = Append(@, [conn |-> c, id |-> sent[c] + 1, size |-> s])]
       /\ wire' = [wire EXCEPT ![c] = @ + s]
  /\ UNCHANGED <<type, expire, master, interrupts, first, link, status, got, effects>>

\* The bytes of the first k messages.
Bytes(msgs, k) ==
  LET sum[n \in 0..Len(msgs)] == IF n = 0 THEN 0 ELSE sum[n - 1] + msgs[n].size
  IN  sum[k]

\* How many of the messages n bytes are enough for.
Complete(msgs, n) ==
  CHOOSE k \in 0..Len(msgs) :
    /\ Bytes(msgs, k) <= n
    /\ k = Len(msgs) \/ Bytes(msgs, k + 1) > n

\* Mutant: bytes of an incomplete message are forgotten.
RecvMutant(c) ==
  /\ \E n \in 1..wire[c] :
       /\ wire' = [wire EXCEPT ![c] = @ - n]
       /\ IF status[c] = "Gone"
            THEN UNCHANGED <<m_msgs, first, interrupts, expire>>
            ELSE LET k == Complete(m_msgs[c], first[c] + n)
                     msgs == SubSeq(m_msgs[c], 1, k)
                     rest == SubSeq(m_msgs[c], k + 1, Len(m_msgs[c]))
                 IN  /\ m_msgs' = [m_msgs EXCEPT ![c] = rest]
                     /\ first' = [first EXCEPT ![c] = 0]
                     /\ Interrupted(c, msgs)
  /\ UNCHANGED <<type, master, link, status, sent, got, effects>>

\* Bgp::recv: bytes of a connection that has no list are ignored, and so are
\* bytes that are left over when the list is empty.
Recv(c) ==
  /\ \E n \in 1..wire[c] :
       /\ wire' = [wire EXCEPT ![c] = @ - n]
       /\ IF status[c] = "Gone"
            THEN UNCHANGED <<m_msgs, first, interrupts, expire>>
            ELSE LET k == Complete(m_msgs[c], first[c] + n)
                     msgs == SubSeq(m_msgs[c], 1, k)
                     rest == SubSeq(m_msgs[c], k + 1, Len(m_msgs[c]))
                 IN  /\ m_msgs' = [m_msgs EXCEPT ![c] = rest]
                     /\ first' = [first EXCEPT ![c] = IF rest = << >> THEN 0
                                                      ELSE @ + n - Bytes(m_msgs[c], k)]
                     /\ Interrupted(c, msgs)
  /\ UNCHANGED <<type, master, link, status, sent, got, effects>>

\* The other end closes; FullTcp gives up what it has not transmitted.
CloseThere(c) ==
  /\ link[c] = "open"
  /\ link' = [link EXCEPT ![c] = "closing"]
  /\ \E n \in 0..wire[c] : wire' = [wire EXCEPT ![c] = n]
  /\ UNCHANGED <<type, expire, master, interrupts, m_msgs, first, status, sent, got,
                 effects>>

\* The FIN comes after the last byte: recv(0).
Fin(c) ==
  /\ link[c] = "closing" /\ wire[c] = 0
  /\ link' = [link EXCEPT ![c] = "closed"]
  /\ Interrupted(c, <<Zero(c)>>)
  /\ UNCHANGED <<type, master, m_msgs, first, wire, status, sent, got, effects>>

Tick ==
  /\ expire \in Nat \ {0}
  /\ expire' = expire - 1
  /\ master' = [master EXCEPT !.left = [t \in Timer |-> IF @[t] = 0 THEN 0 ELSE @[t] - 1]]
  /\ UNCHANGED <<type, interrupts, transport, status, sent, got, effects>>

Timeout ==
  \/ FetchAtOnce \/ StartWait \/ EndWait
  \/ ReadConnecting \/ ReadMessage \/ EventOpened \/ EventStop \/ RunOther \/ RunFreed

Network(c) == Answer(c) \/ Recv(c) \/ Fin(c)

Next ==
  \/ Timeout \/ Command \/ Tick
  \/ \E c \in Conn : Network(c) \/ SendMessage(c) \/ CloseThere(c)

\* The simulator runs what is due before time goes on, and delivers what was sent.
Fairness ==
  /\ WF_vars(Timeout)
  /\ WF_vars(Tick)
  /\ \A c \in Conn : WF_vars(Network(c))

Spec == Init /\ [][Next]_vars
FairSpec == Spec /\ Fairness

-----------------------------------------------------------------------------
(* The unread messages of a connection, in all the places they can be in.    *)

Taken(c) ==
  IF (type = "FETCH2" /\ InterruptAgent = c) \/ On(master, Read(c))
    THEN <<ReceivedMsg>> ELSE << >>

MessagesOf(queue, c) ==
  Those([n \in DOMAIN queue |-> queue[n].msg], {n \in DOMAIN queue : queue[n].agent = c})

Queued(c) == MessagesOf(InterruptQueue, c)

Whole(msgs, n) == SubSeq(msgs, 1, Complete(msgs, n))

Coming(c) ==
  Whole(m_msgs[c], first[c] + wire[c])
    \o IF link[c] = "closing" THEN <<Zero(c)>> ELSE << >>

Unread(c) ==
  IF status[c] = "Gone" THEN << >> ELSE Taken(c) \o Queued(c) \o Coming(c)

C(c) == INSTANCE Channel WITH pipe <- Unread(c), got <- got[c]

\* Scheduler and transport together implement the FIFO channel: through late
\* read threads, messages that queue up while the router is busy, bytes that come
\* in pieces, and closes at either end, no message of an open session is lost,
\* read twice, read out of order or by the wrong peer.
IsChannel ==
  /\ \A c \in Conn : C(c)!Init
  /\ [][\A c \in Conn : UNCHANGED <<Unread(c), got[c]>> \/ C(c)!Next]_vars

\* The router never sleeps on work: while it waits nothing is runnable and no
\* interrupt is queued, and it wakes up before any of its timers is overdue.
WakesInTime ==
  type = "FETCH2" =>
    /\ \A t \in Range(master.timer) : expire # Never /\ expire <= master.left[t]
    /\ expire # 0 => /\ master.event = << >> /\ master.ready = << >>
                     /\ InterruptQueue = << >>

\* A session that is up is listened to by exactly one read thread, which waits for
\* the agent or is on its way to run; never by none, never by two.
Listening ==
  \A c \in Conn :
    /\ status[c] = "Open" => (c \in master.read) # On(master, Read(c))
    /\ status[c] = "Gone" => c \notin master.read /\ ~On(master, Read(c))
    /\ \A i, j \in DOMAIN master.ready :
         master.ready[i] = Read(c) /\ master.ready[j] = Read(c) => i = j

\* Bytes and messages stay in step as long as neither end has closed: what has been
\* counted or is on its way is what the queued messages need, and a message that
\* is complete is not left behind.  So no byte comes without its message.
BytesMatch ==
  \A c \in Conn :
    /\ status[c] # "Gone" /\ link[c] = "open" =>
         first[c] + wire[c] = Bytes(m_msgs[c], Len(m_msgs[c]))
    /\ m_msgs[c] # << >> => first[c] < Head(m_msgs[c]).size

\* Every message that is sent is read in the end, or the connection closes.
AllRead ==
  \A c \in Conn :
    sent[c] # got[c].id ~>
      sent[c] = got[c].id \/ link[c] # "open" \/ status[c] = "Gone"

\* Every timer that is set runs in the end or is cancelled.
TimersRun ==
  \A t \in Timer : t \in Range(master.timer) ~> t \notin Range(master.timer)

=============================================================================
