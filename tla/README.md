# TLA+ models of BGP++ with convergence detection

The repository holds two copies, NS1 and NS2, of the network simulator ns-2.35
with BGP++ 1.05 (a port of the Zebra routing daemon into the simulator). NS1 and
NS2 run as two processes: when something happens in NS1, its route server starts
NS2, which computes the effect and detects when its network has converged. The
code that matters here is `src/NS2/ns-allinone-2.35/ns-2.35/bgp/bgp.cc`; line
numbers below are of that file unless another is named. The build is the default
one: neither `HAVE_ZEBRA_93b`, `HAVE_PDNS_BGP` nor `HAVE_PERFCTR` is set.

## Inventory

| part | state it keeps | operations | correct when |
|---|---|---|---|
| MRAI per prefix (default) | `update_stamps`, `top_adv`, `t_routeadv_list`, Adj-RIB-Out of each peer | `bgp_process`, `bgp_update_send_check`, `bgp_withdraw_send_check`, `bgp_routeadv_timer`, `bgp_refresh_rib`, `bgp_static_set`, `bgp_establish`, `bgp_stop` | what is suppressed is released in time, and what the neighbour holds is the last decision |
| MRAI per peer | `t_routeadv`, `top_adv`, output buffer, `t_write` | the same, and `bgp_write`, which flushes | nothing is stranded between timer and flush; the interval is kept |
| Convergence detection (NS2) | `prefix_map`, `ls_array[]->network_queue` and `process_queue`, `mrai_map`, shared by all routers | `bgp_update_send`, `bgp_withdraw_send`, `nlri_parse`, `check_convergence`, `bgp_routeadv_timer` | convergence is announced when, and only when, nothing is on its way or held back |
| Session FSM | `status`, start, connect, hold and keepalive timers of each peer | FSM table (175), `bgp_event`, `bgp_open_receive`, `bgp_collision_detect` | two ends agree; no session is left half open |
| Decision process, RIB | `bgp_info` lists and flags, `pcount` | `bgp_info_cmp`, `bgp_process`, `bgp_update`, `bgp_implicit_withdraw`, `bgp_withdraw`, `bgp_route_clear` | what the neighbours were told is a best route of those that can be used, independent of arrival order if deterministic-med is set; the table has what each peer said last |
| Dampening | penalty, reuse lists, the thread that scans them, `first_time_insert` | `bgp_damp_withdraw`, `bgp_damp_update`, `bgp_reuse_timer`, `bgp dampening` and its `no` form | a route that is suppressed is on a list that a thread will scan |
| Thread scheduler | event, ready, timer and read lists, `type`, `thread_to_be_fetched`, `InterruptQueue` | `thread_fetch_part1`, `thread_fetch_part2`, `timeout`, `bgp_interrupt`, `thread_cancel` | no thread and no message is lost; the router does not sleep on work |
| Byte transport | `m_msgs`: bytes and messages of each agent | `sendMessage`, `acceptMessage`, `recv` | messages arrive once, in order |
| Route server (NS1) | `event_received`, two Tcl scripts and their copies | `nlri_parse` of NS1, `ns2_send_recv`, `RSAgent::recv`, `MessagePassingAgent::recv` | NS2 computes the event it was started for and no other |
| PDNS (`rti/`) | local time, pending messages | time synchronisation | no federate runs ahead |

The parts interact as follows. A session delivers bytes to `Bgp::recv`, which
interrupts the router; the scheduler runs `bgp_read`, which calls `nlri_parse`,
which calls `bgp_update` or `bgp_withdraw` and so `bgp_process`. This tells every
established peer, through the MRAI check, and counts each message in the shared
counters of convergence detection; `nlri_parse` finishes by looking at these
counters. Timer threads and Tcl commands call the same functions at any other
time. All routers of the simulation live in one process and one thread: the
interleaving is that of simulator events, so a handler is atomic, but timers
may be late (`thread_fetch_part1` runs events and ready threads first, and a
workload model adds delays), and everything that waits for a timer, a write
thread or a message can be overtaken.

What is hard here: late timers and direct sends that overtake them; a list of
timers with entries that get lost; flushes spread over several runs of
`bgp_write`; sessions that stop with things pending; counters shared by routers
that must match what is on its way. `PROJECT.json` lists each hazard at its line.

## Modules

`Outbound` is the abstract specification of the outbound side of a session: told,
wanted and held for each prefix, no clock and no timers. Both MRAI modules
implement it (`KeepsPromise`); the mapping takes `held` from `top_adv`. It allows
what the code does allow (an update held back may become superseded), and it
forbids the rest: that a withdrawal leaves something held, that a release sends
something else than what is held, that anything survives the session.

`MraiPrefix` models one session in the default mode. `peer` is the part of `struct
peer` involved: `adj_out`, `top_adv`, `stamp` (the age of `update_stamps`, as ticks
that are left of the interval), `timer` (all pending `bgp_routeadv_timer` threads),
`listed` and `newest` (the part of `t_routeadv_list` that can still be reached).
`routeadv_list_remove` loses the rest of the list when it removes the head, so
`timer` may have threads that `listed` has not. `told` and `wanted` are history
variables: what the neighbour was sent, and what the last run of
`bgp_announce_check` decided. Actions: `Process` (`bgp_process`), `NetworkCommand`
(`bgp_static_set`, which cancels what is suppressed and then decides),
`RouteadvTimer`, `SetPolicy`, `Refresh` and `RefreshPrefix` (`bgp_refresh_rib`, one
prefix at a time but not interleaved with anything), `Establish`, `Stop`, `Tick`.

`MraiPeer` models one session when "mrai-per-peer" is set: one timer, a list in
order of age, the output buffer as a number of packets, and `Write`, which takes
one packet and queues the next suppressed update. `since` is a history variable,
the ticks since `t_routeadv` was last turned on.

`ConvDet` models the counters and marks over several routers, one for each AS,
for one prefix. What a router decides is left open, and a session is reduced to
four facts: up or not, announced, update held, interval running. `inbox` has the
messages that will be parsed, by sender; `lost` is a history variable, the messages
that were counted and never will be. `Command`, `NetworkCommand` and
`RefreshCommand` are decisions outside of `nlri_parse`; `ReceiveChange` and
`ReceiveNoChange` are whole runs of `nlri_parse` with what they call; `TimerPrefix`,
`TimerPeer` and `Flush` are the three ways to release an update. A session ends with
`Stop` at one of its ends (`bgp_stop`, which clears the routes that were learned from
the neighbour first and so may send to the others) and with another `Stop` or
`Abandon` at the other; `Close` says what becomes of the messages on their way:
those to the end that stops are lost, and of those from it the neighbour gets as many
as FullTcp has transmitted. `Connect` and `Establish` bring the session up again.

`BgpSched` models the scheduler of one router and the transport below it. `type` has
the three phases of `Bgp::timeout`: fetch, wait, execute; between two of them
bytes may come, time may pass and a Tcl command may run. `master` is `struct
thread_master` with the thread that was fetched, and `freed` says that it has been
cancelled since. Bytes and messages are two things (`wire` and `m_msgs`, as in
`sendMessage`), and come together in `Recv`; an interrupt either ends the wait or
joins `InterruptQueue`. A thread function runs to its end with one of a few effects on
the scheduler (`Effects`: a thread more, a timer set or cleared, an event), which is
what the functions of the FSM and the MRAI threads do. Actions: `FetchAtOnce`, `StartWait`
(`thread_fetch_part1`), `EndWait` (`thread_fetch_part2`), `ReadConnecting`, `ReadMessage`,
`EventOpened`, `EventStop`, `RunOther`, `RunFreed` (what is executed), `Command`,
`SendMessage`, `Recv`, `Answer`, `CloseThere`, `Fin` (the other end and FullTcp) and
`Tick`. `Channel` is the abstract specification: a FIFO of messages that ends when an
end closes. `IsChannel` is the refinement; the pipe is what was taken by the reader
and not yet read, then what is queued, then what is complete or will be.

`BgpRib` models one prefix in the table of one router: the list of `bgp_info` with
their flags, `bgp_info_cmp` with its options, the passes of deterministic MED (over
places in the list, which stand for the pointers of the code), and
what an UPDATE (new, replacing, repeating), a denied one, a withdrawal and the end of a
session do to the list, to `pcount` and to the penalties. The reuse lists and the
thread that scans them are `lists` and `damp`; `Configure`, `Resume` and `Disable` are
the commands. `config` has the options of the decision process and the set of peers
that are internal. `heard` is a history variable, what each peer said last. `LocRib` is the
abstract specification: without any list, the routes that may be told are
defined by what they are, and `Overlook` is the step in which routes become usable
and nobody looks. `Ordered` says when the comparisons give an order, so that the choice
is one of the equally good routes and not merely one of the best rank: always with
"always-compare-med"; with "deterministic-med" unless routes without an AS path, whose
MEDs differ, are as good as a route with one. Only "bestpath as-path ignore" makes that
possible, since otherwise the length of the AS path, part of `rank`, tells them apart.
The model takes any combination of `rank` and `as`, so that option is included.

`RouteServer` models the three handlers of NS1 that append an event to a script, copy
it, run NS2 and restore the script, with shell commands that fail and a process that
is restarted between two of them while the files stay. `result` is what NS2 was started
for and what it computed; `spoiled` are the scripts that a fault has left dirty.

`BgpFsm` models two routers that are configured as peers of each other, so both
connect and both accept. `peer` is the configured peer of each: status, connection
(`LocalAgent`), the thread that reads it, the write thread, output buffer, timers and
events. `accepted` has the temporary peers of `bgp_accept`, which only exist until
they have read one message. `inbox` is `InterruptQueue`, and `tcp` what FullTcp knows:
the state of both ends, what is on its way, and which end has a list (`m_msgs`)
without which a message cannot be sent or received. The FSM is the code's table; what
it does not list leads to Idle through `bgp_ignore`. A handler is one action, and the
order is the scheduler's: events, then `bgp_write`, then interrupts, then timers when
there is no event. Actions: `PeerEvent` and `AcceptedEvent` (`bgp_event`),
`TimerExpires` and `AcceptedHoldExpires`, `Write` (`bgp_write`), `Interrupt`
(`bgp_accept`, `bgp_read` of either kind of peer, `bgp_connect_check`, or nobody),
`Deliver` (the network and `Bgp::recv`) and `ClearBgp`. A close may cost up to
`MaxLost` of the last messages, because `FullTcpAgent::usrclosed` gives up what it has
not transmitted; apart from that the network loses and reorders nothing.

The theorems are in `MraiPrefix_proofs`, `MraiPeer_proofs`, `ConvDet_proofs`,
`BgpFsm_proofs`, `BgpFsmPair_proofs`, `BgpSched_proofs`, `BgpRib_proofs` and
`RouteServer_proofs`. The `MC` modules give values to constants. Operators marked
"Mutant" are wrong versions of the operator that follows them: with them in place, TLC
refutes the property named in `PROJECT.json`.

## Runs

| run | shows |
|---|---|
| `MraiPrefix` | types; `ReleasedInTime`; `AdjOutIsTold`; the refinement; the only ways to lose the last decision and to supersede an update |
| `MraiPrefixLive` | `Drains`: a suppressed update is released although the prefix flaps for ever |
| `MraiPrefixLatest` | violated: a late timer releases an update that has been superseded |
| `MraiPeer` | types; `NoneStranded`; `OneForEachPrefix`; `AdjOutIsTold`; the refinement; the only way to lose the last decision; `IntervalBetweenDecisions`; `DrainsWhenQuiet` |
| `ConvDet` | types; `AccountedFor`; `ExactWithoutMrai`; `LeftOverIsMarked`, with sessions that stop and come up again |
| `ConvDetEarly` | violated: convergence announced while an update is held back |
| `ConvDetNever` | violated: convergence never announced |
| `BgpFsm` | types; `NeverStuck`; `UsesConnection`; `NotOneSided`; `NoEarlyUpdate`; `GoneIsKnown` |
| `BgpSched` | types; `Listening`; `BytesMatch`; `IsChannel`, the refinement of `Channel` for each connection |
| `BgpSchedLive` | `WakesInTime`; `AllRead`; `TimersRun` |
| `BgpRib` | types; `RibIsHeard`; `StrandedOnlyByCommand`; `IsLocRib`, the refinement of `LocRib`; `StaleOnlyByReuse`; `CountDriftsByDenial` |
| `RouteServer` | types; `ComputesEvent` |

The three violated runs are findings; each quotes the line that says otherwise.

1. `MraiPrefixLatest`. The interval is judged by the timestamp, the release is done
   by the thread. If the interval is over and the thread is late, a newer update
   goes out first and the older one last, and stays with the neighbour.
   `doc/mrai/README:43` promises that the latest one is propagated.
2. `ConvDetEarly`. `mrai_map` has one mark for an AS, not for a session: the first
   release clears it for all neighbours.
3. `ConvDetNever`. A withdrawal that drops a suppressed update leaves the mark.

Other weaknesses of the code are in the models without a run of their own. The
properties above are stated so that they hold in spite of them, and say
how far they reach:

- `routeadv_list_remove` (38202) loses the rest of the list when it removes the head, so
  `bgp_mrai_timers_off` (38672), which "cancels all pending timers", leaves some, and
  they outlive the session. `ReleasedInTime` and `KeepsPromise` show that they do no
  harm: they find nothing to release, or release what is due.
- Per peer, `bgp_routeadv_timer` (38428) leaves the timer off after a release, so the
  update after it is not held back. `IntervalBetweenDecisions` says what is left of
  the interval: two decisions that are sent at once are that far apart.
- `bgp_open_receive` (14144) returns -1 for the OPEN that loses a collision. If it came
  to the configured peer, nothing closes the connection, which the comment at 14055 says
  is closed. `NotOneSided` and `GoneIsKnown` hold all the same.
- `thread_cancel` (37445) of a thread that was fetched frees it and leaves
  `thread_to_be_fetched`, so that it is executed. `Listening`, `IsChannel`,
  `TimersRun` hold as long as the memory still has what it had.
- A message that is lost with its session stays counted, and `network_queue` never
  becomes zero: detection is late for ever, never early (`SilentAfterLoss`).
- An UPDATE that is denied after a withdrawal that left the route as history counts
  `pcount` down a second time (16255); `CountDriftsByDenial` says that nothing else does.
- `first_time_insert` (8835) is never set again: after a command that cancels the reuse
  thread, routes that become suppressed wait for ever, and those that were suppressed
  are no longer on a list. `StrandedOnlyByCommand` says that only these steps strand a
  route. The thread, `no bgp dampening`, and a new route that is one too many make
  routes usable without a decision (`StaleOnlyByReuse`).
- With "deterministic-med" `bgp_process` groups the routes by AS (15973), but routes without
  an AS path have no group, though `bgp_info_cmp` compares the MEDs of two of them. With
  "bestpath as-path ignore" they tie with routes of an AS and can form a cycle: of three
  internal ones, without a path and MED 0, without a path and MED 1, and with a path,
  whose identifiers are 3, 1 and 2, each is preferred to the next, and the last to the
  first. The choice then depends on the order of the list. `LocRib` promises no more than
  the best rank there.
- An entry can be put on a second reuse list (8846); the model stops there (`broken`).

### Bounds

`Mrai = 2` ticks separates "inside", "about to end" and "over" and lets stamps of two
prefixes differ. Two prefixes share the timer list, two threads (`Tid`) let one
be lost while the other is listed; a step that would need a third is not taken.
Two routes and two policies give updates with different attributes, withdrawals
through filtering, and a change of policy that only a refresh propagates.
`MaxObuf = 3` leaves room for a table of two prefixes and a KEEPALIVE. The
symmetry in `MraiPrefix.cfg` permutes prefixes, which nothing orders; runs that check
liveness use none. In `ConvDet`, three routers in a line give the middle one two
neighbours. `Budget` is a set of bounds, on decisions, on those among them that
commands cause, and on ends of a session that stop: 3/2/0, 2/1/1 and 1/1/3. Two stops
are what it takes for a session to end at both ends and be established again, and the
third ends the new one, before or after it is Established. The
runs for the findings have 5/1/0: their shortest counterexamples need one command and
at most five decisions. Reading the line from its other end is the symmetry.

In `BgpFsm`, `MaxUse = 3` bounds together the connections opened, the `clear ip bgp`
commands and the hold timers that expire. Two connections are a collision; the third
is a retry after one that was refused, lost or cleared, or a hold timer or a clear in
the middle of a collision. `MaxLost = 1` lets a close cost the OPEN, KEEPALIVE or
NOTIFICATION before it. The KEEPALIVE timer waits until the last KEEPALIVE has
arrived: without it queues would grow without a limit. When connections are used up
the model stops, so deadlock is not checked; `NeverStuck` is the part of it that
the code is responsible for.

In `BgpSched`, messages of two bytes can be delivered in part, and two messages can be
complete at once; the second connection only opens and closes, so that the threads and
interrupts of one meet those of the other. `BgpSchedLive` has one connection,
two timers with different intervals and a workload of up to one tick
(`MaxWorkload`), so a timer can become due while the router is busy. `MaxEffects` bounds
what handlers and commands do to the scheduler beyond reading.

In `BgpRib`, all combinations of options are checked except that of
"always-compare-med" and "deterministic-med", which the proof covers. Two external peers
in different ASes and an internal one that hears of the first AS are the smallest case in
which the order of the list decides without deterministic-med; two of the peers may send
a route without an AS path as well. One more configuration has three internal peers,
"deterministic-med" and "compare-routerid", where the comparisons can form a cycle: if
`Ordered` did not leave that case out, the run would be violated. Eight inputs are enough to configure dampening, to be damped after
two withdrawals and announced again, and to be withdrawn or reconfigured once more;
`Slots = 2` lists make "the list scanned next" and "another" different, and
`CountModulus = 4` stands for the width of `pcount`. In `RouteServer`, four events and two
faults let a fault in one handling be followed by one in the next, on either script.

### Fairness

`MraiPrefix` and `MraiPeer` assume strong fairness of the clock and of each timer
or write thread, and weak fairness of the walk of a refresh. The simulator
goes on to the next event whenever the ones of this instant are done, so time
passes as long as finitely many commands run at an instant; `thread_fetch_part2`
moves every timer that is due to the ready list, which is served in order.
Strong fairness is needed because another thread (a refresh) may run between and
disable the action for a moment. `Drains` needs no assumption about the
decision process; `DrainsWhenQuiet` assumes that it is quiet in the end, because per
peer each new update goes to the end of the list and only one is sent for each
interval or packet. `BgpSchedLive` assumes weak fairness of the router's own simulator
timer (`Timeout`), of the clock, and of the network for each connection: the event loop
of ns-2 serves its events in order, and FullTcp delivers what was sent unless the
connection closes. Nothing about fairness is used for safety; `BgpFsm`, `BgpRib`,
`RouteServer` and `ConvDet` state none.

## Proofs

All theorems hold for every value of the constants that satisfies the named
assumptions of the modules: `NoRoute` and `NoTimer` are not values they could be
confused with, `Export` and `Adjacent` have their types, no router is its own
neighbour, there are finitely many routers, connections and timers, a message has at
least one byte, `Never` is not a time, `Mrai` and the bounds are natural numbers.

`MraiPrefix_proofs` proves that `TypeOK`, `ReleasedInTime`, `ListIsPending`,
`AdjOutIsTold` and `DownIsClean` are invariants. `ReleasedInTime` is not inductive
alone: a thread found in the list is reused for a newer update, so the list must
have only pending threads for different prefixes (`ListIsPending`), and a listed or
lost thread must not outlast the stamp of its prefix; `IInv` is that conjunction.
The argument goes through lemmas about each helper (removing a thread, cancelling,
suppressing, marking as sent) that carry the session part of the invariant through
a step, then one lemma for each action.

Its second part goes on from `IInv`. `StepEffect` says what a step does to
what an outside observer sees (the session, `told`, `wanted`, `top_adv`): a
decision, a release, a cancellation, the session coming up or going down, or
nothing. From it follow `KeepsPromise` (the session implements `Outbound`),
`LostOnlyByOvertaking`, `SupersededOnlyByDirectSend`, and `DisabledIsSynchronous`:
with an interval of zero, which also stands for `MRAI_DISABLE`, every decision
reaches the neighbour in the step that takes it. The last is not checked by a run,
because the runs have a positive interval.

`ConvDet_proofs` proves `TypeOK`, `AccountedFor`, `NeverNegative`, `LeftOverIsMarked`,
`ExactWithoutMrai` and `SilentAfterLoss` for any number of routers and any topology.
What is on its way to a router is a sum over its neighbours, which is stated as the
cardinality of a set (`Total`), because a recursive sum could not be reasoned about:
`TotalChange` says what one message more or less does to it. `Booked` is the
equation of `AccountedFor` for any queues, and `SentBooked`, `TakenBooked` and
`CloseBooks` say that sending, parsing and closing keep it; each action is then a
combination of these. `ExactWithoutMrai` follows from an invariant that says that
nothing is held or marked when MRAI is off; `LeftOverIsMarked` is what makes
`nlri_parse` find zero when it has finished an unmarked message, which is why detection
is complete then. `SilentAfterLoss` follows because `lost` never decreases and is part
of `network_queue`.

`RouteServer_proofs` proves `TypeOK` and `ComputesEvent` for any events and any number
of faults. The invariant relates the scripts to the step of the handling that is under
way: a script that no fault has spoiled has nothing beyond the basic one, except for
the lines of the handling that uses it, and its copy has the same after the copying.

`MraiPeer_proofs` proves everything about the session per peer that is not liveness:
`TypeOK`, `NoneStranded`, `OneForEachPrefix`, `AdjOutIsTold`,
`IntervalBetweenDecisions`, `LostOnlyByOvertaking` and `KeepsPromise`. `NoneStranded` is
not inductive without `DownIsClean` (what `bgp_stop` leaves), and the properties of steps
need `SinceFollowsTimer` (the history variable and the timer tell the same time) and
`WalkHasRoom` (a refresh that is under way finds the session up and room in the
buffer). Lemmas say what removing and appending do to a list with one entry for each
prefix; they are what carries `OneForEachPrefix` and the refinement.

`BgpFsm_proofs` proves `TypeOK`, `NeverStuck` and `UsesConnection` for any number of
connections, lost messages and clears. `NeverStuck` needs to know why a peer may be
without a timer: an event is queued, or the write thread will run on a closed
connection and fail (`Awake`). For the latter, and for `UsesConnection`, a connection
that a peer, a temporary peer or an interrupt refers to must have got as far as the
code assumes (`InUse`, `Reached`), and "opening" must end with the handshake
(`HandshakeFirst`); `TCP_connection_open` is always the first of the queued events
(`OpenIsNext`), since it would send an OPEN on no connection after a Stop. States of a
connection are never entered twice (`Later`), which carries all this through a step.

`BgpFsmPair_proofs` proves `NotOneSided`, `NoEarlyUpdate` and `GoneIsKnown`, which relate
the two routers. Each is far from inductive: whether a session may be Established
depends on what the other router has sent, what TCP has delivered, what waits in
`InterruptQueue` and what was lost when an end closed. `PairInv` looks at each
connection from its two ends. `End` is what one router has to do with it: status,
output buffer, queued events and threads, of the configured peer or of a temporary one.
The invariant has a part for a peer alone (`Shape`: a queued event finds the status it
was queued for, and only `clear ip bgp` queues behind another event) and five for an end
and the one opposite:

- `Fins`: a FIN comes from an end that is closed, and a close sends one.
- `Owner`: an end belongs to the thread of `bgp_accept`, to a temporary peer or to the
  configured peer, never to two; an end that somebody still owns is not closed before
  the other.
- `Hears`: an owner that has not noticed a close has the FIN or the interrupt before it,
  the event queued, or a `bgp_write` that will fail. This is `GoneIsKnown`, stated so
  that the transfer from a temporary peer (`bgp_open_receive`) keeps it.
- `Opens`: there is at most one OPEN in each direction, in one place (output buffer,
  network, interrupt, or read), and none before the end that sends it has left Connect.
- `Confirms`: who sends a KEEPALIVE is in OpenConfirm or has left the connection for ever
  (`Past`), which is `NotOneSided`; and an UPDATE has the KEEPALIVE before it (`Follow`),
  which is `NoEarlyUpdate`.

The parts need each other: `Confirms` rests on `Opens`, because a second OPEN would take
an Established peer to Idle; `Opens` rests on `Owner`, because two peers on one connection
would send two. The proof first says what `Append`, `Tail` and the loss at a close do to
the order of messages, then has a lemma for each way one end can change (an event is
queued, a buffer is written, a message arrives, is taken, or is dropped, an end closes,
a peer retries, a connection is accepted, transferred or declined), and shows each action
to be a combination of these that leaves the other connections alone. TLC found no
violation of `PairInv` in the states of the run `BgpFsm` before it was proved.

`BgpRib_proofs` proves all six properties of the run, for any peers, attributes (a route
without an AS path may have the rank of one with a path), options, bounds of dampening
and number of reuse lists. The order of the list enters
only through the recursion over it (`Scan`): by induction on the place, the route that
is left has the best rank, and is preferred to all others if the preference is an order on
those of the best rank (`ScanFindsBest`). It is one with "always-compare-med"; it is not
without, and there "deterministic-med" compares only the winners of each AS, on which it
is one where `Ordered` says so (`OrderedTops`). From this follow `IsLocRib` and that a run
of `bgp_process` leaves nothing stale. The table, the counter and the
reuse lists have an invariant each (`TablesOK`, `CountsOK`, `DampOK`), with lemmas for each
helper that say which of them it keeps and for which peers. `StayWaiting` says of a step
that it strands no suppressed route; every step has it but the two that
`StrandedOnlyByCommand` names. It needs `Idle`: without a configuration the lists are
empty and nothing is put on them, so the first configuration strands nothing.

`BgpSched_proofs` proves all safety properties of the two runs of the scheduler, for any
connections, timers, sizes of messages and bounds. What picking elements out of a
sequence, and summing up the sizes of messages, give is proved first (`Those`, `Bytes` and
`Complete` are recursive functions, so by induction on the place). The invariant has
three parts. `Sched`: the timers are in the order of their times, a read thread is in
at most one place, only the thread of a timer is cancelled after it was fetched
(`MasterOK`), an interrupt of an agent brings a message (`InterruptsOK`), and a wait ends
in time (`WaitOK`). `Conns`: a connection has its reader, unless it was closed or an
event will open or close it (`ConnOK`). `Transport`: bytes and messages agree
(`TransportOK`). `Listening` is not inductive without `MasterOK`, which says that a
reader that is ready or runs does not listen as well, nor without the events of
`ConnOK`. For `IsChannel` each step is mapped: `SendMessage` and `Answer` put
a message into the pipe, `ReadMessage` takes one, `EventStop` closes here, `CloseThere`
cuts the pipe to the messages whose bytes are already sent; `Recv`, `Fin`, `StartWait`
and `EndWait` move messages along inside the pipe and are stutters.

`ListIsPending`, `DownIsClean`, `NeverNegative`, `DisabledIsSynchronous` and
`SilentAfterLoss` are proved and not part of a run.

Every invariant, action property and refinement that a passing run checks is proved.
Model-checked only: liveness (`Drains`, `DrainsWhenQuiet`, `AllRead`,
`TimersRun`), which is out of the prover's reach with ENABLED. The three violations
(`MraiPrefixLatest`, `ConvDetEarly`, `ConvDetNever`) are counterexamples of TLC.

## Not modelled

- What follows a use after free: other contents of a cancelled thread that is executed
  (`BgpSched` keeps it), `bgp_advertise_remove_by_prefix` walking on from a freed entry,
  timer threads whose peer was deleted (`peer_delete`), a corrupted reuse list.
- `advertisement-interval` changed while a session is up.
- In `ConvDet`: several prefixes, and with them the 100 entries of `ls_array` and the key
  without a prefix length.
- In `BgpFsm`: passive peers, shutdown and maximum-prefix, an OPEN with bad contents or
  a hold time of 0, more than two routers, the length of the timers. Two temporary
  peers that collide with each other while the session is Established (14150 looks at the
  status only if there was no collision) are possible in the model, but only with more
  connections than the run has.
- In `BgpSched`: accepted connections (they are in `BgpFsm`), and a second read thread
  that `bgp_connect` adds for a peer in another federate of PDNS.
- In `BgpRib`: the arithmetic of dampening (penalties are halved at any time, the list
  for an entry is any list; the formulas at 8760 for ceiling and reuse index are not
  translated), soft reconfiguration, other address families, confederations,
  aggregation, and entries that stay as history for ever. What `bgp_info_cmp` compares
  before the MED is one number, `rank`.
- In `RouteServer`: what the event does inside NS2. `nlri_parse` of NS1 always writes the
  same change of policy and writes it for an UPDATE only, and the results are not read
  back (`bgp_update_rs` is commented out); lines that stay in a script after "$ns run" are
  not executed.
- PDNS (`rti/`), which the default build leaves out.
- Text: configuration, dumps, regular expressions, route-map matching (`Export`
  stands for what a policy does to a route).
- ns-2 itself and the bundled libraries; `bgp_advertise.cc`, which the default
  build leaves empty; `code_snippets`, which write Tcl text.

## Plan

Done: `MraiPrefix`, `MraiPeer`, `Outbound`; `ConvDet` with session loss; `BgpFsm`;
`BgpSched` with `Channel`; `BgpRib` with `LocRib`; `RouteServer`; proofs of `MraiPrefix`,
`MraiPeer`, `ConvDet`, `BgpFsm`, `BgpSched`, `BgpRib` and `RouteServer`. Left, in this
order:

1. Several prefixes in `ConvDet`, with entries that are never used again (`total_events`
   only grows) and two prefixes that share a key.
2. `BgpFsm`: that both ends establish if nothing is lost or cleared any more, which needs
   a bound on retries that does not stop the model.
3. PDNS: the conservative time synchronisation of `rti/`.
