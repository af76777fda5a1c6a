# OFP_OVS_PROXY: a verification development

OFP_OVS_PROXY sits between OpenFlow switches and their controller.  For every
connection of a switch it forks a process that connects to the controller and
relays messages both ways through *schedules*: ten queues per direction,
served by strict priority, with a window on what the switch has not finished.
This directory holds TLA+ modules that model that program, TLC configurations
that check them on small instances, and TLAPS proofs for every instance.

## 1. Inventory

| Part | Source | State | Operations |
|---|---|---|---|
| Proxy process | `main.cpp:105-142` | the listening socket, a connection in hand, children | bind, listen, accept, fork, close |
| Session | `main.cpp:19-103, 143-219` | two sockets, two Schedules, four threads | connect, thread start, `read_client`, `read_server`, `signal_handler`, join, delete, exit |
| Framing | `ofmsg.cpp` | bytes read so far, the buffer | `read_ofp_msg` |
| Classification | `schedule.cpp:208-717` | `OFP_Msg_Arg`, the message being rewritten | `getOFPMsgArg`, `do_ofp_*_processed`, `pack_*`, `copy_valid_action_to_buf` |
| Queues | `schedule.h:33-271` | `OFP_Msg` flags, `msg_queue`, `last_fetch` | `putMsg`, `fetchMsg`, `markFinished`, `cleanFinishMsg`, `msgNeedNoTime` |
| Scheduling | `schedule.cpp:7-186` | `max_in_process`, `get_dp_id`, `resp_pipe`, `is_listen_resp` | `putMessage`, `run`, `Run_listen_resp` |
| UEP statistics | `PriorityManager.h`, `RingBuffer.h` | ring of per-window counters, head, tail | `updateSplitOfUEP`, `getUEPPriorityOfSplitK`, `isDangerous`, `getNowWindowId` |
| Socket wrappers | `error_check.cpp`, `unp.h` | none | print the error and go on |
| Wire structures | `openflow_common.h` | none | declarations |
| Around the program | `test.cpp`, `pktgen/`, `topo_example.py`, scripts | none | a FIFO writer, experiments |

How they interact.  The proxy accepts a switch, forks its session and goes on;
it never waits for a session, and sessions inherit its listening socket.
A session runs two *reader* threads (`read_client`,
`read_server`), two *scheduler* threads (`Schedule::run`, one per direction)
and up to two *listener* threads (`Run_listen_resp`), all in one process.  A
reader frames a message, classifies and rewrites it, and pushes it into a queue
of its schedule under that queue's mutex.  The UEP statistics are updated and
read by the reader of the SERVER schedule alone.  The scheduler takes messages
out in priority order, writes them to the peer's socket and cleans what is
finished.  A message is finished by the scheduler itself after the write, by
the listener when the switch reports its cookie through a FIFO, or by the
reader of the *other* direction when a STATS_REPLY arrives.  The listener is
started by the scheduler once a FEATURES_REPLY has revealed the datapath id,
which the reader of one direction writes into both schedules.

Naming: the schedule called `CLIENT` carries messages from the switch to the
controller, `SERVER` from the controller to the switch.

What is hard: flags and counters shared by three threads per direction, some
under a mutex and some not; a window of credits kept by one thread and
returned by the work of others; fields used after the object was published or
freed; strict priority with pacing; counters that wrap; a report that never
comes; and shutdown, where six threads share two descriptors whose
numbers a FIFO may take over.

What makes each part correct:

* scheduling: no message is lost, duplicated or reordered within its queue;
  none is freed before it was sent; credits balance; the switch is never more
  than the window behind; priority is strict as far as the clock is; a listener
  the switch reports to has its name; everything is sent in the end, but for
  what waits for a report that cannot come;
* statistics: what is read for a window is what was counted in it; nobody is
  demoted for what others have sent;
* framing: the messages handed on are those the peer wrote, whatever the
  segmentation;
* rewriting: exactly the UEP items are removed, lengths stay consistent,
  nothing of an earlier message gets in, the walks end, the frame of a
  PACKET_OUT stays whole, and a message is classed by the frame it carries;
* session: it ends when a peer is gone, and before that only by an unsafe
  message; no schedule is deleted under a reader; no reader takes a FIFO for
  its peer before the other one has begun to close;
* proxy: sessions do not disturb each other; a waiting switch is accepted.

## 2. Plan

1. `OFPMessages`, `Schedule` and the abstract `Relay`: scheduling, the core.
   Runs, inductive invariant, safety and refinement proofs.  **Done.**
2. `PriorityManager` with its ring buffer, and the abstract `UEPCount`: the
   statistics.  Runs, safety and refinement proofs.  **Done.**
3. `ReadOfpMsg`: framing of a byte stream.  Run and safety proofs.  **Done.**
4. `WireLayout` and `WireBytes`, with `FlowModRewrite` and `PacketMessages` on
   them: what is done to FLOW_MODs, PACKET_OUTs and PACKET_INs.  Runs and
   safety proofs.  **Done.**
5. `Session`: threads, descriptors, the signal and shutdown.  Run and safety
   proofs.  **Done.**
6. `Tunnel`: the proxy around its sessions.  Run and safety proofs.  **Done.**
7. Left: a composition of `Schedule` with `PriorityManager` that closes the
   choice of the demoted queue, which each of the two leaves open.

## 3. The modules

`OFPMessages` holds what `getOFPMsgArg` derives from a message: the queues it
may go to (`QueueChoice`), the identity its completion is reported under
(`IdentChoice`), and the comparison `LessPriority`.  A message is a constant
with a direction, a kind and an identity; its payload is abstracted.  The
choice between a message's ordinary and its demoted queue depends on the UEP
statistics and is left open here.  Two things the code leaves unassigned are
choices: `arg.qid` for a FEATURES_REPLY and for an added flow without
instructions (`GarbageQids`), and `arg.identify` for most kinds
(`GarbageIdents`).

`Schedule` is the state machine.  One action is one stretch of a thread
between two points where another thread can see or change what it works on: a
critical section under `queue_mutex`, a system call, or an unlocked store to a
shared object.

| Thread | Actions | Code |
|---|---|---|
| reader | `Receive`, `NameOwnPipe`, `NameOtherPipe`, `SetOtherDpId`, `PutMsg`, `TouchMsg` | `getOFPMsgArg`, `setDpid`, `putMessage`, `putMsg` |
| scheduler | `Top`, `Clean`, `FetchNone`, `Fetch`, `Write`, `Finish` | `run`, `cleanFinishMsg`, `fetchMsg`, `Writev_nByte` |
| listener | `ListenOpen`, `ListenRead`, `ListenScan` | `Run_listen_resp`, `markFinished` |
| outside | `Elapse`, `SetBack`, `SwitchProcess` | the clock; the switch and its reports |

The vector of a queue is the set of its messages, ordered by `stamp`, the
place of their push: `putMsg` appends and `cleanFinishMsg` erases, so the
order of a vector is always the order of pushing.  `written`, `scanFrom`,
`skipped` and `lost` are history variables.

`fetchMsg` looks into a queue only if more than its interval has gone by since
its `last_fetch`, by the clock of the day; `due` is the set of queues for which
that is so.  The unpaced queues have an interval of -1 and go through the same
test: they are due unless the clock is set back past their last fetch
(`SetBack`, which takes one queue out of `due`; setting the clock back for
several is several such steps), until it has caught up (`Elapse`).
`Queue(double_t)` does not initialise `queue_mutex` (`schedule.h:119-122`);
that it excludes rests on fresh memory being zero, as a statically initialised
mutex is here, and the model assumes it.  `pos_map` is written and never read by the
program, so the store into it is only the point at which `putMessage` touches
a message it no longer owns.  The loop of `cleanFinishMsg` and of a scan of
the queues visits one queue per action, because each queue has a mutex of its
own.

`Relay` says what the scheduling half promises, with no thread, flag or
credit: a message is accepted into a lane, sent once after everything
accepted into that lane before it, and completed; towards the switch at most
`Window` messages are outstanding.  `Schedule!ImplementsRelay` is the
refinement.

`ScheduleInv` holds the inductive invariants; `MCSchedule` the sessions TLC
checks; `ScheduleProofs` the proofs.

`PriorityManager` is the statistics on a UEP, with the ring buffer of
`RingBuffer.h`.  `sent`, which no action reads, is how much each UEP has sent in
all (counted up to `MaxSent`).  Its actions are what the reader of the SERVER schedule does
with one message: `Tag` (a tag of a FLOW_MOD or PACKET_OUT is counted for the
window that is running), `StatsRequest` (a STATS_REQUEST is counted for the
UEP of requests), and `Decide` (`isDangerous`, with the window the last tag
was counted in), with `Tick` and `StepBack` for `gettimeofday`.  A ratio is a
pair of counts, so `isDangerous` compares integers.  The window id is
truncated to its type (`WindowIds`, 2^16 in the source), and the ring's head
and tail are the ever-growing integers of the source.  `UEPCount` is what the
statistics promise: a count per UEP of the running window, and nothing else.

`ReadOfpMsg` is `read_ofp_msg` with the loop around it.  The stream is a
sequence of messages with declared lengths; what has arrived, what was read
and what was handed on are positions in it, so the bytes have no contents.  A
`read` returns any number of the bytes that are there; end of file and an
error may come anywhere.

`FlowModRewrite` is `do_ofp_flowmod_processed` for an added flow, with its two
walks: `MatchItem` and `MatchDone` (`pack_mathch_except_type` and the two
copies behind it), `ActionItem` and `ActionsDone`
(`copy_valid_action_to_buf` and what follows).  A byte is named by the element
it belongs to and its place in it (`WireBytes`): what moves, what is
overwritten and what is left over can be told apart, while no value matters.
`Expected` writes the message without its tags from scratch; the code edits
it in place.  The scratch buffer is a buffer of `FilterSize` bytes (600 in the
source, `schedule.h:388`) that holds what earlier messages left and is cleared
for as many bytes as the code clears: where that is more than it has the
program's behaviour is undefined, and the model ends (`pc = "overrun"`).  An
action has a size and the length it says it has, which nothing checks and which
may be 0: the walk then copies its header and does not advance
(`schedule.cpp:331-336`), for ever.

`WireLayout` gives the structures of `openflow_common.h` as sequences of
fields and computes sizes and offsets from them by the ABI's rules, so that the
two modules that walk a message use the compiler's numbers.

`PacketMessages` is `do_ofp_packetout_processed` and
`do_ofp_packetin_processed` together with the buffer a reader thread lays
every message over.  The buffer is never cleared, so buffers live from message
to message: `DoPacketOut`, `DoPacketIn`, and `DoOther` for everything else that
covers their start.  The two bytes taken for the ether type decide the class.
Where they are the type field of a frame, that frame decides; where they are
anything else (of an earlier message, of the stack, of a list), their value is
not known here and either class is possible (`LldpOutcomes`).  Lists that do
not fit the scratch buffer and actions without a length do what they do in
`FlowModRewrite`, and are left to it.

`Session` is the process of one switch.  Its main thread (`Connect` to `Exit`),
the two readers (`Read`, `ReadReturns`, `Put`, `CloseClient`, `CloseServer`,
`Kill`, `InstallHandler`), the signal (`Deliver`), the schedulers (`SetConf`,
`Write`, `OpenFifo`, `TouchDeleted`) and the peers take steps of their own.
A message is a step here, told apart by what it may do to the process
(`Kinds`): a FEATURES_REPLY and a flow mod without instructions are given no
queue id, so that `queues[arg.qid]` may be outside the vector
(`schedule.cpp:21`), and a long flow mod overruns the scratch buffer: any of
them may kill the process while it is in a reader's `hand`; an action without a
length keeps the reader in `putMessage` for ever.  What else happens to a
message is in `Schedule` and `FlowModRewrite`.  A descriptor
is a number that stands for a peer, for the FIFO or for nothing: both readers
close both numbers, and the listener's `open` takes the lowest that is free.
A read that blocks keeps its object (`on`) when the number is closed, which is
why `read_client` has to signal `read_server` and cannot be woken itself.

`Tunnel` is the proxy: `Start`, `Accept`, `Fork`, `Close` and `ProxyEnds`, with
switches that `Dial` and children that end.  Descriptors are held by processes
(`holders`), and so is the listening socket, which orphans keep.  A child is
one process here and a whole `Session` there.

## 4. The runs

Three unpaced queues stand for the five of the source and one paced queue for
the other five, among them the two that are used (7 and 8); the window is 2
instead of 12, the smallest for which "fewer than two credits" and "no credit"
differ.  With three messages (`live`, `ask`) the window closes, queues hold
several messages, and two messages share an identity; `announce` has two,
which is enough to wrap its counter of credits.

| Run | Asks |
|---|---|
| `live` | the inductive invariant, credits, the switch's backlog, "tried before deleted" and priority: with a shared cookie, a stale one and a demoted message, failing writes, lost reports and a deaf listener; and under fairness that everything is sent and everything sent is finished, but for what waits for a report that cannot come |
| `ask` | a STATS_REQUEST waits for its reply, or for the report of a flow whose cookie is its xid; the reply finishes it; the refinement of `Relay` in both directions |
| `announce` | the name of the FIFO before its listener, priority while the clock is set back, and what a wrapped counter does towards the controller, from the session's start, with a FEATURES_REPLY, unassigned queue ids and failing writes; the process may die, so deadlock is not checked |
| `uep` | the ring implements the count of the running window while the clock is steady |
| `uep_clock` | what survives a clock that is set back and ids that wrap: who may be suspect, and what it takes to be demoted |
| `framing` | messages are handed on as written, one by one, none lost or held back |
| `rewrite` | when exactly the rewritten FLOW_MOD is the right one, when exactly its walks end, and whether anything stale gets into it |
| `packets` | when exactly a rewritten PACKET_OUT is the right one, and by what a message is classed |
| `session` | who may be killed, freed or misread at shutdown, and whether the session ends |
| `tunnel` | sessions do not hold each other's connections or the accept loop up |
| `bug_sanity`, `bug_padding` | findings, see below |

Bounds of the statistics: a ring of two slots and three or five windows make
every slot be reused and be read for a window it does not hold; counts up to
14 (`MaxTotal`) pass the limit of suspicion, which needs twelve of a kind; what a
UEP has sent in all is counted up to those twelve (`MaxSent`).
`uep` steps through five windows, `uep_clock` through four ticks over three
ids.  Of framing: five messages, a bare header and a message that declares
less than a header among them, with a header of two bytes, so that it arrives
in pieces too.  Of rewriting: items of 5, 6, 8 and 20 bytes, which between them
give all eight paddings, up to three of them, and up to two instructions of up
to two actions, with an action without a length in the first or second place;
the scratch buffer has 64 bytes, so that the longer ones of these overrun it at
the match or at the actions.
Of packets: lists of up to two actions of 8, 16 or 24 bytes, with a frame, a
discovery frame or none, and two messages after one another, which is what it
takes to leave something in a buffer and to read it.  Of a session: nothing is
bounded, the model is finite.  Of the clock: `announce` sets it back past one
queue, once (`MaxSetBacks`); that is enough to have a scan pass queue 0 and
send from another.  Of the tunnel: three switches against a backlog
and a process table of two fill both, and two starts let a proxy meet its
predecessor's orphans.

Fairness (`FairSpec`).  Scheduling: the operating system schedules every thread,
and no thread blocks for ever (all loops poll); time passes, the clock being set
back only finitely often; the switch works off what it is sent and answers a
request.  Nobody is obliged to send anything else, and the switch is not obliged
to report: `EveryMessageSent` and `EverySentIsFinished` hold with failed writes,
lost reports, deaf listeners and stale identities, and name what then waits in
vain (`Silent`): nothing in the program ends that wait, and when the window is
full of such messages the direction has stopped.  `live` itself leaves the clock
steady, which keeps it small; fairness has a clock that was set back catch up
anyhow.  The messages of a session are finitely many, so that the earlier queues
run empty: starvation by peers that never pause is what the code does, and no
property excludes it.
`announce` lets the window towards the controller, which only grows, wrap above
3 (`IntMax`, 2^31 - 1 in the source); in the other runs it is out of reach.
Framing: the reader runs, and the network delivers what was written.
Rewriting: the reader runs.
Session: every thread is scheduled and a pending signal is delivered (weak
fairness).  No peer has to close.  The switch keeps talking, because an
OpenFlow switch sends ECHO_REQUESTs when it hears nothing: a reader blocked on
it gets a message in time.  This is what ends a session whose controller is
gone, as `read_server` does not tell `read_client`, unless `read_server` itself
stays in an endless message (`ControllerLossEndsSession` excepts that).  The FIFO runs dry now and
then (strong fairness of a read from it).  Both properties name the one state
more that never ends: `read_server` ended by the signal inside the allocator, whose
lock `delete` then waits for.
Tunnel: the proxy's loop runs while there is a proxy.

## 5. Findings

* A message that declares fewer bytes than a header is handed on, with the
  count of the last read for a length (`ofmsg.cpp:80`).  `bug_sanity`.
* A match that loses its padding with its UEP item leaves the header's length
  too long (`schedule.cpp:310`).  `bug_padding`.

`RewriteRightExactlyWhen` says the same of two more cases: only the first
instruction is moved and filtered, and every SET_FIELD that it applies is
taken for a tag.  It states the exact conditions on a message under which
the switch is sent what it should be, once it gets through the walks;
`RewriteEnds` says which do not: those that overrun the scratch buffer
(`schedule.h:388`) and those with an action without a length
(`schedule.cpp:331`).  No comment of the source speaks of either, hence no run
of their own.  `PacketOutRightExactlyWhen` does so for
PACKET_OUTs: they are right exactly if no ordinary field is set.

## 6. The proofs

Assumptions for scheduling: `ConstantsAssumption`, `QueueAssumption`, `SchedAssumption`
(finitely many messages, at least three queues, a window of at least two, and
unassigned ids that are bytes).  Nothing bounds the number of messages, queues
or credits.

* `ScheduleProofs!TypeCorrect`: `Spec => []TypeOK` (`live` checks it as a part of
  `IInv`).
* `ScheduleProofs!Invariance`: `Spec => []IInv`.  `CreditBalance` alone is not
  inductive: a clean step needs that what it frees was in process (`FlagInv`),
  a finish step that the message in hand is still queued (`HandInv`), and a
  fetch step that a credit was there (`CreditInv`).  `StrictPriority` needs
  `ScanInv`: the queues a scan has passed hold nothing that was there at its
  start, which survives pushes because `OrderInv` stamps them later, unless they
  were not in time (`skipped`); and `SteadyInv`: an unpaced queue is always in
  time until the clock is first set back.
* `CreditsBalance`, `NothingFreedUnsent`, `PriorityIsStrict` follow from it.
* `NeverThrottledUntilWrap` needs `WrapInv` besides: as long as no addition can have
  wrapped, the credits are the initial window plus what has been freed.
* `ScheduleProofs!Refinement`: `Spec => ImplementsRelay`; the window of the
  Relay is the credit account, its order the order of stamps.
* `ScheduleProofs!BacklogIsBounded` (`SwitchBacklogBounded`) is a counting
  argument: what was tracked and worked off, what is in the pipe and what the
  listener holds has been written and is not finished, so each is covered by a
  credit that is not back yet (`ReportInv`: `Completed + InPipe + InEar <=
  WorkedOff`: every completed flow change has used up a report of its own).
  Its hypothesis `FlowsToldApart`: no flow change goes by the xid of a request,
  nor by 0 while its cookie is another, so that only its reports finish it.
* `ScheduleProofs!RequestsAwaitTheirReply` (`RequestAwaitsReply`) needs
  `IdentityInv`: what a queued message is reported under is what was read from
  it, or a leftover, and what is in the FIFO or in a listener's ear has been
  reported (`Reported`).  That a flow's cookie may equal the xid of a request is
  in the statement, not in an assumption: nothing in the code keeps the two
  apart, as both are the controller's numbers.
* `ScheduleProofs!ServerListenerIsNamed` (`ServerListenerNamed`) follows from
  `NameInv`: the CLIENT's reader stores the other schedule's name before its
  flag, and the flag starts the listener.  Its hypothesis `AnnouncedBySwitch`
  is that a FEATURES_REPLY comes from the switch; one from the controller would
  store the own flag first.

`PriorityManagerProofs`, under `UEPAssumption`: `OnlyOneSuspect` for any ring
and any clock, from `SplitsOK` (no two UEPs of a slot have together counted
more than its total, even if the slot is reused for another window);
`DemotedIsOwn` (`DemotedForOwn`) from `SplitsOK` and `CountedIsSent` (no slot
counts more for a UEP than it has sent, up to `MaxSent`, which must not be below
twelve); `StatisticsRefineUEPCount` for a steady clock, from
`RingSteady` (the ring is never ahead of the clock, and the absent UEP, which a
message without a tag is judged by, counts nothing).

`ReadOfpMsgProofs`, for every stream, header size and segmentation:
`MessagesHandedOnAsWritten`, `ReadsNothingAhead` and `CloseLosesNothing`, from
`Aligned` (the reader's position is inside the message it is reading, and the
header is complete before the declared length is used) and `AtEnd`.

`SessionProofs`, for every interleaving: `ReadersOutlived`,
`FifoOnlyWhenClosing` and `EstablishedIsNotKilled`, from `SessionInv`.  None of
the three is inductive alone: they hang together through `FdInv` (a descriptor
is free or a FIFO's only after a reader has begun to close), `PeerInv` (a reader
closes, and the other is signalled, only once a peer has gone), `StartInv`
and `JoinInv` (what main has started and joined when).  What is proved of
`EstablishedSurvives` is that the list of ways to be killed is complete: before
both schedulers run, after a peer has gone, and by an unsafe message in hand.
A session that a freed schedule or a signal could kill while both peers stay
would break it; that a message may, the code does not exclude.

`TunnelProofs`, under `TunnelAssumption`, for any number of switches, children
and starts: `NoOtherHolds`, `ClosedWithChild` and `PortIsFreedWithOrphans`,
from `BacklogInv` (who waits, waits once), `ForkInv` (only an accepted
connection has a child), `HoldInv` (the proxy holds only the connection in
hand) and `PortInv` (a port that is taken has a living holder).

`WireProofs` holds the lemmas about bytes: what `Slice`, `Copied` and `Pad`
return, and what joining a sequence of byte strings does (`FlattenType`,
`FlattenLonger`, `FlattenAt`).  `FlattenSeq` is a fold; its lemmas go by
`SetInduction`, induction on a set of numbers rather than on a predicate,
which the provers can instantiate.

`PacketProofs`, for buffers and messages of any size and lists of any length:
`TypeCorrect`, `PacketOutRight` (`PacketOutRightExactlyWhen`) and
`ClassedRight` (`ClassedByFrame`, of messages that carry a frame).  The invariant
is `TypeOK` with `Buffered`: a buffer is a sequence of named bytes of known kinds.
`RewrittenProperties` says what the copy in place
leaves at every position, `ThreeLists` that the list without SET_FIELDs has the
length of the list without tags only if both leave out the same actions.  The
assumptions are that every message fits the reader's buffer and its kept
actions the scratch buffer (`BufferAssumption`), that no action says it has no
length (`MessagesAssumption`), and the structures' offsets
(`LayoutAssumption`); TLC evaluates them.

`FlowModProofs`, for flow mods with any number of items, instructions and
actions of any size: `Invariance`, `TypeCorrect` and `RewriteRight`
(`RewriteRightExactlyWhen`).  The two walks read a message that is being
rebuilt, so the invariant says at every step what memory holds:

* `InMatch`: the message is as it came; the walk has read the first `k` items
  (`Upto`), and at most four bytes of a padding longer than four, which read as
  an item without a value; the scratch buffer is filled with those of the `k`
  that are kept, and `removed` is what is missing between the two.
* `Rewritten(f, K)`: the new match is in place, the first instruction with its
  actions in `K` directly behind it, and the lengths are the new ones, but for
  `LostPad`, the padding the header is not told of.  Of what comes behind the
  first instruction it says as much as is needed: it is as it was if nothing
  has moved, and otherwise the byte there is none of the second instruction's.
* `InActions`: `Rewritten` with all actions, and a walk over them as above;
  the end is `Rewritten` with `KeptActions`.

It is built on the bytes of one list (`Elements`, `Items`, `Actions`), so
that both walks use the same lemmas: `WireProofs` says what `Holds` (a string
of bytes is at an offset) and `Filled` (a buffer is filled up to a length) keep
under `Copied` and `Slice`.  `RightWhenRewritten` then compares what is sent
with `Expected`: one way by lengths and bytes, the other by naming for each
condition that fails a length or a byte that differs.  `TypeCorrect` says of the
scratch buffer that no round of a walk writes behind it: the memset before a
walk is longer than the walk, and where that overruns, the model has ended.  An
action that says it has no length changes nothing in that, since the walk stands
still at it.  The assumptions are that items have a value, that actions come in
multiples of 8 bytes and say that length or 0, that a tag is a SET_FIELD, and
the structures' sizes (`FlowModsAssumption`, `LayoutAssumption`); TLC evaluates
them.

Only model-checked: the liveness properties, which are outside the prover's
reach, and `NothingLeftOver`.  Every other safety property of a passing run is
stated by a theorem.

## 7. Not modelled

Payload bytes and logging; `decMsgTime`, `getSize`, `markFinished(id, pos)`,
`send_list` and the UDP configuration socket, which nothing uses; the
measurement file written by `recordMsgProcessedTime`; of the wrappers
`Select`, `Getpeername`, `Getsockname`, `Write_nByte` and the address
conversions, which have no state or no caller; of `openflow_common.h` the
structures and enumerations inside the namespace that no code refers to; what
an access outside `queues` or the scratch buffer does if it does not end the
process, what a use of a freed message (`TouchMsg`, `schedule.cpp:22-24`) may do,
and an action whose length is neither its size nor 0; the test writer `test.cpp`, the build files under `cmake-build-debug` and the
experiment scripts.
