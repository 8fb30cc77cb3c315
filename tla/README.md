# Verification of ScalaNeko in TLA+

ScalaNeko (`src/`) runs distributed algorithms, for teaching and prototyping, on
a simulated system inside one JVM.  This directory models the machinery below
the algorithms, the protocols that come with it, and the scripts of its API
documentation; it checks them with TLC on small instances and proves their main
properties with TLAPS.  Paths below are relative to `src/main/scala/neko/` of the
repository, those of scripts (`*.js`) to `docs/latest/api/lib/`.

## 1. Inventory

| part | state | operations | what makes it correct |
|---|---|---|---|
| Scheduler (`kernel/Scheduler`, `SequentialScheduler`, `Task`, `Timer`, `TaskID`) | sorted set of tasks, clock, last identifier | schedule (at / after / periodically), cancel, executeNext | tasks run once, in order, never early, none lost; time only moves forward |
| Activity manager (`kernel/ActivityManager`, `ManagedActivity`) | status of each activity, cyclic barrier, `started`, `allFinished` | registerActivity, start, willStart, willWait, willFinish, reset, join | actions in mutual exclusion with activities; the end is found, reported truthfully, and leaves no thread |
| System (`kernel/NekoSystem`, `sim/Simulator`) | executor, the scheduler, the manager | construction, the barrier action, whenDone, mainloop | a run is declared stuck only if it is; it always ends |
| Active protocols (`ActiveProtocol`) | a queue of received events | receive, receive with timeout, sleep, SEND, deliver | a timeout means no message came, and comes at its date |
| Networks (`network/*`) | none besides tasks of the scheduler | send, sendTo | messages are neither lost nor duplicated |
| FIFO channels (`protocol/FIFOChannel`) | a counter per destination, a counter and a buffer per source | onSend, onReceive | messages of a link are delivered in order, once, and not held back without need |
| Safra termination detection (`protocol/SafraTerminationDetection`, `TerminationDetectionClient`) | message counter, color and state of each process, one token | onSend, onReceive, transmitToken | Terminate is delivered only after termination, and then to everybody |
| Round-based protocols (`protocol/RoundBased`, `SynchronousRounds`, `RoundBasedWithFailures`, `FastAnonymousRounds`) | rounds of sending and receiving, stashed messages, the state of a crash | preStart, onSend, onReceive, run | a round carries one message of each process, of one round; a crash is final |
| Logical clocks (`protocol/LamportClock`, `VectorClock`) | a number, a vector | onSend, onReceive | the clocks agree with causality |
| Chandy-Lamport snapshot (`experimental/snapshot`) | color, recorded state and messages | onSend, onReceive, initiation | the recorded cut is consistent and the record exact |
| Search box of the API documentation (`index.js`, `scheduler.js`) | queues of jobs, results, promises, handlers, focus | search, keys, close, timers | results shown belong to one query, and get complete |
| Member filter of the API documentation (`template.js`) | buttons, ancestors, order, text | clicks, keys, filter | the members displayed are those the controls let through |
| Reactive protocols, `Dispatcher`, `StashedReceive` | listeners, stash | registerFor, unregisterFor, deliver | see the plan |
| Topologies, events, identifiers | none (immutable) | pure functions | see the plan |
| Tracing, GUI, configuration, output | presentation only | | not modelled |

How they interact.  Every active protocol is an activity with a thread of its own.
A protocol that has nothing to do calls `willWait`, which waits at the manager's
barrier.  The last thread to arrive executes the *barrier action* on behalf of
all: it asks the scheduler to advance the simulated time, which executes the tasks
that are due.  The network is made of such tasks: each delivers a message, by a
direct call that goes up to the queue of the destination.  Then all threads are
released, and each checks again whether it can go on.  The main thread waits in
`join` for the end of the run, and ends the executor.

A reactive protocol has no thread.  It stands between others: what is sent from above
goes through its `onSend`, what arrives from below through its `onReceive`.  `send` and
`deliver` are synchronized on the protocol.  Safra, the clocks, the snapshot, the rounds
and FIFO channels are such protocols; they rely on the network alone, which loses
nothing and, unless FIFO channels are below, delivers in any order.

The pages of the API documentation have one thread, that of the browser.  A search
adds jobs to `scheduler.js`, which executes one at each firing of a timer; events of
the reader come between any two jobs.

What is hard.  Protocols run concurrently between two barriers, and all use the
scheduler; a batch of tasks is executed outside the scheduler's lock; statuses are
written without a lock by several threads; exceptions come out of activities, of
tasks and of the barrier, and `reset` may run while other threads do; the barrier
action waits for the executor it runs in; a timeout and a message may be due in
one batch.  Messages overtake Safra's token and markers race payloads; a process is a
round ahead of another, or crashes in the middle of a send; jobs of an old search stay
in the queue when a new one begins, and a key goes up elsewhere than it went down.
`PROJECT.json` lists these hazards with their lines and the properties
that cover them.

## 2. Modules

| module | models |
|---|---|
| `Scheduler` | `Scheduler.scala`, `SequentialScheduler.scala`, `Task.scala`, `Timer.scala`, `TaskID.scala` |
| `SchedulerProofs` | theorems about `Scheduler` |
| `ActivityManager` | `ActivityManager.scala`, `ManagedActivity.scala`, and the threads of `NekoSystem.scala` |
| `ActivityManagerProofs` | theorems about `ActivityManager` |
| `NekoSystem` | `NekoSystem.scala`, `ActiveProtocol.scala`, `DelaySimNetwork.scala`; instantiates the two others |
| `NekoSystemProofs` | theorems about `NekoSystem`; instantiates the two other proof modules |
| `FIFOQueues` | the promise of `FIFOChannel.scala`: one queue per link |
| `FIFOChannel` | `FIFOChannel.scala` over a reordering network; implements `FIFOQueues` |
| `FIFOChannelProofs` | theorems about `FIFOChannel` |
| `TerminationDetection` | the promise of Safra's protocol to its clients |
| `Safra`, `SafraProofs` | `SafraTerminationDetection.scala`; implements `TerminationDetection`; theorems |
| `RoundBased` | `RoundBased.scala`, `SynchronousRounds.scala` |
| `RoundBasedWithFailures` | `RoundBasedWithFailures.scala`, on top of `RoundBased` |
| `FastAnonymousRounds` | `FastAnonymousRounds.scala` |
| `Rounds`, `RoundsProofs` | a system whose processes use one of these stacks; composes the three; theorems |
| `LogicalClocks` | `LamportClock.scala`, `VectorClock.scala` |
| `ChandyLamport`, `ChandyLamportProofs` | `experimental/snapshot/ChandyLamportMain.scala`, over FIFO channels and both clocks; theorems, those on `ActiveSnapshot` included |
| `ActiveSnapshot` | `ChandyLamport` below active clients (`MultiTokenRotation` in the same file, `SnapshotClient.scala`, the queue of `ActiveProtocol.scala`) |
| `PageScheduler` | `scheduler.js` |
| `SearchPage` | the search box and the keyboard of `index.js`; extends `PageScheduler` |
| `MemberFilter` | the controls of the members of `template.js` |
| `ApiPage`, `ApiPageProofs` | a page: search box, members, one keyboard, one timer; theorems |
| `MC*` | values for TLC |

### Scheduler

Variables: `taskQueue` and `currentTime` (`_currentTime`) are the fields of the
class; `executor` is the holder of `ExecutorLock`; `batch` and `running` are the
local state of `executeNext`; `lastID` is that of the companion object of `TaskID`,
`loaded` the sum computed by a thread in the middle of `lastID += 1`, `reserved`
the identifier of a task that a thread has built and not yet queued.  `issued`,
`runs` and `dropped` are histories that only properties use.

A synchronized method is one action.  `executeNext` is split where the code leaves
the lock: `ExecuteNext` (advance the clock, partition the queue), `StartTask` for
each task of the batch, then `FinishTask`, `Reschedule` (a periodic task whose
action returned true) or `FailTask` (the action throws and the rest of the batch is
lost), and `EndBatch`.  Between any two of these other threads may schedule and
cancel, and so may the running task: a thread that holds `ExecutorLock` makes calls
exactly when `running` is set.  A task's action is otherwise opaque.

`Add` is the insertion in a sorted set: a task that compares equal to a queued one
is not inserted.  `RacyIDs` says whether the load and the store of `autoIncrement`
may interleave with those of others, as the code permits.

### ActivityManager

`pc` says where each thread is: in the activity's code, before, inside or after
`barrier.await` in `willWait` (`toWait`, `inWait`, `outWait`) or `willFinish`, in a
handler, or ended.  The cyclic barrier of the Java library is external; its action
runs with its lock held, so that while `tripper` is set no thread arrives or leaves.
The barrier action is a sequence of phases: `actions`, then either `drain`
(`whenDone`) or the abnormal end: `reset`, `terminate` (`awaitTermination`, up to
`shutdownNow`), `drain`.  `ActionThrows` is an exception out of the action or of
`whenDone`: it breaks the barrier and leaves the call of `await` of the tripping
thread.  `Reset` is the first half of `reset`, which writes the statuses without a
lock; the second half, which sets `allFinished` and notifies, is a step of its own
because other threads overwrite statuses in between.  `shutdownNow` interrupts all
live threads.  `main` is the thread that runs `mainloop`; it waits in `join` as in
`waiting`, and is notified to `joining`, where it checks `allFinished` again.

`Errors` lets activities and actions throw a `java.lang.Error`, which no handler
catches, and an overridden `onError` throw anything, in which case `reset` is not called
(the `onError` of the repository, which do nothing or forward or print, do not throw); `Late` lets activities be created and started after `start`.

### NekoSystem

Every step is a step of the manager (`M!`), of the scheduler (`S!`), or of both,
with what it means to the protocols.  A protocol makes any sequence of SEND,
receive, receive with a timeout and sleep, and may finish at any time.  `receive`
with a timeout is modelled statement by statement (deadline, wake-up task, loop,
cancellation, decision) because protocols that do the same run concurrently: they
compute identifiers and queue tasks in any order.  The manager's action takes the
three branches of the code (`ActionAtEnd`, `ActionStuck`, `AdvanceTime`) and
`DrainPending` is the loop of `whenDone`.  Here activities and tasks do not throw;
`ActivityManager` alone covers that.

### FIFOChannel

`nextSendTo`, `nextReceiveFrom` and `messageBuffer` are the fields of the protocol,
indexed by a pair of processes since every process runs one instance.  `network` is
the set of `FIFOSequenced` messages on their way; `sent` and `delivered` are
histories, and the only state of the abstract `FIFOQueues`.  `OnSend` numbers one
message per destination; the network ignores a destination that is not a neighbor,
though its counter is incremented.  `OnReceive` puts the message in the buffer and
executes the whole loop: it releases messages as long as the head of the priority
queue is the next one.  `send` and `deliver` are synchronized on the protocol, so that
each handler is one action.  Messages are members of a small set: only their number
tells two equal ones apart.

For `onSend` a broadcast is a message without destinations, which is sent to nobody and
does not count as sent: the properties follow messages that have been numbered, and none of them
sees this loss (section 3, other disagreements).

### Safra

`msgCount`, `state`, `color` and `token` are the fields of the protocol, indexed by process;
`payloads`, `holders` and `announces` are the three kinds of messages on their way, `terminated`
says to whom `Terminate` was delivered.  Each handler is one action.  `TransmitToken` is the
method of that name: it forgets the token on every path, also when there was none, so that
its callers are checked for storing a token or handing it over, never both
(`OneToken`).  `Detects` is the guard of the initiator; its colors and counters are what
`TokenAccountsForMessages` relates to the messages on their way.  The refinement mapping to
`TerminationDetection` takes the active processes, the payloads and `terminated`.  The client
computes while its process is active; what it does with a message is not distinguished.

### RoundBased, RoundBasedWithFailures, FastAnonymousRounds, Rounds

`Rounds` chooses a stack of protocols and `faultySet`, and then lets it run: `RoundBased`
directly below the client, `SynchronousRounds` (the same bookkeeping, in a loop that
takes messages from a queue and ends with `Done`), `RoundBasedWithFailures` with a `RoundBased`
of its own below, or `FastAnonymousRounds` with a coordinator.  `DELIVER` and `SEND` are calls,
so that what a client sends when a round starts, what a failing process loses of it
(`CrashingSends`), and the round that this completes (`OnSend`) belong to one action.  The
client sends one multicast or two messages.  A message carries the client round in which
it was written, which no protocol looks at: it is what `BatchesAreWhole`, `BatchesAgree` and
`PreviousRound` compare.
`RoundBasedWithFailures` calls `preStart` of its `RoundBased`, which is also registered with the
process and hence started a second time: the two calls are the actions
`PreStartFailures` and `PreStartRoundBased`, in this order.  `NekoProcess` iterates the
immutable set of its protocols, in which `RoundBasedWithFailures` has been registered before
the `RoundBased` that it creates; such a set keeps the order of insertion up to four
elements only.  A process with five protocols or more may be started in the other order,
which is not modelled, and in which a process may also revive after its first round.

### LogicalClocks, ChandyLamport

`LogicalClocks` has the two clocks of a process, and auxiliary causal pasts (`past`) that are
sets of events; `AfterSend` and `AfterReceive` are the updates.  `ChandyLamport` is the
protocol above both clocks and above FIFO channels (`FIFOQueues`, instantiated).  Red and white are
`color`; `record`, `snapshotCount` are its fields; `cut` and `done` note what the
application was told.  The application sends what it likes.  `neighbors` is a constant, as the
protocol asks the topology of the network: any undirected graph in the proofs, a clique, as in
the program, in the runs.

`cut` is the moment at which `SaveState` is delivered.  A reactive client saves its state then;
an active one finds `SaveState` in its queue later.  `ActiveSnapshot` adds the queue and the thread
of such a client: `Delivers` is what a handler of the protocol appends to the queue, `ClientReceives`
is the loop of the client, and `saved` its state when it takes `SaveState`: what it has sent
and received by then.

### PageScheduler, SearchPage, MemberFilter, ApiPage

`PageScheduler` is `scheduler.js`: labels with priorities, `add`, `clear`, and the timer.  `SearchPage`
is the search: `SearchAll` empties the results and the queue and adds one job for each
package; `SearchPackage` adds two jobs; `SearchMembers` and `HandlePackage` add results.  The
promises of the members of a package are kept one after the other before the timer fires again,
which is why `SearchMembers` is one action.  `navigation` holds the iterators of all
`keydown` handlers that are installed: there may be more than one.  `MemberFilter`
holds the buttons and the members displayed; each handler ends in `filter`, except that of the
tabulator.  `erased` notes the text that the tabulator has erased, until the next `filter`.
`ApiPage` composes them: a key is pressed and comes up (`KeyDown`, `KeyUp`) with jobs in
between, and what it does at each point depends on `focus`.  The bound is `MaxGestures`.

## 3. What TLC checks

| run | instance | result |
|---|---|---|
| `scheduler` | 2 threads, 3 task identifiers, delays -1 and 1, one absolute due time, period 2, times up to 5 | all properties hold |
| `activity_manager` | 3 activities, 2 waits each, exceptions everywhere | all properties hold |
| `neko_system` | 2 protocols, 2 calls each, delays 0 and 2, timeout 1, 3 task identifiers | all properties hold |
| `fifo_channel` | 2 processes, 3 links, 2 messages, 5 numbers, any order of arrival | all properties hold |
| `safra` | 4 processes, 3 copies of messages, any order of arrival | all properties hold |
| `rounds` | 4 stacks of protocols, 2 or 3 processes, 3 rounds, any faulty processes but all | all properties hold |
| `chandy_lamport` | 3 processes, 1 send or internal event besides markers, up to 3 initiators, active clients as slow as they like | all properties hold |
| `api_pages` | 3 queries (one malformed), 2 packages, 3 members, 3 gestures | all properties hold |
| `neko_system_duplicate_ids` | `neko_system` with `RacyIDs` | `AbnormalOnlyIfStuck` fails |
| `activity_manager_join` | as `activity_manager` | `JoinAfterDrain` fails |
| `chandy_lamport_early` | as `chandy_lamport` | `DoneAfterAllMarkers` fails |
| `rounds_previous_round` | as `rounds` | `PreviousRound` fails |

Bounds.  Three identifiers suffice for a task in the batch, one in the queue and one
that is being built, or for a periodic task and two others; time 5 lets a task of
period 2 run twice, late once; delay -1 gives due times in the past.  Two threads
suffice for `ExecutorLock` to be contended while a task's action and another thread
use the queue.  With three activities one can trip the barrier while another waits
and a third fails; two waits let statuses be overwritten after a reset and used in
the next round.  In `neko_system` a delay of 0 (delivered one time unit later) ties
with a timeout of 1, and a delay of 2 comes after it; four calls in all suffice for
each protocol to send and to wait for the other.  In `fifo_channel` five numbers let three
messages of one link arrive in every order while another link is in use, and the
missing link lets a message be numbered and not sent.
Four processes in `safra` let the token meet a process that is made black behind it, and
three copies let a message overtake the token while another is counted; a round of the
token with no message at all is part of it.  In `rounds`, three rounds let a message
arrive two rounds early where this is possible (below `RoundBasedWithFailures`), and three
processes are used where the state space allows; two suffice for a crash in the middle of
a send, because a process also sends to itself.  `chandy_lamport` needs three processes for a
marker to arrive by two ways; all processes play the same part, and the properties are
invariants, so that symmetry is sound.  One message is enough for it to cross the cut or to be sent
after the cut of its sender and received before its receiver saves its state; the theorems hold for
any number.  `api_pages` has two packages, so that a search may be
interrupted with half its results shown, one malformed query, and one member for each
reason to be hidden; three gestures are a search, another one, and a move in its results
or a close.  With four gestures (310 000 states) the properties hold too.

Fairness.  The executor is a cached thread pool: every activity has a thread, hence
weak fairness for the steps of each thread, of the barrier action, and of the main
thread.  The code of activities and actions is assumed to return (`MaxWaits`,
`MaxCalls`), as it must for any run to end.  In `Scheduler`, weak fairness is on the
calls of `executeNext` and on the execution of a batch, never on what clients
schedule or cancel.  In `FIFOChannel` every message on its way arrives, because it is a
task of the scheduler; as the number of messages is bounded, weak fairness of arrivals
taken together is enough.  `Safra` is fair to each arrival, and asks nothing of the clients;
`Rounds` argues as `FIFOChannel` does, threads and starts included.
`ApiPage` is fair to the timer alone, which the browser fires once it is set; nothing
is assumed of the reader.

Deadlock is not checked: bounded runs stop.  The liveness properties say how.

### What the failing runs show

* `neko_system_duplicate_ids`: `TaskID.autoIncrement` is not synchronized, and
  `scheduleAt` evaluates it in the caller's thread.  Two protocols that start a
  `receive` with a timeout at the same time may get one identifier; the first to
  finish cancels both wake-ups, the queue becomes empty, and the run is declared
  stuck and aborted although a protocol waits for its timeout.
* `activity_manager_join`: `allFinished` is set before the pending actions are
  executed and outside the monitor `join` uses, so that `mainloop` may shut processes
  down and call `onFinish` while pending messages are still being delivered.
* `chandy_lamport_early`: at `ChandyLamportMain.scala:34` the markers awaited are one fewer than the
  neighbors, which do not include the process itself, although line 66 has `SnapshotDone` come with
  the markers of all processes.  With three processes it comes one marker early, and its record may
  lack messages of the last channel.  With two, the count starts at 0 and `SnapshotDone` never
  comes: this is the theorem `NeverToldHolds`.  `RecordIsExact` says what a record holds in the meantime:
  what crossed the cut, and all of it in the channels whose marker has come.
* `rounds_previous_round`: `RoundBasedWithFailures.scala:40` calls `preStart` of a `RoundBased` which its process
  starts too.  `InitRound` comes twice, the client sends for two rounds at once, and `StartRound(r)`
  brings the messages of client round r-2, where `RoundBased.scala:28-30` speaks of the previous
  round.  Below the other protocols it is the previous round (`BatchesAreWhole`), and below this one
  the messages of a round still belong together (`BatchesAgree`).  `Ahead` is 2 in `Lockstep` for the
  same reason.

Other disagreements were met.  They are part of the models, but no run is kept for them:

* An `Error` ends a thread without `onError`, contrary to `Protocol.scala:78-79`, and so does a call of
  `onError` that throws (`ManagedActivity.scala:54-57`).  Nobody calls `reset` either, so the others stay at
  the barrier.  In `MCActivityManager.cfg` with `Errors = TRUE` TLC finds `Termination` violated.
* An activity created after the start is registered (`ActivityManager.scala:124`) although the log says it
  is ignored.  With `Late = TRUE` mutual exclusion fails: the barrier has been made for fewer
  threads than use it.
* A broadcast has no destinations (`Event.scala:275`), so that `FIFOChannel.scala:49` sends it to nobody,
  where `Event.scala:252-253` speaks of all neighbors.  `FIFOChannel` has explicit destinations, and says
  nothing of messages that are never numbered.
* An active client saves its state after its process has sent the markers, although "record own state"
  comes before "send marker to all channels" (`ChandyLamportMain.scala:42-43`), and with it messages it
  has sent since.  `NoOrphans` holds nevertheless: `SaveState` is in the queue before any message
  that was sent after a marker, so that what a client has received when it saves its
  state was sent before the cut.
* `RoundBasedWithFailures.scala:47`: `checkCrashing` does not look at the state; called by `preStart` it may
  revive a process that has crashed, and `CrashIsFinal` therefore starts at round 2.
* `RoundBased.scala:25`: a broadcast, whose destinations are empty, never completes the batch of a
  round; the clients of the model use explicit destinations.
* If all processes are faulty and crash, they send `Crashed` messages for ever; the model
  keeps one process correct.
* Closing the results leaves the jobs of the search (`index.js:253-269`): the next job shows them
  again above an empty box.  Escape, and Enter with nothing selected, leave `keydown` handlers
  that act later, or open the page `undefined` (`index.js:163-176`).
* The tabulator empties the box of the members without a new filter (`template.js:145`): the
  members displayed are those of the text erased (`erased` in `MembersFollowControls`).  In the
  order by inheritance a page does not list its own members, which have no heading.

Two behaviours that are documented, and hence not findings: a cancellation has no
effect on a task whose batch was extracted, or on a periodic task that is being
executed (`Timer.scala:155` restricts it to tasks found in the queue); tasks that
share a batch with one that throws are lost, and the system ends abnormally.

## 4. What TLAPS proves

Every invariant and every action property that a passing run checks is also a theorem, and
so is each refinement.  The theorems hold for every value of the constants that
satisfies the named assumptions of the modules: any number of threads, activities,
processes, messages and rounds, any delays.  The bounds that keep TLC's state spaces finite
(`MaxTime`, `MaxSent`, `LastRound`, ...) are constants there, too: any number.  Three hypotheses
restrict what some theorems say, each because of what the code does without it:

* `~ Late`: no activity is created after the start (`ActivityManager`).  With late ones
  mutual exclusion fails.
* `~ RacyIDs`: identifiers of tasks are not duplicated (`Scheduler`, `NekoSystem`).  With
  duplicates `AbnormalOnlyIfStuck` fails, as `neko_system_duplicate_ids` shows.
* One process at least is correct (`Rounds`, by `Init`): if all crash they send `Crashed` messages for
  ever, and no bound on the rounds holds.

The proof modules, each with the inductive invariant that carries it:

* `SchedulerProofs`.  `SafetyInv`, for `CausalityHolds`, `NoOvertakingHolds` and
  `TimeAdvancesHolds`, adds to the properties
  that what is in the batch or running is due by `currentTime` and was queued
  earlier, that every queued task is due later than `currentTime` or was queued at
  it (so a batch leaves nothing behind that should precede it), and that a task is
  running only while `ExecutorLock` is held.  `UniqueInv`, for `NoTaskForgottenHolds`,
  `AtMostOnceHolds`, `PeriodKeptHolds` and `CancelIsFinalHolds`, relates every task
  instance, queued, running, executed or dropped, to its identifier, and says that an
  identifier about to be used by a thread is fresh (`~ RacyIDs`).
* `ActivityManagerProofs`.  `BarrierInv`, for `MutualExclusionHolds`, says
  that only registered activities run, that the number of parties is the number of
  registered activities, and that while an action runs all of them are at the
  barrier; the step that matters is `Trip`, where a subset of the registered
  activities with as many members as that set is the whole set (`LastArrival`).
  `ManagerInv`, for `StatusIsTrueHolds`, `NormalEndHolds` and `FinishTogetherHolds`, adds what a
  status says of the place of its thread (`StatusInv`), where an aborted
  status comes from (`AbortInv`: the manager's own reset, or an activity whose failure is on
  record), what the end of the run implies (`EndInv`), and when a thread that
  failed counts as finished (`FailureInv`).
* `NekoSystemProofs`.  The system is proved from its parts: `ImplementsManager` and
  `ImplementsScheduler` say that its runs are runs of `ActivityManager` and of `Scheduler`, so
  that the invariants of these hold in it; they are the instances `MP` and `SP` of the
  proof modules.  `SystemInvariant` adds what only the system knows: every protocol
  that waits with a timeout has its wake-up task, of its own, in the queue at the date of its
  deadline, or is about to see that it has passed (`WakeupInv`, `DeadlineInv`), which task a
  call has queued (`CallInv`), and which branch the manager's action has taken
  (`ActionInv`).  `ExactWakeupHolds`, `TimeoutIsTrueHolds` and `AbnormalOnlyIfStuckHolds`
  follow.  `MessagesConservedHolds` counts messages, as sets, in the queue, in the batch and in
  inboxes: only wake-ups are ever dropped, because `cancel` is called with no other
  identifier.
* `FIFOChannelProofs`.  The counters of both ends delimit what was sent and not delivered on a
  link; `ChannelInv` says that each of these messages is, once and under
  its own number, on its way or in the buffer, and that the next one is not in the
  buffer (`NothingHeldBackHolds`).  Hence the loop of `onReceive` extends `delivered` by exactly the
  part of `sent` up to where it stops (`ReceiveStep`), which is a step of `FIFOQueues` or a
  stutter (`ImplementsFIFOHolds`).  `CountInv` bounds the counters (`TypeCorrect`).
* `SafraProofs`.  `TokenInv`, for `OneTokenHolds`, adds to the types the three places where the token
  can be (`Whereabouts`): held by one process with none on its way, on its way alone and
  held by nobody, or gone once the announcement was made.  The delicate steps are
  `BecomePassive`, where a process passes a token it may not hold, and the arrival of the
  token, which is stored, passed on or consumed.  `SoundInv` adds `TokenAccountsForMessages`,
  which is Dijkstra's argument: the sum of the counters is the number of messages on
  their way, and either the processes behind the token are passive and their counters add
  up to that of the token, or the other counters and that of the token show a message that was
  sent and is not counted as received, or one of the processes still to be visited is
  black, or the token is.  When the initiator announces, nobody is active and
  nothing is on its way, and this stays so: every step is one of
  `TerminationDetection` or a stutter (`ImplementsDetectionHolds`).
* `RoundsProofs`.  `InvHolds` has an invariant for each stack of protocols.  Above `RoundBased`
  (`RoundInv`): how the rounds of the client, of receiving and of sending of a process
  are related, in each state of a crash (`ProgressInv`); every packet on its way or stashed is for a
  round that its destination has still to count and that its sender has completed, and there
  is one of each process for each round (`PacketInv`); a packet in the stash is filed by its
  round and no longer on its way (`StashInv`); packets are lost only if their sender
  may have crashed, and a process that has lost one of round 1 or later loses all
  that follow.  A batch with as many packets as there are processes is hence the whole of
  what was sent for the round (`Whole`).  For `FastAnonymousRounds` (`FastInv`): proposals are for the
  coordinator's round and from processes not yet on its list; the answer of a round goes to
  processes one round behind.  `BatchesAreWholeHolds`, `BatchesAgreeHolds`, `LockstepHolds` and
  `CrashIsFinalHolds` follow.
  What the client sends through `onSend` is a fold over one or two messages
  (`FoldOne`, `FoldTwo`).
* `ChandyLamportProofs`.  `SnapshotInv`: both clocks of every process and message agree with the causal
  pasts (`ClockInv`); on every link, white messages come first, then the marker, then
  red ones, and what a white process has received is white (`ChannelInv`); nobody that
  has not saved its state, and no message sent before its sender did, knows of events after
  the cut (`CutInv`); what is recorded is what was received after the cut and sent before
  it (`RecordInv`); the markers awaited are those that have not come, but one (`DoneInv`).
  The graph of neighbors may be any undirected one.
  `ClocksAreCausalHolds`, `ConsistentCutHolds` and `RecordIsExactHolds` follow, for any number of
  initiators.
  `NeverToldHolds` is about the processes with one neighbor, for which no marker is awaited at first.
  With active clients a step of the system is a step of `ChandyLamport` or leaves
  it alone (`ImplementsSnapshot`), so that `SnapshotInv` holds below them.  `ClientInv` relates the queue
  of a client to the cut: all that is in it has arrived; what comes before `SaveState`, and
  what the client has received while `SaveState` is still in the queue, had arrived at the cut; and a client
  that has saved its state has sent all that its process had sent at the cut.  `NoOrphansHolds`
  then follows from `ChannelInv`: what had arrived at one cut was sent before the other.
* `ApiPageProofs`.  `FilterInv`, for `MembersFollowControlsHolds`, says that what is displayed is
  what the controls let through for some text, which is that of the box, or the one that the
  tabulator erased from it, unless a key is down that will come up in it; hence it also
  relates `pressed` and `focus`, which jobs of the search could disturb (`TimerKeeps`).
  `ResultInv`, for `ResultsOfOneQueryHolds`, says which jobs are left of a search and in which order
  (`JobsLeft`: packages to search, then, in turns, members to match and results to
  show), and that the results are those of the jobs executed; or else the pattern
  was malformed or the search given up, and no job is left.

Sums and folds.  `SumOver` is defined with `MapThenSumSet` of the community modules, a recursive
function over the subsets of a set.  The theorems on well-founded relations that take
sets, and no operators, are enough to reason about it: the set of numbers, or of subsets of a finite
set, for which a formula fails has a smallest member if it is not empty (`WFMin`; `Induction`
and `SmallestSet` in `SafraProofs`).  In this way the recursion has a solution (`IterExists`), only one
(`IterUnique`), and the sum over a finite set is the term of any member plus the sum over the
rest (`SumSplit`).  The fold over the one or two messages of a client, and the search for
a queue by its label, are computed from their definitions.

Only model-checked: the liveness properties (`EveryTaskLeaves`, `EveryThreadEnds`, `Termination`,
`EveryMessageDelivered`, `EveryMessageArrives`, `EverybodyIsTold`, `EveryRoundStarts`,
`EverySearchCompletes`).  Fairness and ENABLED are out of the reach of the prover.  The properties that fail
(section 3) are refuted by TLC.

## 5. Not modelled, and the plan

Not modelled by choice: `ParallelScheduler` is instantiated nowhere and documents that
it is not thread-safe; `StashedReceive` is mixed into no class; `AnonymousRounds` wraps
`SynchronousRounds` and shuffles; tracing, GUI, configuration, clients of `util/*Client` and output are
presentation or plain data; process construction is sequential wiring.  Of the
scripts: `diagrams.js` draws; `insertSorted` is not called; `clearLabel`, `queueEmpty` and
`scheduleLast` of the scheduler are not called by any page; icons, tooltips, scrolling, the
opening of comments and the 500 ms for which the progress bar stays visible are
presentation.

Order of the work:

1. (done) `Scheduler`, `ActivityManager`, `NekoSystem`, the first theorems.
2. (done) `FIFOChannel`, refining one abstract queue per link, with its theorems.
3. (done) `Safra`, refining abstract termination detection, with the theorem of the one token.
4. (done) `RoundBased`, `SynchronousRounds`, `RoundBasedWithFailures`, `FastAnonymousRounds`.
5. (done) `LogicalClocks` and the Chandy-Lamport snapshot above them.
6. (done) The pages of the API documentation, with the theorem of the members displayed.
7. `Dispatching`: `Dispatcher`, `Receiving`, `StashedReceive` (duplicates); topologies as
   operators against reference definitions.
8. `NekoSystem` with daemons, topologies and dropped messages; an abstract specification of
   lockstep (rounds of local steps and one global step) that `ActivityManager`
   implements.
9. (done) The remaining invariants as theorems.
10. Weaker hypotheses than `~ Late` and `~ RacyIDs` for the
   theorems that survive them, such as the types of the manager and conservation of messages.
